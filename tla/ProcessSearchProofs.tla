------------------------- MODULE ProcessSearchProofs -------------------------
(***************************************************************************)
(* Proofs about ProcessSearch, for a target of any size, any values, and   *)
(* any way it writes, frees and allocates memory while it is searched, as  *)
(* long as the client obeys the rule for refreshes (~AnyRefresh).          *)
(***************************************************************************)
EXTENDS ProcessSearch, SequenceTheorems, FiniteSetTheorems, WellFoundedInduction, TLAPS

\* Induction, for a set of numbers: every set of them has a smallest one.
LEMMA Smallest ==
  ASSUME NEW T \in SUBSET Nat, T # {}
  PROVE  \E x \in T : \A y \in T : x <= y
<1> DEFINE R == {ss \in Nat \X Nat : ss[1] < ss[2]}
<1>1. R = OpToRel(<, Nat)
  BY DEF OpToRel
<1>2. IsWellFoundedOn(R, Nat)
  BY <1>1, NatLessThanWellFounded
<1>3. PICK x \in T : \A y \in T : <<y, x>> \notin R
  <2> HIDE DEF R
  <2> QED
    BY <1>2, WFMin
<1>4. ASSUME NEW y \in T PROVE x <= y
  <2>1. x \in Nat /\ y \in Nat
    OBVIOUS
  <2>2. y < x => <<y, x>> \in R
    BY <2>1
  <2>3. QED
    BY <1>3, <2>1, <2>2
<1>5. QED
  BY <1>4

LEMMA Induction ==
  ASSUME NEW T, 0 \in T, \A n \in Nat : n \in T => n + 1 \in T
  PROVE  Nat \subseteq T
<1> SUFFICES ASSUME Nat \ T # {} PROVE FALSE
  OBVIOUS
<1>1. PICK x \in Nat \ T : \A y \in Nat \ T : x <= y
  BY Smallest
<1>2. x # 0 /\ x - 1 \in Nat /\ ~(x <= x - 1)
  BY <1>1
<1>3. x - 1 \in T
  BY <1>1, <1>2
<1>4. x - 1 + 1 = x
  OBVIOUS
<1>5. QED
  BY <1>1, <1>2, <1>3, <1>4
\* And for a set of sequences, by appending.
LEMMA AppendInduction ==
  ASSUME NEW S, NEW T, <<>> \in T, \A s \in Seq(S), e \in S : s \in T => Append(s, e) \in T
  PROVE  Seq(S) \subseteq T
<1> DEFINE U == {n \in Nat : \A s \in Seq(S) : Len(s) = n => s \in T}
<1>1. 0 \in U
  <2>1. \A s \in Seq(S) : Len(s) = 0 => s = <<>>
    BY EmptySeq
  <2>2. QED
    BY <2>1
<1>2. ASSUME NEW n \in Nat, n \in U PROVE n + 1 \in U
  <2> SUFFICES ASSUME NEW s \in Seq(S), Len(s) = n + 1 PROVE s \in T
    OBVIOUS
  <2>1. s # <<>>
    OBVIOUS
  <2>2. PICK t \in Seq(S), e \in S : s = Append(t, e)
    BY <2>1, SequenceEmptyOrAppend
  <2>3. Len(t) \in Nat /\ Len(s) = Len(t) + 1
    BY <2>2, AppendProperties, LenProperties
  <2>4. Len(t) = n
    BY <2>3
  <2>5. QED
    BY <1>2, <2>2, <2>4
<1>3. Nat \subseteq U
  <2> HIDE DEF U
  <2> QED
    BY <1>1, <1>2, Induction
<1>4. QED
  BY <1>3, LenProperties
-----------------------------------------------------------------------------
\* The loop of Picked, up to place m.
Takes(f, m, s, I) ==
  f = [n \in 0..m |-> IF n = 0 THEN <<>> ELSE IF n \in I THEN Append(f[n - 1], s[n]) ELSE f[n - 1]]

LEMMA TakesExists == ASSUME NEW s, NEW I, NEW m \in Nat PROVE \E f : Takes(f, m, s, I)
<1> DEFINE T == {k \in Nat : \E f : Takes(f, k, s, I)}
<1>1. 0 \in T
  <2>1. Takes([n \in 0..0 |-> <<>>], 0, s, I)
    BY DEF Takes
  <2>2. QED
    BY <2>1
<1>2. ASSUME NEW k \in Nat, k \in T PROVE k + 1 \in T
  <2>1. PICK f : Takes(f, k, s, I)
    BY <1>2
  <2> DEFINE last == IF k + 1 \in I THEN Append(f[k], s[k + 1]) ELSE f[k]
             g == [n \in 0..(k + 1) |-> IF n <= k THEN f[n] ELSE last]
  <2>2. /\ DOMAIN f = 0..k
        /\ \A n \in 0..k : f[n] = IF n = 0 THEN <<>> ELSE IF n \in I THEN Append(f[n - 1], s[n]) ELSE f[n - 1]
    BY <2>1 DEF Takes
  <2>3. ASSUME NEW n \in 0..(k + 1)
        PROVE  g[n] = IF n = 0 THEN <<>> ELSE IF n \in I THEN Append(g[n - 1], s[n]) ELSE g[n - 1]
    <3>1. CASE n = 0
      BY <2>2, <3>1
    <3>2. CASE n \in 1..k
      <4>1. n \in 0..k /\ n <= k /\ n # 0 /\ n - 1 \in 0..(k + 1) /\ n - 1 <= k
        BY <3>2
      <4>2. g[n] = f[n] /\ g[n - 1] = f[n - 1]
        BY <4>1
      <4>3. QED
        BY <2>2, <4>1, <4>2
    <3>3. CASE n = k + 1
      <4>1. ~(n <= k) /\ n # 0 /\ n - 1 = k /\ k \in 0..(k + 1) /\ k <= k
        BY <3>3
      <4>2. g[n] = last /\ g[n - 1] = f[k]
        BY <4>1
      <4>3. QED
        BY <3>3, <4>1, <4>2
    <3>4. QED
      BY <3>1, <3>2, <3>3
  <2>4. Takes(g, k + 1, s, I)
    <3>1. g = [n \in 0..(k + 1) |-> g[n]]
      OBVIOUS
    <3> HIDE DEF g
    <3>2. QED
      BY <2>3, <3>1 DEF Takes
  <2>5. QED
    BY <2>4
<1>3. QED
  <2> HIDE DEF T
  <2>1. Nat \subseteq T
    BY <1>1, <1>2, Induction
  <2>2. QED
    BY <2>1 DEF T

LEMMA PickedTakes ==
  ASSUME NEW s, NEW I, Len(s) \in Nat
  PROVE  \E f : Takes(f, Len(s), s, I) /\ Picked(s, I) = f[Len(s)]
<1> DEFINE f == CHOOSE g : Takes(g, Len(s), s, I)
<1>1. Takes(f, Len(s), s, I)
  BY TakesExists, Zenon
<1>2. Picked(s, I) = f[Len(s)]
  BY DEF Picked, Takes
<1>3. QED
  BY <1>1, <1>2

\* What Picked returns: the elements at those places and no other ones, each
\* where it comes in s.
Follows(picked, s, J) ==
  /\ \A i \in 1..Len(picked) : \E a \in J : picked[i] = s[a]
  /\ \A a \in J : \E i \in 1..Len(picked) : picked[i] = s[a]
  /\ \A i, j \in 1..Len(picked) : i < j => \E a, b \in J : a < b /\ picked[i] = s[a] /\ picked[j] = s[b]

LEMMA PickedOf ==
  ASSUME NEW S, NEW s \in Seq(S), NEW I
  PROVE  /\ Picked(s, I) \in Seq(S) /\ Len(Picked(s, I)) <= Len(s)
         /\ Follows(Picked(s, I), s, I \cap 1..Len(s))
<1>0. Len(s) \in Nat /\ \A n \in 1..Len(s) : s[n] \in S
  BY LenProperties, ElementOfSeq
<1>1. PICK f : Takes(f, Len(s), s, I) /\ Picked(s, I) = f[Len(s)]
  BY <1>0, PickedTakes
<1>2. \A n \in 0..Len(s) : f[n] = IF n = 0 THEN <<>> ELSE IF n \in I THEN Append(f[n - 1], s[n]) ELSE f[n - 1]
  BY <1>1 DEF Takes
<1> DEFINE Good(n) == f[n] \in Seq(S) /\ Len(f[n]) <= n /\ Follows(f[n], s, I \cap 1..n)
           T == {n \in Nat : n <= Len(s) => Good(n)}
<1>3. 0 \in T
  <2>1. f[0] = <<>> /\ <<>> \in Seq(S) /\ Len(<<>>) = 0
    BY <1>0, <1>2
  <2>2. 1..0 = {} /\ I \cap 1..0 = {}
    OBVIOUS
  <2>3. Follows(<<>>, s, {})
    BY <2>1, <2>2 DEF Follows
  <2>4. Good(0)
    BY <2>1, <2>2, <2>3
  <2>5. QED
    BY <2>4
<1>4. ASSUME NEW n \in Nat, n \in T PROVE n + 1 \in T
  <2> SUFFICES ASSUME n + 1 <= Len(s) PROVE Good(n + 1)
    OBVIOUS
  <2>1. Good(n) /\ n + 1 \in 1..Len(s) /\ n + 1 \in 0..Len(s) /\ n + 1 # 0 /\ n + 1 - 1 = n
    BY <1>0, <1>4
  <2>2. f[n + 1] = IF n + 1 \in I THEN Append(f[n], s[n + 1]) ELSE f[n]
    BY <1>2, <2>1
  <2> DEFINE old == f[n]
             new == f[n + 1]
  <2>3. /\ old \in Seq(S) /\ Len(old) \in Nat /\ Len(old) <= n
        /\ \A i \in 1..Len(old) : \E a \in I \cap 1..n : old[i] = s[a]
        /\ \A a \in I \cap 1..n : \E i \in 1..Len(old) : old[i] = s[a]
        /\ \A i, j \in 1..Len(old) :
             i < j => \E a, b \in I \cap 1..n : a < b /\ old[i] = s[a] /\ old[j] = s[b]
    BY <2>1, LenProperties DEF Follows
  <2>4. 1..(n + 1) = (1..n) \cup {n + 1}
    OBVIOUS
  <2>5. CASE n + 1 \notin I
    <3>1. new = old /\ I \cap 1..(n + 1) = I \cap 1..n
      BY <2>2, <2>4, <2>5
    <3>2. Follows(new, s, I \cap 1..(n + 1))
      BY <2>1, <3>1
    <3>3. new \in Seq(S) /\ Len(new) <= n + 1
      BY <2>3, <3>1
    <3>4. QED
      BY <3>2, <3>3
  <2>6. CASE n + 1 \in I
    <3>0. s[n + 1] \in S
      BY <1>0, <2>1
    <3>1. /\ new \in Seq(S) /\ Len(new) = Len(old) + 1 /\ new[Len(old) + 1] = s[n + 1]
          /\ \A i \in 1..Len(old) : new[i] = old[i]
      BY <2>2, <2>3, <2>6, <3>0, AppendProperties
    <3>2. I \cap 1..(n + 1) = (I \cap 1..n) \cup {n + 1}
      BY <2>4, <2>6
    <3> HIDE DEF old, new
    <3>3. 1..Len(new) = (1..Len(old)) \cup {Len(old) + 1}
      BY <2>3, <3>1
    <3>4. /\ \A i \in 1..Len(new) : \E a \in I \cap 1..(n + 1) : new[i] = s[a]
          /\ \A a \in I \cap 1..(n + 1) : \E i \in 1..Len(new) : new[i] = s[a]
      <4>1. ASSUME NEW i \in 1..Len(new) PROVE \E a \in I \cap 1..(n + 1) : new[i] = s[a]
        <5>1. CASE i \in 1..Len(old)
          <6>1. PICK a \in I \cap 1..n : old[i] = s[a]
            BY <2>3, <5>1
          <6>2. QED
            BY <3>1, <3>2, <5>1, <6>1
        <5>2. CASE i = Len(old) + 1
          BY <3>1, <3>2, <5>2
        <5>3. QED
          BY <3>3, <5>1, <5>2
      <4>2. ASSUME NEW a \in I \cap 1..(n + 1) PROVE \E i \in 1..Len(new) : new[i] = s[a]
        <5>1. CASE a \in I \cap 1..n
          <6>1. PICK i \in 1..Len(old) : old[i] = s[a]
            BY <2>3, <5>1
          <6>2. QED
            BY <3>1, <3>3, <6>1
        <5>2. CASE a = n + 1
          BY <3>1, <3>3, <5>2
        <5>3. QED
          BY <3>2, <5>1, <5>2
      <4>3. QED
        BY <4>1, <4>2
    <3>5. ASSUME NEW i \in 1..Len(new), NEW j \in 1..Len(new), i < j
          PROVE  \E a, b \in I \cap 1..(n + 1) : a < b /\ new[i] = s[a] /\ new[j] = s[b]
      <4>1. i \in 1..Len(old)
        BY <2>3, <3>1, <3>5
      <4>2. CASE j \in 1..Len(old)
        <5>1. PICK a \in I \cap 1..n, b \in I \cap 1..n : a < b /\ old[i] = s[a] /\ old[j] = s[b]
          BY <2>3, <3>5, <4>1, <4>2
        <5>2. new[i] = s[a] /\ new[j] = s[b] /\ a \in I \cap 1..(n + 1) /\ b \in I \cap 1..(n + 1)
          BY <3>1, <3>2, <4>1, <4>2, <5>1
        <5>3. QED
          BY <5>1, <5>2
      <4>3. CASE j = Len(old) + 1
        <5>1. PICK a \in I \cap 1..n : old[i] = s[a]
          BY <2>3, <4>1
        <5>2. a < n + 1 /\ n + 1 \in I \cap 1..(n + 1) /\ a \in I \cap 1..(n + 1)
          BY <3>2
        <5>3. QED
          BY <3>1, <4>1, <4>3, <5>1, <5>2
      <4>4. QED
        BY <3>3, <4>2, <4>3
    <3>6. Follows(new, s, I \cap 1..(n + 1))
      BY <3>4, <3>5 DEF Follows
    <3>7. Len(new) <= n + 1
      BY <2>3, <3>1
    <3>8. QED
      BY <3>1, <3>6, <3>7 DEF new
  <2>7. QED
    BY <2>5, <2>6
<1>5. Len(s) \in T
  <2> HIDE DEF T
  <2> QED
    BY <1>0, <1>3, <1>4, Induction
<1>6. QED
  BY <1>0, <1>1, <1>5

LEMMA PickedAll ==
  ASSUME NEW S, NEW s \in Seq(S), NEW I, 1..Len(s) \subseteq I
  PROVE  /\ Picked(s, I) \in Seq(S) /\ Len(Picked(s, I)) = Len(s)
         /\ \A i \in 1..Len(s) : Picked(s, I)[i] = s[i]
<1>0. Len(s) \in Nat /\ \A n \in 1..Len(s) : s[n] \in S
  BY LenProperties, ElementOfSeq
<1>1. PICK f : Takes(f, Len(s), s, I) /\ Picked(s, I) = f[Len(s)]
  BY <1>0, PickedTakes
<1>2. f[0] = <<>> /\ \A n \in 1..Len(s) : f[n] = Append(f[n - 1], s[n])
  <2>1. \A n \in 0..Len(s) : f[n] = IF n = 0 THEN <<>> ELSE IF n \in I THEN Append(f[n - 1], s[n]) ELSE f[n - 1]
    BY <1>1 DEF Takes
  <2>2. 0 \in 0..Len(s) /\ \A n \in 1..Len(s) : n \in 0..Len(s) /\ n # 0 /\ n \in I
    BY <1>0
  <2>3. QED
    BY <2>1, <2>2
<1> DEFINE T == {n \in Nat : n <= Len(s) => /\ f[n] \in Seq(S) /\ Len(f[n]) = n
                                            /\ \A i \in 1..n : f[n][i] = s[i]}
<1>3. 0 \in T
  <2>1. f[0] \in Seq(S) /\ Len(f[0]) = 0 /\ 1..0 = {}
    BY <1>2
  <2>2. QED
    BY <2>1
<1>4. ASSUME NEW n \in Nat, n \in T PROVE n + 1 \in T
  <2> SUFFICES ASSUME n + 1 <= Len(s)
               PROVE  f[n + 1] \in Seq(S) /\ Len(f[n + 1]) = n + 1 /\ \A i \in 1..(n + 1) : f[n + 1][i] = s[i]
    OBVIOUS
  <2> DEFINE old == f[n]
             new == f[n + 1]
  <2>1. /\ old \in Seq(S) /\ Len(old) = n /\ \A i \in 1..n : old[i] = s[i]
        /\ n + 1 \in 1..Len(s) /\ (n + 1) - 1 = n
    BY <1>0, <1>4
  <2>2. new = Append(old, s[n + 1]) /\ s[n + 1] \in S
    BY <1>0, <1>2, <2>1
  <2> HIDE DEF old, new
  <2>3. new \in Seq(S) /\ Len(new) = n + 1 /\ (\A i \in 1..n : new[i] = old[i]) /\ new[n + 1] = s[n + 1]
    BY <2>1, <2>2, AppendProperties
  <2>4. \A i \in 1..(n + 1) : new[i] = s[i]
    BY <2>1, <2>3
  <2>5. QED
    BY <2>3, <2>4 DEF new
<1>5. Len(s) \in T
  <2> HIDE DEF T
  <2> QED
    BY <1>0, <1>3, <1>4, Induction
<1>6. QED
  BY <1>0, <1>1, <1>5
-----------------------------------------------------------------------------
\* How FlattenSeq lays one sequence behind the other.
Flattens(f, m, s) == f = [i \in 1..m |-> IF i = 1 THEN s[i] ELSE f[i - 1] \o s[i]]

LEMMA FlattensExists == ASSUME NEW s, NEW m \in Nat PROVE \E f : Flattens(f, m, s)
<1> DEFINE T == {k \in Nat : \E f : Flattens(f, k, s)}
<1>1. 0 \in T
  <2>1. Flattens([i \in 1..0 |-> s[i]], 0, s)
    BY DEF Flattens
  <2>2. QED
    BY <2>1
<1>2. ASSUME NEW k \in Nat, k \in T PROVE k + 1 \in T
  <2>1. PICK f : Flattens(f, k, s)
    BY <1>2
  <2> DEFINE last == IF k + 1 = 1 THEN s[k + 1] ELSE f[k] \o s[k + 1]
             g == [i \in 1..(k + 1) |-> IF i <= k THEN f[i] ELSE last]
  <2>2. \A i \in 1..k : f[i] = IF i = 1 THEN s[i] ELSE f[i - 1] \o s[i]
    BY <2>1 DEF Flattens
  <2>3. ASSUME NEW i \in 1..(k + 1) PROVE g[i] = IF i = 1 THEN s[i] ELSE g[i - 1] \o s[i]
    <3>1. CASE i \in 1..k
      <4>1. g[i] = f[i] /\ (i # 1 => g[i - 1] = f[i - 1])
        BY <3>1
      <4>2. QED
        BY <2>2, <3>1, <4>1
    <3>2. CASE i = k + 1
      <4>1. g[i] = last /\ (i # 1 => g[i - 1] = f[k])
        BY <3>2
      <4>2. QED
        BY <3>2, <4>1
    <3>3. QED
      BY <3>1, <3>2
  <2>4. Flattens(g, k + 1, s)
    <3>1. g = [i \in 1..(k + 1) |-> g[i]]
      OBVIOUS
    <3> HIDE DEF g
    <3>2. QED
      BY <2>3, <3>1 DEF Flattens
  <2>5. QED
    BY <2>4
<1>3. Nat \subseteq T
  <2> HIDE DEF T
  <2> QED
    BY <1>1, <1>2, Induction
<1>4. QED
  BY <1>3

LEMMA FlattenSteps ==
  ASSUME NEW s, Len(s) \in Nat \ {0}
  PROVE  \E f : Flattens(f, Len(s), s) /\ FlattenSeq(s) = f[Len(s)]
<1> DEFINE f == CHOOSE g : Flattens(g, Len(s), s)
<1>1. Flattens(f, Len(s), s)
  BY FlattensExists, Zenon
<1>2. FlattenSeq(s) = f[Len(s)]
  BY DEF FlattenSeq, Flattens
<1>3. QED
  BY <1>1, <1>2

\* FlattenSeq, one sequence at a time.
LEMMA FlattenAppend ==
  ASSUME NEW S, NEW c \in Seq(Seq(S)), NEW x \in Seq(S)
  PROVE  FlattenSeq(Append(c, x)) = IF c = <<>> THEN x ELSE FlattenSeq(c) \o x
<1> DEFINE d == Append(c, x)
           n == Len(c)
<1>1. /\ d \in Seq(Seq(S)) /\ Len(d) = n + 1 /\ n \in Nat /\ d[n + 1] = x /\ \A i \in 1..n : d[i] = c[i]
  BY AppendProperties, LenProperties
<1>2. c = <<>> <=> n = 0
  BY EmptySeq
<1> HIDE DEF d, n
<1>3. PICK f : Flattens(f, n + 1, d) /\ FlattenSeq(d) = f[n + 1]
  <2>1. Len(d) \in Nat \ {0}
    BY <1>1
  <2>2. \E f : Flattens(f, Len(d), d) /\ FlattenSeq(d) = f[Len(d)]
    BY <2>1, FlattenSteps
  <2>3. QED
    BY <1>1, <2>2
<1>4. f[1] = d[1] /\ \A i, j : i \in 2..(n + 1) /\ j = i - 1 => f[i] = f[j] \o d[i]
  <2>1. \A i \in 1..(n + 1) : f[i] = IF i = 1 THEN d[i] ELSE f[i - 1] \o d[i]
    BY <1>3 DEF Flattens
  <2>2. 1 \in 1..(n + 1) /\ \A i \in 2..(n + 1) : i \in 1..(n + 1) /\ i # 1
    BY <1>1
  <2>3. QED
    BY <2>1, <2>2
<1>5. CASE n = 0
  BY <1>1, <1>2, <1>3, <1>4, <1>5 DEF d
<1>6. CASE n # 0
  <2>1. PICK g : Flattens(g, n, c) /\ FlattenSeq(c) = g[n]
    BY <1>1, <1>6, FlattenSteps DEF n
  <2>2. g[1] = c[1] /\ \A i, j : i \in 2..n /\ j = i - 1 => g[i] = g[j] \o c[i]
    <3>1. \A i \in 1..n : g[i] = IF i = 1 THEN c[i] ELSE g[i - 1] \o c[i]
      BY <2>1 DEF Flattens
    <3>2. 1 \in 1..n /\ \A i \in 2..n : i \in 1..n /\ i # 1
      BY <1>1, <1>6
    <3>3. QED
      BY <3>1, <3>2
  <2> DEFINE T == {i \in Nat : i \in 1..n => f[i] = g[i]}
  <2>3. 0 \in T
    OBVIOUS
  <2>4. ASSUME NEW i \in Nat, i \in T PROVE i + 1 \in T
    <3> SUFFICES ASSUME i + 1 \in 1..n PROVE f[i + 1] = g[i + 1]
      OBVIOUS
    <3>1. i + 1 \in 1..(n + 1) /\ d[i + 1] = c[i + 1] /\ i = (i + 1) - 1
      BY <1>1
    <3>2. CASE i = 0
      BY <1>4, <2>2, <3>1, <3>2
    <3>3. CASE i # 0
      <4>1. f[i] = g[i] /\ i + 1 # 1
        BY <1>1, <2>4, <3>3
      <4>2. f[i + 1] = f[i] \o d[i + 1]
        <5>1. i + 1 \in 2..(n + 1)
          BY <3>1, <4>1
        <5>2. QED
          BY <1>4, <3>1, <5>1, Zenon
      <4>3. g[i + 1] = g[i] \o c[i + 1]
        <5>1. i + 1 \in 2..n
          BY <4>1
        <5>2. QED
          BY <2>2, <3>1, <5>1, Zenon
      <4>4. QED
        BY <3>1, <4>1, <4>2, <4>3
    <3>4. QED
      BY <3>2, <3>3
  <2>5. f[n] = g[n]
    <3>1. Nat \subseteq T
      <4> HIDE DEF T
      <4> QED
        BY <2>3, <2>4, Induction
    <3>2. QED
      BY <1>1, <1>6, <3>1
  <2>6. n + 1 \in 1..(n + 1) /\ n + 1 # 1 /\ n = (n + 1) - 1
    BY <1>1, <1>6
  <2>7. f[n + 1] = f[n] \o d[n + 1]
    <3>1. n + 1 \in 2..(n + 1)
      BY <1>1, <1>6
    <3>2. QED
      BY <1>4, <2>6, <3>1, Zenon
  <2>8. QED
    BY <1>1, <1>2, <1>3, <1>6, <2>1, <2>5, <2>7 DEF d
<1>7. QED
  BY <1>5, <1>6

LEMMA FlattenEmpty == FlattenSeq(<<>>) = <<>>
BY DEF FlattenSeq

LEMMA FlattenTyped == ASSUME NEW S, NEW c \in Seq(Seq(S)) PROVE FlattenSeq(c) \in Seq(S)
<1> DEFINE T == {d \in Seq(Seq(S)) : FlattenSeq(d) \in Seq(S)}
<1>1. <<>> \in T
  <2>1. <<>> \in Seq(Seq(S)) /\ <<>> \in Seq(S)
    BY EmptySeq
  <2>2. QED
    BY <2>1, FlattenEmpty, Zenon
<1>2. ASSUME NEW d \in Seq(Seq(S)), NEW x \in Seq(S), d \in T PROVE Append(d, x) \in T
  <2>1. FlattenSeq(Append(d, x)) = IF d = <<>> THEN x ELSE FlattenSeq(d) \o x
    BY FlattenAppend
  <2>2. FlattenSeq(d) \o x \in Seq(S)
    BY <1>2, ConcatProperties
  <2>3. Append(d, x) \in Seq(Seq(S))
    BY AppendProperties
  <2>4. QED
    BY <2>1, <2>2, <2>3
<1>3. Seq(Seq(S)) \subseteq T
  <2> HIDE DEF T
  <2> QED
    BY <1>1, <1>2, AppendInduction
<1>4. QED
  BY <1>3

LEMMA FlattenNext ==
  ASSUME NEW S, NEW c \in Seq(Seq(S)), NEW x \in Seq(S)
  PROVE  FlattenSeq(Append(c, x)) = FlattenSeq(c) \o x
<1>1. <<>> \o x = x
  BY ConcatEmptySeq
<1>2. QED
  BY <1>1, FlattenAppend, FlattenEmpty

LEMMA ConcatTwice ==
  ASSUME NEW S, NEW p \in Seq(S), NEW q \in Seq(S), NEW r \in Seq(S)
  PROVE  (p \o q) \o r = p \o (q \o r)
OBVIOUS

LEMMA ConcatLast ==
  ASSUME NEW S, NEW p \in Seq(S), NEW q \in Seq(S), NEW y \in S
  PROVE  p \o Append(q, y) = Append(p \o q, y)
OBVIOUS

Splits(c, d) == FlattenSeq(c \o d) = FlattenSeq(c) \o FlattenSeq(d)

LEMMA SplitsFurther ==
  ASSUME NEW S, NEW c \in Seq(Seq(S)), NEW e \in Seq(Seq(S)), NEW x \in Seq(S), Splits(c, e)
  PROVE  Splits(c, Append(e, x))
<1>1. c \o Append(e, x) = Append(c \o e, x)
  BY ConcatLast
<1>2. FlattenSeq(c) \in Seq(S) /\ FlattenSeq(e) \in Seq(S)
  BY FlattenTyped
<1>3. FlattenSeq(Append(c \o e, x)) = FlattenSeq(c \o e) \o x
  <2>1. c \o e \in Seq(Seq(S))
    BY ConcatProperties
  <2>2. QED
    BY <2>1, FlattenNext
<1>4. FlattenSeq(Append(e, x)) = FlattenSeq(e) \o x
  BY FlattenNext
<1>5. (FlattenSeq(c) \o FlattenSeq(e)) \o x = FlattenSeq(c) \o (FlattenSeq(e) \o x)
  BY <1>2, ConcatTwice
<1>6. FlattenSeq(c \o e) = FlattenSeq(c) \o FlattenSeq(e)
  BY DEF Splits
<1>7. FlattenSeq(c \o Append(e, x)) = FlattenSeq(c) \o FlattenSeq(Append(e, x))
  BY <1>1, <1>3, <1>4, <1>5, <1>6, Zenon
<1>8. QED
  BY <1>7 DEF Splits

LEMMA FlattenConcat ==
  ASSUME NEW S, NEW c \in Seq(Seq(S)), NEW d \in Seq(Seq(S))
  PROVE  FlattenSeq(c \o d) = FlattenSeq(c) \o FlattenSeq(d)
<1> DEFINE T == {e \in Seq(Seq(S)) : Splits(c, e)}
<1>1. <<>> \in T
  <2>1. c \o <<>> = c /\ FlattenSeq(c) \o <<>> = FlattenSeq(c) /\ <<>> \in Seq(Seq(S))
    BY FlattenTyped, ConcatEmptySeq, EmptySeq
  <2>2. Splits(c, <<>>)
    BY <2>1, FlattenEmpty, Zenon DEF Splits
  <2>3. QED
    BY <2>1, <2>2, Zenon
<1>2. ASSUME NEW e \in Seq(Seq(S)), NEW x \in Seq(S), e \in T PROVE Append(e, x) \in T
  <2>1. Append(e, x) \in Seq(Seq(S))
    BY AppendProperties
  <2>2. Splits(c, e)
    BY <1>2
  <2>3. Splits(c, Append(e, x))
    BY <2>2, SplitsFurther
  <2>4. QED
    BY <2>1, <2>3
<1>3. Seq(Seq(S)) \subseteq T
  <2> HIDE DEF T
  <2> QED
    BY <1>1, <1>2, AppendInduction
<1>4. QED
  BY <1>3 DEF Splits

LEMMA FlattenOne == ASSUME NEW S, NEW x \in Seq(S) PROVE FlattenSeq(<<x>>) = x
<1>1. <<>> \in Seq(Seq(S)) /\ Append(<<>>, x) = <<x>>
  OBVIOUS
<1>2. FlattenSeq(Append(<<>>, x)) = x
  BY <1>1, FlattenAppend
<1>3. QED
  BY <1>1, <1>2

LEMMA FlattenTail ==
  ASSUME NEW S, NEW c \in Seq(Seq(S)), c # <<>>
  PROVE  FlattenSeq(c) = Head(c) \o FlattenSeq(Tail(c))
<1>1. Head(c) \in Seq(S) /\ Tail(c) \in Seq(Seq(S)) /\ <<Head(c)>> \in Seq(Seq(S))
  BY HeadTailProperties
<1>2. c = <<Head(c)>> \o Tail(c)
  OBVIOUS
<1>3. FlattenSeq(<<Head(c)>> \o Tail(c)) = FlattenSeq(<<Head(c)>>) \o FlattenSeq(Tail(c))
  BY <1>1, FlattenConcat
<1>4. FlattenSeq(<<Head(c)>>) = Head(c)
  BY <1>1, FlattenOne
<1>5. QED
  BY <1>2, <1>3, <1>4

LEMMA FlattenSingles == ASSUME NEW S, NEW recs \in Seq(S) PROVE FlattenSeq(Singles(recs)) = recs
<1> DEFINE T == {s \in Seq(S) : Singles(s) \in Seq(Seq(S)) /\ FlattenSeq(Singles(s)) = s}
<1>1. <<>> \in T
  <2>1. Singles(<<>>) = <<>>
    BY DEF Singles
  <2>2. <<>> \in Seq(S) /\ <<>> \in Seq(Seq(S))
    BY EmptySeq
  <2>3. QED
    BY <2>1, <2>2, FlattenEmpty, Zenon
<1>2. ASSUME NEW s \in Seq(S), NEW e \in S, s \in T PROVE Append(s, e) \in T
  <2>0. <<e>> \in Seq(S) /\ Len(s) \in Nat /\ Singles(s) \in Seq(Seq(S))
    BY <1>2, LenProperties
  <2>1. Singles(Append(s, e)) = Append(Singles(s), <<e>>)
    BY DEF Singles
  <2>2. Append(s, e) = s \o <<e>> /\ Append(s, e) \in Seq(S)
    BY AppendIsConcat, AppendProperties
  <2>3. FlattenSeq(Append(Singles(s), <<e>>)) = FlattenSeq(Singles(s)) \o <<e>>
    BY <2>0, FlattenNext
  <2>4. Append(Singles(s), <<e>>) \in Seq(Seq(S))
    BY <2>0, AppendProperties
  <2>5. QED
    BY <1>2, <2>1, <2>2, <2>3, <2>4
<1>3. Seq(S) \subseteq T
  <2> HIDE DEF T
  <2> QED
    BY <1>1, <1>2, AppendInduction
<1>4. QED
  BY <1>3
-----------------------------------------------------------------------------
\* The words of page p are those behind (p - 1) * PageWords.
LEMMA PageOf ==
  ASSUME NEW a \in Addr
  PROVE  /\ Page(a) \in 1..Pages
         /\ (Page(a) - 1) * PageWords < a /\ a <= Page(a) * PageWords
<1>1. a \in Nat /\ a - 1 \in Nat /\ PageWords \in Nat \ {0} /\ Pages \in Nat /\ a <= Pages * PageWords
  BY SizeAssumption DEF Addr
<1> DEFINE q == (a - 1) \div PageWords
<1>2. q \in Nat /\ q * PageWords <= a - 1 /\ a - 1 < (q + 1) * PageWords
  BY <1>1
<1>3. Page(a) = q + 1
  BY DEF Page
<1> HIDE DEF q
<1>4. q + 1 <= Pages
  <2>1. SUFFICES ASSUME q >= Pages PROVE FALSE
    BY <1>1, <1>2
  <2>2. Pages * PageWords <= q * PageWords
    BY <1>1, <1>2, <2>1
  <2>3. QED
    BY <1>1, <1>2, <2>2
<1>5. QED
  BY <1>1, <1>2, <1>3, <1>4

LEMMA WordOf ==
  ASSUME NEW p \in Nat \ {0}, NEW x \in Nat, p + x - 1 <= Pages, NEW k \in 1..(x * PageWords)
  PROVE  LET a == (p - 1) * PageWords + k IN a \in Addr /\ Page(a) \in p..(p + x - 1)
<1> DEFINE a == (p - 1) * PageWords + k
           q == (a - 1) \div PageWords
<1>1. p - 1 \in Nat /\ PageWords \in Nat \ {0} /\ Pages \in Nat /\ k \in Nat /\ k >= 1 /\ k <= x * PageWords
  BY SizeAssumption
<1>2. (p - 1) * PageWords \in Nat
  BY <1>1
<1>3. a \in Nat /\ a >= 1 /\ a - 1 \in Nat /\ a <= (p - 1) * PageWords + x * PageWords
  BY <1>1, <1>2
<1>4. (p - 1) * PageWords + x * PageWords = (p + x - 1) * PageWords
  BY <1>1
<1>5. (p + x - 1) * PageWords <= Pages * PageWords
  BY <1>1
<1>6. a \in Addr
  BY <1>1, <1>3, <1>4, <1>5 DEF Addr
<1> HIDE DEF a
<1>7. q \in Nat /\ q * PageWords <= a - 1 /\ a - 1 < (q + 1) * PageWords
  BY <1>1, <1>3
<1>8. Page(a) = q + 1
  BY DEF Page
<1> HIDE DEF q
<1>9. q + 1 <= p + x - 1
  <2>1. SUFFICES ASSUME q >= p + x - 1 PROVE FALSE
    BY <1>1, <1>7
  <2>2. (p + x - 1) * PageWords <= q * PageWords
    BY <1>1, <1>7, <2>1
  <2>3. QED
    BY <1>1, <1>3, <1>4, <1>7, <2>2
<1>10. q + 1 >= p
  <2>1. SUFFICES ASSUME q + 1 <= p - 1 PROVE FALSE
    BY <1>1, <1>7
  <2>2. (q + 1) * PageWords <= (p - 1) * PageWords
    BY <1>1, <1>7, <2>1
  <2>3. a - 1 >= (p - 1) * PageWords
    BY <1>1, <1>2 DEF a
  <2>4. QED
    BY <1>1, <1>2, <1>3, <1>7, <2>2, <2>3
<1>11. QED
  BY <1>6, <1>7, <1>8, <1>9, <1>10 DEF a

\* A run of usable pages is an interval, as long as it has pages.
LEMMA RunOf ==
  ASSUME mapped \subseteq 1..Pages, NEW p \in mapped
  PROVE  /\ Cardinality(Run(p)) \in Nat \ {0} /\ p + Cardinality(Run(p)) - 1 <= Pages
         /\ p..(p + Cardinality(Run(p)) - 1) \subseteq mapped
         /\ \A q \in p..Pages : p..q \subseteq mapped => q <= p + Cardinality(Run(p)) - 1
<1>0. Pages \in Nat /\ p \in 1..Pages
  BY SizeAssumption
<1> DEFINE T == {x \in Nat : p + x \notin mapped}
<1>1. Pages \in T
  BY <1>0
<1>2. PICK x \in T : \A y \in T : x <= y
  BY <1>1, Smallest
<1>3. x \in Nat /\ x # 0 /\ p + x \notin mapped
  BY <1>0
<1>4. ASSUME NEW q \in p..(p + x - 1) PROVE q \in mapped
  <2>1. q - p \in Nat /\ ~(x <= q - p) /\ p + (q - p) = q
    BY <1>0, <1>3
  <2>2. q - p \notin T
    BY <1>2, <2>1
  <2>3. QED
    BY <2>1, <2>2
<1>5. p + x - 1 \in mapped /\ p + x - 1 <= Pages
  <2>1. p + x - 1 \in p..(p + x - 1)
    BY <1>0, <1>3
  <2>2. QED
    BY <1>4, <2>1
<1>6. ASSUME NEW q \in p..Pages, p..q \subseteq mapped PROVE q <= p + x - 1
  <2>1. SUFFICES ASSUME q >= p + x PROVE FALSE
    BY <1>0, <1>3
  <2>2. p + x \in p..q
    BY <1>0, <1>3, <2>1
  <2>3. QED
    BY <1>3, <1>6, <2>2
<1>7. Run(p) = p..(p + x - 1)
  <2>1. ASSUME NEW q \in p..(p + x - 1) PROVE q \in p..Pages /\ p..q \subseteq mapped
    BY <1>0, <1>3, <1>4, <1>5
  <2>2. QED
    BY <1>0, <1>3, <1>6, <2>1 DEF Run
<1>8. Cardinality(Run(p)) = x
  <2>1. Cardinality(p..(p + x - 1)) = p + x - 1 - p + 1
    BY <1>0, <1>3, FS_Interval
  <2>2. QED
    BY <1>0, <1>3, <1>7, <2>1
<1>9. QED
  BY <1>3, <1>4, <1>5, <1>6, <1>8

\* The regions that a first scan reads: consecutive words that can be read
\* when it begins, a page of them at least, and no such word is in none.
Consecutive(region) == \A k \in 1..Len(region) : region[k] = region[1] + k - 1

LEMMA RegionOf ==
  ASSUME mapped \subseteq 1..Pages, NEW p \in mapped
  PROVE  /\ Region(p) \in Seq(Addr) /\ Len(Region(p)) >= PageWords /\ Consecutive(Region(p))
         /\ \A k \in 1..Len(Region(p)) : Page(Region(p)[k]) \in mapped
<1> DEFINE x == Cardinality(Run(p))
<1>0. PageWords \in Nat \ {0} /\ p \in Nat \ {0}
  BY SizeAssumption
<1>1. x \in Nat \ {0} /\ p + x - 1 <= Pages /\ p..(p + x - 1) \subseteq mapped
  BY RunOf
<1>2. Region(p) = [k \in 1..(x * PageWords) |-> (p - 1) * PageWords + k]
  BY DEF Region
<1> HIDE DEF x
<1>3. x * PageWords \in Nat /\ x * PageWords >= PageWords
  BY <1>0, <1>1
<1>4. \A k \in 1..(x * PageWords) : Region(p)[k] \in Addr /\ Page(Region(p)[k]) \in mapped
  BY <1>0, <1>1, <1>2, WordOf
<1>5. Region(p) \in [1..(x * PageWords) -> Addr]
  BY <1>2, <1>4
<1>6. Region(p) \in Seq(Addr) /\ Len(Region(p)) = x * PageWords
  BY <1>3, <1>5, SeqDef
<1>7. Consecutive(Region(p))
  <2>1. \A k \in 1..(x * PageWords) : Region(p)[k] = (p - 1) * PageWords + k
    BY <1>2
  <2>2. (p - 1) * PageWords \in Nat /\ 1 \in 1..(x * PageWords)
    BY <1>0, <1>3
  <2>3. QED
    BY <1>6, <2>1, <2>2 DEF Consecutive
<1>8. QED
  BY <1>3, <1>4, <1>6, <1>7

LEMMA RegionsOf ==
  ASSUME mapped \subseteq 1..Pages
  PROVE  /\ RescanRegions \in Seq(Seq(Addr))
         /\ \A i \in 1..Len(RescanRegions) : \E p \in mapped : RescanRegions[i] = Region(p)
         /\ \A a \in Addr : Page(a) \in mapped =>
              \E i \in 1..Len(RescanRegions) : \E k \in 1..Len(RescanRegions[i]) : RescanRegions[i][k] = a
         /\ \A i, j \in 1..Len(RescanRegions) :
              i < j => \E p, q \in mapped : /\ p < q /\ q - 1 \notin mapped
                                            /\ RescanRegions[i] = Region(p) /\ RescanRegions[j] = Region(q)
<1> DEFINE starts == {p \in mapped : p - 1 \notin mapped}
           all == [p \in 1..Pages |-> Region(p)]
           S == {Region(p) : p \in 1..Pages}
<1>0. Pages \in Nat /\ PageWords \in Nat \ {0} /\ mapped \subseteq Nat
  BY SizeAssumption
<1>1. all \in Seq(S) /\ Len(all) = Pages
  <2>1. all \in [1..Pages -> S]
    OBVIOUS
  <2> HIDE DEF all, S
  <2>2. QED
    BY <1>0, <2>1, SeqDef
<1>2. RescanRegions = Picked(all, starts)
  BY DEF RescanRegions
<1>3. starts \cap 1..Len(all) = starts
  BY <1>1
<1>4. /\ RescanRegions \in Seq(S)
      /\ \A i \in 1..Len(RescanRegions) : \E p \in starts : RescanRegions[i] = all[p]
      /\ \A p \in starts : \E i \in 1..Len(RescanRegions) : RescanRegions[i] = all[p]
      /\ \A i, j \in 1..Len(RescanRegions) :
           i < j => \E p, q \in starts : p < q /\ RescanRegions[i] = all[p] /\ RescanRegions[j] = all[q]
  <2> HIDE DEF all, starts, S
  <2>1. Picked(all, starts) \in Seq(S) /\ Follows(Picked(all, starts), all, starts \cap 1..Len(all))
    BY <1>1, PickedOf
  <2>2. RescanRegions \in Seq(S) /\ Follows(RescanRegions, all, starts)
    BY <1>2, <1>3, <2>1
  <2>3. QED
    BY <2>2 DEF Follows
<1>5. \A i \in 1..Len(RescanRegions) : \E p \in starts : RescanRegions[i] = Region(p)
  BY <1>4
<1>6. RescanRegions \in Seq(Seq(Addr))
  <2>1. Len(RescanRegions) \in Nat /\ RescanRegions \in [1..Len(RescanRegions) -> S]
    BY <1>4, LenProperties
  <2>2. \A i \in 1..Len(RescanRegions) : RescanRegions[i] \in Seq(Addr)
    BY <1>5, RegionOf
  <2>3. RescanRegions \in [1..Len(RescanRegions) -> Seq(Addr)]
    BY <2>1, <2>2
  <2>4. QED
    BY <2>1, <2>3, SeqDef
<1>7. ASSUME NEW a \in Addr, Page(a) \in mapped
      PROVE  \E i \in 1..Len(RescanRegions) : \E k \in 1..Len(RescanRegions[i]) : RescanRegions[i][k] = a
  <2> DEFINE T == {x \in Nat \ {0} : x..Page(a) \subseteq mapped}
  <2>1. Page(a) \in T
    <3>1. Page(a) \in Nat \ {0} /\ Page(a)..Page(a) = {Page(a)}
      BY <1>7, PageOf
    <3>2. QED
      BY <1>7, <3>1
  <2>2. PICK p \in T : \A y \in T : p <= y
    BY <2>1, Smallest
  <2>3. p \in Nat \ {0} /\ p <= Page(a) /\ p..Page(a) \subseteq mapped /\ Page(a) \in 1..Pages
    BY <1>0, <1>7, <2>1, <2>2
  <2>4. p \in mapped
    BY <2>3
  <2>5. p - 1 \notin mapped
    <3>1. SUFFICES ASSUME p - 1 \in mapped PROVE FALSE
      OBVIOUS
    <3>2. p - 1 \in 1..Pages
      BY <3>1
    <3>3. (p - 1)..Page(a) \subseteq mapped
      BY <2>3, <3>1
    <3>4. p - 1 \in T
      BY <3>2, <3>3
    <3>5. QED
      BY <2>2, <2>3, <3>4
  <2> DEFINE x == Cardinality(Run(p))
  <2>6. x \in Nat \ {0} /\ Page(a) <= p + x - 1
    BY <2>3, <2>4, RunOf
  <2> HIDE DEF x
  <2> DEFINE k == a - (p - 1) * PageWords
  <2>7. k \in 1..(x * PageWords)
    <3>1. a \in Nat /\ (Page(a) - 1) * PageWords < a /\ a <= Page(a) * PageWords
      BY PageOf DEF Addr
    <3>2. (p - 1) * PageWords <= (Page(a) - 1) * PageWords /\ (p - 1) * PageWords \in Nat
      BY <1>0, <2>3
    <3>3. Page(a) * PageWords <= (p + x - 1) * PageWords
      BY <1>0, <2>3, <2>6
    <3>4. (p + x - 1) * PageWords = (p - 1) * PageWords + x * PageWords
      BY <1>0, <2>3, <2>6
    <3>5. (Page(a) - 1) * PageWords \in Int /\ Page(a) * PageWords \in Int /\ x * PageWords \in Nat
      BY <1>0, <2>3, <2>6
    <3>6. QED
      BY <3>1, <3>2, <3>3, <3>4, <3>5
  <2>8. Len(Region(p)) = x * PageWords /\ Region(p)[k] = a
    <3>1. Region(p) = [j \in 1..(x * PageWords) |-> (p - 1) * PageWords + j]
      BY DEF Region, x
    <3>2. x * PageWords \in Nat /\ (p - 1) * PageWords \in Nat /\ a \in Nat
      BY <1>0, <2>3, <2>6 DEF Addr
    <3>3. Region(p)[k] = (p - 1) * PageWords + k
      BY <2>7, <3>1
    <3>4. Len(Region(p)) = x * PageWords
      <4>1. Region(p) \in Seq(Addr) /\ DOMAIN Region(p) = 1..(x * PageWords)
        BY <2>4, <3>1, RegionOf
      <4>2. QED
        BY <3>2, <4>1, LenProperties
    <3>5. QED
      BY <3>2, <3>3, <3>4
  <2>9. PICK i \in 1..Len(RescanRegions) : RescanRegions[i] = all[p]
    BY <1>4, <2>4, <2>5
  <2>10. RescanRegions[i] = Region(p)
    BY <1>0, <2>4, <2>9
  <2> HIDE DEF k
  <2>11. QED
    BY <2>7, <2>8, <2>9, <2>10
<1>8. ASSUME NEW i \in 1..Len(RescanRegions), NEW j \in 1..Len(RescanRegions), i < j
      PROVE  \E p, q \in mapped : /\ p < q /\ q - 1 \notin mapped
                                  /\ RescanRegions[i] = Region(p) /\ RescanRegions[j] = Region(q)
  <2>1. PICK p \in starts, q \in starts : p < q /\ RescanRegions[i] = all[p] /\ RescanRegions[j] = all[q]
    BY <1>4, <1>8
  <2>2. all[p] = Region(p) /\ all[q] = Region(q)
    OBVIOUS
  <2>3. QED
    BY <2>1, <2>2
<1>9. QED
  BY <1>5, <1>6, <1>7, <1>8
-----------------------------------------------------------------------------
Reported == [addr : Addr, value : Value, type : {1, -1}]

\* The type invariant, with the contents of the sequences.
TInv ==
  /\ mem \in [Addr -> Value] /\ mapped \subseteq 1..Pages /\ activity \in 0..MaxActivity
  /\ m_ScanCount \in 0..MaxScans /\ m_LastScanIsFullDump \in BOOLEAN
  /\ oldFile \in [kind : {"none", "dump", "list"}, chunks : Seq(Seq(Rec))]
  /\ temp \in Seq(Seq(Rec))
  /\ pc \in {"idle", "first", "refine"} /\ mode \in Mode /\ value \in Value
  /\ matchCount \in Nat /\ list \in Seq(Reported) /\ Len(list) <= ListCap
  /\ held \in [Addr -> SUBSET (Value \cup {Unreadable})]
  /\ pc = "first" => todo \in Seq(Seq(Addr))
  /\ pc = "refine" => todo \in Seq(Seq(Rec))

\* The scan count tells first scans from later ones.
Control ==
  /\ pc = "idle" => temp = <<>>
  /\ pc = "first" => m_ScanCount = 0
  /\ pc = "refine" => m_ScanCount > 0

\* The flag fits the file during searches too, since a dump, which has at
\* least a page of matches, is never refreshed.
Format == m_ScanCount > 0 => (m_LastScanIsFullDump <=> oldFile.kind = "dump")
Dumps ==
  /\ pc = "idle" /\ m_ScanCount > 0 /\ oldFile.kind = "dump" => matchCount >= RefreshLimit
  /\ pc = "refine" /\ mode = "refresh" => oldFile.kind # "dump"
  /\ pc = "first" /\ mode # "exact" => matchCount = 0 \/ matchCount >= RefreshLimit

\* What is still to be read: regions that could be read when the search began,
\* or chunks of the file.
IsRegion(region) ==
  /\ Len(region) >= PageWords /\ Consecutive(region)
  /\ \A k \in 1..Len(region) : held[region[k]] # {Unreadable}
Regions  == pc = "first" => \A i \in 1..Len(todo) : IsRegion(todo[i])
FromFile == pc = "refine" => \A i \in 1..Len(todo) : \E j \in 1..Len(oldFile.chunks) : todo[i] = oldFile.chunks[j]

\* held has what every address holds now.
Watched == pc # "idle" => \A a \in Addr : Seen(a) \in held[a]

\* A match that is counted is on the file that is going to be committed.
Committing == pc = "first" \/ (pc = "refine" /\ mode # "refresh")
Counted == Committing /\ matchCount > 0 => Records(temp) # {}

\* What NoFalseDismissal says of the end, with what is still to be read.
AllOrNothing == \A b \in Addr : Unreadable \in held[b] => held[b] = {Unreadable}
Covered ==
  pc = "first" /\ AllOrNothing =>
    \A a \in Addr, v \in Value :
      Steady(a, v) /\ (mode = "exact" => v = value) =>
        \/ [addr |-> a, value |-> v] \in Records(temp)
        \/ \E i \in 1..Len(todo) : \E k \in 1..Len(todo[i]) : todo[i][k] = a
Readable(chunk) == \A k \in 1..Len(chunk) : Unreadable \notin held[chunk[k].addr]
Kept(chunk) ==
  Readable(chunk) =>
    \A k \in 1..Len(chunk) : \A v \in Value :
      Steady(chunk[k].addr, v) /\ Satisfies(v, chunk[k].value) =>
        \/ [addr |-> chunk[k].addr, value |-> v] \in Records(temp)
        \/ \E j \in 1..Len(todo) : todo[j] = chunk
Retained == pc = "refine" /\ mode # "refresh" => \A i \in 1..Len(oldFile.chunks) : Kept(oldFile.chunks[i])

\* The list shows the head of the records F, and they are what was counted: the
\* records written, or in a refresh the part of the file that was read.
Lists(l, F) ==
  /\ Len(l) = IF Len(F) < ListCap THEN Len(F) ELSE ListCap
  /\ \A i \in 1..Len(l) : l[i].addr = F[i].addr
Counts(F) == matchCount = Len(F) /\ Lists(list, F)
Refreshed == \E done \in Seq(Rec) : FlattenSeq(oldFile.chunks) = done \o FlattenSeq(todo) /\ Counts(done)
Listing ==
  /\ Committing => Counts(FlattenSeq(temp))
  /\ pc = "refine" /\ mode = "refresh" => Refreshed
  /\ pc = "idle" /\ m_ScanCount > 0 => Counts(FlattenSeq(oldFile.chunks))

\* Files are written in the order of the addresses, so that no address is
\* counted twice.
Addrs(F) == [i \in 1..Len(F) |-> F[i].addr]
Places(chunks) == Addrs(FlattenSeq(chunks))
Up(s) == \A i, j \in 1..Len(s) : i < j => s[i] < s[j]
Before(s, t) == \A i \in 1..Len(s), j \in 1..Len(t) : s[i] < t[j]
Order ==
  /\ Up(Places(oldFile.chunks)) /\ Up(Places(temp))
  /\ pc = "first" => Up(FlattenSeq(todo)) /\ Before(Places(temp), FlattenSeq(todo))
  /\ pc = "refine" => Up(Places(todo)) /\ Before(Places(temp), Places(todo))
Bounded == pc = "idle" => matchCount \in 0..Cardinality(Addr)

\* The inductive invariant.
IInv ==
  /\ TInv /\ Control /\ Format /\ Dumps /\ Regions /\ FromFile /\ Watched /\ Counted
  /\ ResultsAreSound /\ Covered /\ Retained /\ Listing /\ Order /\ Bounded
-----------------------------------------------------------------------------
\* The records of a file, chunk by chunk.
Elements(s) == {s[i] : i \in 1..Len(s)}

LEMMA RecordsAre ==
  ASSUME NEW S, NEW chunks \in Seq(Seq(S)), NEW r
  PROVE  r \in Records(chunks) <=> \E i \in 1..Len(chunks) : r \in Elements(chunks[i])
<1>1. ASSUME NEW i \in 1..Len(chunks) PROVE ToSet(chunks[i]) = Elements(chunks[i])
  <2>1. chunks[i] \in Seq(S)
    BY ElementOfSeq
  <2>2. DOMAIN chunks[i] = 1..Len(chunks[i])
    BY <2>1, LenProperties
  <2>3. QED
    BY <2>2 DEF ToSet, Elements
<1>2. QED
  BY <1>1 DEF Records

LEMMA ElementsTyped == ASSUME NEW S, NEW s \in Seq(S) PROVE Elements(s) \subseteq S
BY ElementOfSeq DEF Elements

LEMMA RecordsTyped == ASSUME NEW S, NEW chunks \in Seq(Seq(S)) PROVE Records(chunks) \subseteq S
<1> SUFFICES ASSUME NEW r \in Records(chunks) PROVE r \in S
  OBVIOUS
<1>1. PICK i \in 1..Len(chunks) : r \in Elements(chunks[i])
  BY RecordsAre
<1>2. chunks[i] \in Seq(S)
  BY ElementOfSeq
<1>3. QED
  BY <1>1, <1>2, ElementsTyped

LEMMA RecordsConcat ==
  ASSUME NEW S, NEW c \in Seq(Seq(S)), NEW d \in Seq(Seq(S))
  PROVE  c \o d \in Seq(Seq(S)) /\ Records(c \o d) = Records(c) \cup Records(d)
<1> DEFINE e == c \o d
<1>1. /\ e \in Seq(Seq(S)) /\ Len(e) = Len(c) + Len(d) /\ Len(c) \in Nat /\ Len(d) \in Nat
      /\ \A i \in 1..(Len(c) + Len(d)) : e[i] = IF i <= Len(c) THEN c[i] ELSE d[i - Len(c)]
  BY ConcatProperties, LenProperties
<1> HIDE DEF e
<1>2. ASSUME NEW r \in Records(e) PROVE r \in Records(c) \cup Records(d)
  <2>1. PICK i \in 1..Len(e) : r \in Elements(e[i])
    BY <1>1, RecordsAre
  <2>2. CASE i <= Len(c)
    <3>1. i \in 1..Len(c) /\ e[i] = c[i]
      BY <1>1, <2>2
    <3>2. QED
      BY <2>1, <3>1, RecordsAre
  <2>3. CASE i > Len(c)
    <3>1. i - Len(c) \in 1..Len(d) /\ e[i] = d[i - Len(c)]
      BY <1>1, <2>3
    <3>2. QED
      BY <2>1, <3>1, RecordsAre
  <2>4. QED
    BY <1>1, <2>2, <2>3
<1>3. ASSUME NEW r \in Records(c) PROVE r \in Records(e)
  <2>1. PICK i \in 1..Len(c) : r \in Elements(c[i])
    BY RecordsAre
  <2>2. i \in 1..Len(e) /\ e[i] = c[i]
    BY <1>1
  <2>3. QED
    BY <1>1, <2>1, <2>2, RecordsAre
<1>4. ASSUME NEW r \in Records(d) PROVE r \in Records(e)
  <2>1. PICK i \in 1..Len(d) : r \in Elements(d[i])
    BY RecordsAre
  <2>2. Len(c) + i \in 1..Len(e) /\ e[Len(c) + i] = d[i]
    <3>1. i \in Nat /\ i >= 1 /\ i <= Len(d)
      BY <1>1
    <3> DEFINE k == Len(c) + i
    <3>2. k \in 1..(Len(c) + Len(d)) /\ ~(k <= Len(c)) /\ k - Len(c) = i
      BY <1>1, <3>1
    <3> HIDE DEF k
    <3>3. e[k] = d[k - Len(c)] /\ k \in 1..Len(e)
      BY <1>1, <3>2
    <3>4. QED
      BY <3>2, <3>3 DEF k
  <2>3. QED
    BY <1>1, <2>1, <2>2, RecordsAre
<1>5. QED
  BY <1>1, <1>2, <1>3, <1>4 DEF e

LEMMA SinglesOf ==
  ASSUME NEW S, NEW recs \in Seq(S)
  PROVE  Singles(recs) \in Seq(Seq(S)) /\ Records(Singles(recs)) = Elements(recs)
<1>1. Len(recs) \in Nat /\ \A i \in 1..Len(recs) : recs[i] \in S
  BY LenProperties, ElementOfSeq
<1>2. \A i \in 1..Len(recs) : <<recs[i]>> \in Seq(S) /\ Elements(<<recs[i]>>) = {recs[i]}
  <2> SUFFICES ASSUME NEW x \in S PROVE <<x>> \in Seq(S) /\ Elements(<<x>>) = {x}
    BY <1>1
  <2>1. <<x>> \in Seq(S) /\ Len(<<x>>) = 1 /\ <<x>>[1] = x
    OBVIOUS
  <2>2. QED
    BY <2>1 DEF Elements
<1>3. Singles(recs) \in [1..Len(recs) -> Seq(S)] /\ \A i \in 1..Len(recs) : Singles(recs)[i] = <<recs[i]>>
  BY <1>2 DEF Singles
<1>4. Singles(recs) \in Seq(Seq(S)) /\ Len(Singles(recs)) = Len(recs)
  BY <1>1, <1>3, SeqDef
<1>5. \A r : r \in Records(Singles(recs)) <=> \E i \in 1..Len(recs) : r = recs[i]
  <2>1. \A r : r \in Records(Singles(recs)) <=> \E i \in 1..Len(recs) : r \in Elements(Singles(recs)[i])
    BY <1>4, RecordsAre
  <2>2. \A i \in 1..Len(recs) : \A r : r \in Elements(Singles(recs)[i]) <=> r = recs[i]
    BY <1>2, <1>3
  <2>3. QED
    BY <2>1, <2>2
<1>6. QED
  BY <1>4, <1>5 DEF Elements

LEMMA OneChunk ==
  ASSUME NEW S, NEW words \in Seq(S)
  PROVE  <<words>> \in Seq(Seq(S)) /\ Records(<<words>>) = Elements(words)
<1>1. <<words>> \in Seq(Seq(S)) /\ Len(<<words>>) = 1 /\ <<words>>[1] = words
  OBVIOUS
<1> DEFINE one == <<words>>
<1>2. \A r : r \in Records(one) <=> r \in Elements(words)
  <2>1. one \in Seq(Seq(S)) /\ Len(one) = 1 /\ one[1] = words
    BY <1>1
  <2> HIDE DEF one
  <2>2. \A r : r \in Records(one) <=> \E i \in 1..Len(one) : r \in Elements(one[i])
    BY <2>1, RecordsAre
  <2>3. 1..1 = {1}
    OBVIOUS
  <2>4. QED
    BY <2>1, <2>2, <2>3
<1>3. QED
  BY <1>1, <1>2
-----------------------------------------------------------------------------
Reports(recs, type) == [i \in 1..Len(recs) |-> [addr |-> recs[i].addr, value |-> recs[i].value, type |-> type]]

LEMMA ReportsTyped ==
  ASSUME NEW recs \in Seq(Rec), NEW type \in {1, -1}
  PROVE  /\ Reports(recs, type) \in Seq(Reported) /\ Len(Reports(recs, type)) = Len(recs) /\ Len(recs) \in Nat
         /\ \A i \in 1..Len(recs) : Reports(recs, type)[i].addr = recs[i].addr
<1>1. Len(recs) \in Nat /\ \A i \in 1..Len(recs) : recs[i] \in Rec
  BY LenProperties, ElementOfSeq
<1>2. Reports(recs, type) \in [1..Len(recs) -> Reported]
  BY <1>1 DEF Rec, Reported, Reports
<1>3. \A i \in 1..Len(recs) : Reports(recs, type)[i].addr = recs[i].addr
  BY DEF Reports
<1>4. Reports(recs, type) \in Seq(Reported)
  <2>1. \A S : \A m \in Nat : \A s \in [1..m -> S] : s \in Seq(S)
    BY SeqDef
  <2> HIDE DEF Reported, Reports
  <2>2. QED
    BY <1>1, <1>2, <2>1
<1>5. Len(Reports(recs, type)) = Len(recs)
  BY <1>1 DEF Reports
<1>6. QED
  BY <1>1, <1>3, <1>4, <1>5

LEMMA ReportLists ==
  ASSUME NEW l \in Seq(Reported), NEW recs \in Seq(Rec), NEW type \in {1, -1}, NEW F \in Seq(Rec), Lists(l, F),
         NEW m, m \in Seq(Reported), Len(m) = (IF Len(l) + Len(recs) < ListCap THEN Len(l) + Len(recs) ELSE ListCap),
         \A i \in 1..Len(m) : m[i] = (l \o Reports(recs, type))[i]
  PROVE  Lists(m, F \o recs)
<1> DEFINE G == F \o recs
           all == l \o Reports(recs, type)
<1>0. ListCap \in Nat /\ Len(l) \in Nat /\ Len(recs) \in Nat /\ Len(F) \in Nat /\ Len(m) \in Nat
  BY SizeAssumption, LenProperties
<1>1. Len(G) = Len(F) + Len(recs) /\ \A i \in 1..(Len(F) + Len(recs)) : G[i] = IF i <= Len(F) THEN F[i] ELSE recs[i - Len(F)]
  BY ConcatProperties
<1>2. Reports(recs, type) \in Seq(Reported) /\ Len(Reports(recs, type)) = Len(recs)
  BY ReportsTyped
<1>3. \A i \in 1..(Len(l) + Len(recs)) : all[i] = IF i <= Len(l) THEN l[i] ELSE Reports(recs, type)[i - Len(l)]
  BY <1>2, ConcatProperties
<1>4. \A i \in 1..Len(recs) : Reports(recs, type)[i].addr = recs[i].addr
  BY ReportsTyped
<1>5. /\ Len(l) = IF Len(F) < ListCap THEN Len(F) ELSE ListCap
      /\ \A i \in 1..Len(l) : l[i].addr = F[i].addr
  BY DEF Lists
<1> HIDE DEF G, all
<1>6. Len(m) = IF Len(G) < ListCap THEN Len(G) ELSE ListCap
  BY <1>0, <1>1, <1>5
<1>7. ASSUME NEW i \in 1..Len(m) PROVE m[i].addr = G[i].addr
  <2>0. m[i] = all[i]
    BY DEF all
  <2>1. i \in 1..(Len(l) + Len(recs)) /\ i \in 1..(Len(F) + Len(recs))
    <3>1. Len(m) <= Len(l) + Len(recs) /\ Len(l) <= Len(F)
      BY <1>0, <1>5
    <3>2. QED
      BY <1>0, <3>1
  <2>2. CASE i <= Len(l)
    <3>1. i <= Len(F) /\ i \in 1..Len(l)
      BY <1>0, <1>5, <2>2
    <3>2. all[i] = l[i] /\ G[i] = F[i] /\ l[i].addr = F[i].addr
      BY <1>1, <1>3, <1>5, <2>1, <2>2, <3>1
    <3>3. QED
      BY <2>0, <3>2
  <2>3. CASE ~(i <= Len(l))
    <3>1. Len(l) = Len(F) /\ i - Len(l) \in 1..Len(recs)
      BY <1>0, <1>5, <2>1, <2>3
    <3>2. all[i] = Reports(recs, type)[i - Len(l)] /\ G[i] = recs[i - Len(l)]
      BY <1>1, <1>3, <2>1, <2>3, <3>1
    <3>3. QED
      BY <1>4, <2>0, <3>1, <3>2
  <2>4. QED
    BY <2>2, <2>3
<1>8. QED
  BY <1>6, <1>7 DEF Lists, G

\* What a step of a scan adds.
Appends(recs) == FlattenSeq(temp') = IF Committing THEN FlattenSeq(temp) \o recs ELSE FlattenSeq(temp)
ListsMore(recs) == \A F \in Seq(Rec) : Lists(list, F) => Lists(list', F \o recs)
Adds(recs) ==
  /\ Appends(recs) /\ ListsMore(recs)
  /\ recs \in Seq(Rec) /\ matchCount' = matchCount + Len(recs)
  /\ temp' \in Seq(Seq(Rec))
  /\ Records(temp') = IF Committing THEN Records(temp) \cup Elements(recs) ELSE Records(temp)
  /\ list' \in Seq(Reported) /\ Len(list') <= ListCap
  /\ ~Committing => temp' = temp

LEMMA FoundAdds ==
  ASSUME TInv, pc # "idle", NEW recs \in Seq(Rec), NEW chunks \in Seq(Seq(Rec)), NEW type \in {1, -1},
         Committing => Records(chunks) = Elements(recs) /\ FlattenSeq(chunks) = recs, Found(recs, chunks, type)
  PROVE  Adds(recs)
<1>1. pc \in {"first", "refine"} /\ temp \in Seq(Seq(Rec)) /\ list \in Seq(Reported) /\ ListCap \in Nat
  BY SizeAssumption DEF TInv
<1>2. temp' = IF Committing THEN temp \o chunks ELSE temp
  BY <1>1 DEF Found, Committing
<1>3. temp' \in Seq(Seq(Rec)) /\ Records(temp') = IF Committing THEN Records(temp) \cup Elements(recs) ELSE Records(temp)
  <2>1. temp \o chunks \in Seq(Seq(Rec)) /\ Records(temp \o chunks) = Records(temp) \cup Records(chunks)
    BY <1>1, RecordsConcat
  <2>2. CASE Committing
    BY <1>2, <2>1, <2>2
  <2>3. CASE ~Committing
    BY <1>1, <1>2, <2>3
  <2>4. QED
    BY <2>2, <2>3
<1> DEFINE all == list \o Reports(recs, type)
           n == IF Len(all) < ListCap THEN Len(all) ELSE ListCap
<1>4. list' = SubSeq(all, 1, n)
  BY DEF Found, Report, Reports
<1>5. all \in Seq(Reported) /\ Len(all) \in Nat /\ Len(all) = Len(list) + Len(recs) /\ Len(recs) \in Nat /\ Len(list) \in Nat
  <2>1. Reports(recs, type) \in Seq(Reported) /\ Len(Reports(recs, type)) = Len(recs) /\ Len(recs) \in Nat
    BY ReportsTyped
  <2>2. all \in Seq(Reported) /\ Len(all) = Len(list) + Len(Reports(recs, type))
    BY <1>1, <2>1, ConcatProperties
  <2> HIDE DEF all
  <2>3. Len(list) \in Nat
    BY <1>1, LenProperties
  <2>4. QED
    BY <2>1, <2>2, <2>3
<1> HIDE DEF all
<1>6. n \in Nat /\ n <= Len(all) /\ n <= ListCap
  BY <1>1, <1>5
<1>7. \A i \in 1..n : all[i] \in Reported
  <2>1. \A i \in 1..Len(all) : all[i] \in Reported
    BY <1>5, ElementOfSeq
  <2>2. QED
    BY <1>5, <1>6, <2>1
<1>8. /\ list' \in Seq(Reported) /\ Len(list') = n /\ \A i \in 1..n : list'[i] = all[i]
  <2> HIDE DEF n
  <2>1. /\ SubSeq(all, 1, n) \in Seq(Reported) /\ Len(SubSeq(all, 1, n)) = IF 1 <= n THEN n - 1 + 1 ELSE 0
        /\ \A i \in 1..(n - 1 + 1) : SubSeq(all, 1, n)[i] = all[1 + i - 1]
    BY <1>6, <1>7, SubSeqProperties
  <2>2. n - 1 + 1 = n /\ (IF 1 <= n THEN n - 1 + 1 ELSE 0) = n /\ \A i \in 1..n : 1 + i - 1 = i
    BY <1>6
  <2>3. QED
    BY <1>4, <2>1, <2>2
<1>9. ListsMore(recs)
  <2> SUFFICES ASSUME NEW F \in Seq(Rec), Lists(list, F) PROVE Lists(list', F \o recs)
    BY DEF ListsMore
  <2> DEFINE m == list'
  <2>1. /\ m \in Seq(Reported) /\ Len(m) = (IF Len(list) + Len(recs) < ListCap THEN Len(list) + Len(recs) ELSE ListCap)
        /\ \A i \in 1..Len(m) : m[i] = (list \o Reports(recs, type))[i]
    BY <1>5, <1>8 DEF all
  <2> HIDE DEF m
  <2>2. Lists(m, F \o recs)
    BY <1>1, <2>1, ReportLists
  <2>3. QED
    BY <2>2 DEF m
<1>10. Appends(recs)
  <2>1. Committing => FlattenSeq(temp \o chunks) = FlattenSeq(temp) \o FlattenSeq(chunks)
    BY <1>1, FlattenConcat
  <2>2. QED
    BY <1>2, <2>1, Zenon DEF Appends
<1>11. Len(list') <= ListCap
  BY <1>6, <1>8
<1>12. QED
  BY <1>2, <1>3, <1>8, <1>9, <1>10, <1>11 DEF Adds, Found

\* The sequence r is a part of h, in the same order.
Sub(r, h) ==
  /\ \A i \in 1..Len(r) : \E a \in 1..Len(h) : r[i] = h[a]
  /\ \A i, j \in 1..Len(r) : i < j => \E a, b \in 1..Len(h) : a < b /\ r[i] = h[a] /\ r[j] = h[b]

LEMMA AddrsOfSeq ==
  ASSUME NEW F \in Seq(Rec)
  PROVE  /\ Addrs(F) \in Seq(Addr) /\ Len(Addrs(F)) = Len(F) /\ Len(F) \in Nat
         /\ \A i \in 1..Len(F) : Addrs(F)[i] = F[i].addr
<1>1. Len(F) \in Nat /\ \A i \in 1..Len(F) : F[i] \in Rec
  BY LenProperties, ElementOfSeq
<1>2. Addrs(F) \in [1..Len(F) -> Addr]
  BY <1>1 DEF Addrs, Rec
<1>3. \A i \in 1..Len(F) : Addrs(F)[i] = F[i].addr
  BY DEF Addrs
<1>4. Addrs(F) \in Seq(Addr)
  <2>1. \A S : \A m \in Nat : \A s \in [1..m -> S] : s \in Seq(S)
    BY SeqDef
  <2> HIDE DEF Addrs
  <2>2. QED
    BY <1>1, <1>2, <2>1
<1>5. Len(Addrs(F)) = Len(F)
  BY <1>1 DEF Addrs
<1>6. QED
  BY <1>1, <1>3, <1>4, <1>5

LEMMA FollowsSub ==
  ASSUME NEW F \in Seq(Rec), NEW G \in Seq(Rec), NEW h, Len(h) = Len(G), \A k \in 1..Len(G) : h[k] = G[k].addr,
         NEW J \in SUBSET (1..Len(G)), Follows(F, G, J)
  PROVE  Sub(Addrs(F), h)
<1>1. Len(Addrs(F)) = Len(F) /\ \A i \in 1..Len(F) : Addrs(F)[i] = F[i].addr
  BY AddrsOfSeq
<1>2. ASSUME NEW i \in 1..Len(F) PROVE \E a \in 1..Len(h) : Addrs(F)[i] = h[a]
  <2>1. PICK a \in J : F[i] = G[a]
    BY DEF Follows
  <2>2. QED
    BY <1>1, <2>1
<1>3. ASSUME NEW i \in 1..Len(F), NEW j \in 1..Len(F), i < j
      PROVE  \E a, b \in 1..Len(h) : a < b /\ Addrs(F)[i] = h[a] /\ Addrs(F)[j] = h[b]
  <2>1. PICK a \in J, b \in J : a < b /\ F[i] = G[a] /\ F[j] = G[b]
    BY <1>3 DEF Follows
  <2>2. QED
    BY <1>1, <2>1
<1>4. QED
  BY <1>1, <1>2, <1>3 DEF Sub

LEMMA SubOfItself == ASSUME NEW F \in Seq(Rec), NEW h, Addrs(F) = h PROVE Sub(Addrs(F), h)
BY AddrsOfSeq DEF Sub

LEMMA AddrsConcat ==
  ASSUME NEW F \in Seq(Rec), NEW G \in Seq(Rec)
  PROVE  Addrs(F \o G) = Addrs(F) \o Addrs(G)
<1> DEFINE H == F \o G
           A == Addrs(F) \o Addrs(G)
<1>1. /\ Len(F) \in Nat /\ Len(G) \in Nat /\ H \in Seq(Rec) /\ Len(H) = Len(F) + Len(G)
      /\ \A i \in 1..Len(F) + Len(G) : H[i] = IF i <= Len(F) THEN F[i] ELSE G[i - Len(F)]
  BY ConcatProperties, LenProperties
<1>2. /\ Addrs(F) \in Seq(Addr) /\ Addrs(G) \in Seq(Addr) /\ Len(Addrs(F)) = Len(F) /\ Len(Addrs(G)) = Len(G)
      /\ \A i \in 1..Len(F) : Addrs(F)[i] = F[i].addr
      /\ \A i \in 1..Len(G) : Addrs(G)[i] = G[i].addr
  BY AddrsOfSeq
<1>3. /\ A \in Seq(Addr) /\ Len(A) = Len(F) + Len(G)
      /\ \A i \in 1..Len(F) + Len(G) : A[i] = IF i <= Len(F) THEN Addrs(F)[i] ELSE Addrs(G)[i - Len(F)]
  <2> DEFINE f == Addrs(F)
             g == Addrs(G)
  <2>1. f \in Seq(Addr) /\ g \in Seq(Addr) /\ Len(f) = Len(F) /\ Len(g) = Len(G)
    BY <1>2
  <2> HIDE DEF f, g
  <2>2. /\ f \o g \in Seq(Addr) /\ Len(f \o g) = Len(f) + Len(g)
        /\ \A i \in 1..Len(f) + Len(g) : (f \o g)[i] = IF i <= Len(f) THEN f[i] ELSE g[i - Len(f)]
    BY <2>1, ConcatProperties
  <2>3. QED
    BY <2>1, <2>2 DEF f, g
<1> HIDE DEF A, H
<1>4. /\ Addrs(H) \in Seq(Addr) /\ Len(Addrs(H)) = Len(H)
      /\ \A i \in 1..Len(H) : Addrs(H)[i] = H[i].addr
  BY <1>1, AddrsOfSeq
<1>5. ASSUME NEW i \in 1..Len(A) PROVE A[i] = Addrs(H)[i]
  <2>1. i \in 1..Len(F) + Len(G) /\ i \in 1..Len(H) /\ Addrs(H)[i] = H[i].addr
    BY <1>1, <1>3, <1>4
  <2>2. CASE i <= Len(F)
    <3>1. i \in 1..Len(F)
      BY <1>1, <2>2
    <3>2. A[i] = Addrs(F)[i] /\ H[i] = F[i]
      BY <1>1, <1>3, <2>1, <2>2
    <3>3. QED
      BY <1>2, <2>1, <3>1, <3>2
  <2>3. CASE ~(i <= Len(F))
    <3>1. i - Len(F) \in 1..Len(G)
      BY <1>1, <2>1, <2>3
    <3>2. A[i] = Addrs(G)[i - Len(F)] /\ H[i] = G[i - Len(F)]
      BY <1>1, <1>3, <2>1, <2>3
    <3>3. QED
      BY <1>2, <2>1, <3>1, <3>2
  <2>4. QED
    BY <2>2, <2>3
<1>6. A = Addrs(H)
  BY <1>1, <1>3, <1>4, <1>5, SeqEqual
<1>7. QED
  BY <1>6 DEF A, H

LEMMA ConcatOf ==
  ASSUME NEW S, NEW s \in Seq(S), NEW t \in Seq(S)
  PROVE  /\ Len(s) \in Nat /\ Len(t) \in Nat /\ Len(s \o t) = Len(s) + Len(t) /\ s \o t \in Seq(S)
         /\ \A i \in 1..Len(s) : i \in 1..Len(s \o t) /\ (s \o t)[i] = s[i]
         /\ \A i \in 1..Len(t) : Len(s) + i \in 1..Len(s \o t) /\ (s \o t)[Len(s) + i] = t[i]
         /\ \A i \in 1..Len(s \o t) : i \in 1..Len(s) \/ \E k \in 1..Len(t) : i = Len(s) + k
<1> DEFINE c == s \o t
<1>1. /\ Len(s) \in Nat /\ Len(t) \in Nat /\ Len(c) = Len(s) + Len(t) /\ c \in Seq(S)
      /\ \A i \in 1..Len(s) + Len(t) : c[i] = IF i <= Len(s) THEN s[i] ELSE t[i - Len(s)]
  BY ConcatProperties, LenProperties
<1> HIDE DEF c
<1>2. ASSUME NEW i \in 1..Len(s) PROVE i \in 1..Len(c) /\ c[i] = s[i]
  BY <1>1
<1>3. ASSUME NEW i \in 1..Len(t) PROVE Len(s) + i \in 1..Len(c) /\ c[Len(s) + i] = t[i]
  <2>1. Len(s) + i \in 1..Len(c) /\ ~(Len(s) + i <= Len(s)) /\ (Len(s) + i) - Len(s) = i
    BY <1>1
  <2>2. QED
    BY <1>1, <2>1
<1>4. ASSUME NEW i \in 1..Len(c), ~(i \in 1..Len(s)) PROVE \E k \in 1..Len(t) : i = Len(s) + k
  <2>1. i - Len(s) \in 1..Len(t) /\ i = Len(s) + (i - Len(s))
    BY <1>1, <1>4
  <2>2. QED
    BY <2>1
<1>5. QED
  BY <1>1, <1>2, <1>3, <1>4 DEF c

LEMMA UpConcat ==
  ASSUME NEW s \in Seq(Addr), NEW t \in Seq(Addr)
  PROVE  Up(s \o t) <=> Up(s) /\ Up(t) /\ Before(s, t)
<1> DEFINE c == s \o t
<1>1. /\ Len(s) \in Nat /\ Len(t) \in Nat /\ Len(c) = Len(s) + Len(t) /\ c \in Seq(Addr)
      /\ \A i \in 1..Len(s) : i \in 1..Len(c) /\ c[i] = s[i]
      /\ \A i \in 1..Len(t) : Len(s) + i \in 1..Len(c) /\ c[Len(s) + i] = t[i]
      /\ \A i \in 1..Len(c) : i \in 1..Len(s) \/ \E k \in 1..Len(t) : i = Len(s) + k
  BY ConcatOf
<1> HIDE DEF c
<1>2. ASSUME Up(c) PROVE Up(s) /\ Up(t) /\ Before(s, t)
  <2>1. ASSUME NEW i \in 1..Len(s), NEW j \in 1..Len(s), i < j PROVE s[i] < s[j]
    BY <1>1, <1>2, <2>1 DEF Up
  <2>2. ASSUME NEW i \in 1..Len(t), NEW j \in 1..Len(t), i < j PROVE t[i] < t[j]
    <3>1. Len(s) + i < Len(s) + j
      BY <1>1, <2>2
    <3>2. QED
      BY <1>1, <1>2, <3>1 DEF Up
  <2>3. ASSUME NEW i \in 1..Len(s), NEW j \in 1..Len(t) PROVE s[i] < t[j]
    <3>1. i < Len(s) + j
      BY <1>1
    <3>2. QED
      BY <1>1, <1>2, <3>1 DEF Up
  <2>4. QED
    BY <2>1, <2>2, <2>3 DEF Up, Before
<1>3. ASSUME Up(s), Up(t), Before(s, t) PROVE Up(c)
  <2> SUFFICES ASSUME NEW i \in 1..Len(c), NEW j \in 1..Len(c), i < j PROVE c[i] < c[j]
    BY DEF Up
  <2>1. CASE i \in 1..Len(s) /\ j \in 1..Len(s)
    BY <1>1, <1>3, <2>1 DEF Up
  <2>2. CASE i \in 1..Len(s) /\ \E k \in 1..Len(t) : j = Len(s) + k
    BY <1>1, <1>3, <2>2 DEF Before
  <2>3. ASSUME NEW k \in 1..Len(t), i = Len(s) + k PROVE c[i] < c[j]
    <3>1. PICK l \in 1..Len(t) : j = Len(s) + l
      <4>1. ~(j \in 1..Len(s))
        BY <1>1, <2>3
      <4>2. QED
        BY <1>1, <4>1
    <3>2. k < l
      BY <1>1, <2>3, <3>1
    <3>3. QED
      BY <1>1, <1>3, <2>3, <3>1, <3>2 DEF Up
  <2>4. QED
    BY <1>1, <2>1, <2>2, <2>3
<1>4. QED
  BY <1>2, <1>3 DEF c

\* A scan that keeps some of what it reads, in order, writes in order.
LEMMA UpStep ==
  ASSUME NEW f \in Seq(Addr), NEW r \in Seq(Addr), NEW h \in Seq(Addr), NEW v \in Seq(Addr),
         Up(f), Up(h \o v), Before(f, h \o v), Sub(r, h)
  PROVE  Up(f \o r) /\ Up(v) /\ Before(f \o r, v)
<1>1. Up(h) /\ Up(v) /\ Before(h, v)
  BY UpConcat
<1>2. Before(f, h) /\ Before(f, v)
  <2>1. /\ \A i \in 1..Len(h) : i \in 1..Len(h \o v) /\ (h \o v)[i] = h[i]
        /\ \A i \in 1..Len(v) : Len(h) + i \in 1..Len(h \o v) /\ (h \o v)[Len(h) + i] = v[i]
    BY ConcatOf
  <2> DEFINE c == h \o v
  <2>2. Before(f, c)
    OBVIOUS
  <2> HIDE DEF c
  <2>3. ASSUME NEW i \in 1..Len(f), NEW j \in 1..Len(h) PROVE f[i] < h[j]
    BY <2>1, <2>2 DEF Before, c
  <2>4. ASSUME NEW i \in 1..Len(f), NEW j \in 1..Len(v) PROVE f[i] < v[j]
    BY <2>1, <2>2 DEF Before, c
  <2>5. QED
    BY <2>3, <2>4 DEF Before
<1>3. Up(r) /\ Before(f, r) /\ Before(r, v)
  <2>1. ASSUME NEW i \in 1..Len(r), NEW j \in 1..Len(r), i < j PROVE r[i] < r[j]
    BY <1>1, <2>1 DEF Sub, Up
  <2>2. ASSUME NEW i \in 1..Len(f), NEW j \in 1..Len(r) PROVE f[i] < r[j]
    BY <1>2 DEF Sub, Before
  <2>3. ASSUME NEW i \in 1..Len(r), NEW j \in 1..Len(v) PROVE r[i] < v[j]
    BY <1>1 DEF Sub, Before
  <2>4. QED
    BY <2>1, <2>2, <2>3 DEF Up, Before
<1>4. Up(f \o r)
  BY <1>3, UpConcat
<1>5. Before(f \o r, v)
  <2> DEFINE c == f \o r
  <2>1. /\ \A i \in 1..Len(f) : c[i] = f[i]
        /\ \A i \in 1..Len(r) : c[Len(f) + i] = r[i]
        /\ \A i \in 1..Len(c) : i \in 1..Len(f) \/ \E k \in 1..Len(r) : i = Len(f) + k
    BY ConcatOf
  <2> HIDE DEF c
  <2>2. Before(c, v)
    BY <1>2, <1>3, <2>1 DEF Before
  <2>3. QED
    BY <2>2 DEF c
<1>6. QED
  BY <1>1, <1>4, <1>5

\* There are not more addresses in order than there are addresses.
LEMMA UpBound ==
  ASSUME NEW s \in Seq(Addr), Up(s)
  PROVE  Len(s) \in 0..Cardinality(Addr) /\ Cardinality(Addr) \in Nat
<1> DEFINE N == Pages * PageWords
           T == {i \in Nat : i \in 1..Len(s) => s[i] >= i}
<1>0. N \in Nat /\ Len(s) \in Nat /\ \A i \in 1..Len(s) : s[i] \in 1..N
  BY SizeAssumption, LenProperties, ElementOfSeq DEF Addr
<1>1. Cardinality(Addr) = N
  <2>1. Addr = 1..N
    BY DEF Addr
  <2> HIDE DEF N
  <2>2. Cardinality(1..N) = IF 1 > N THEN 0 ELSE (N - 1) + 1
    BY <1>0, FS_Interval
  <2>3. QED
    BY <1>0, <2>1, <2>2
<1> HIDE DEF N
<1>2. 0 \in T
  OBVIOUS
<1>3. ASSUME NEW i \in Nat, i \in T PROVE i + 1 \in T
  <2> SUFFICES ASSUME i + 1 \in 1..Len(s) PROVE s[i + 1] >= i + 1
    OBVIOUS
  <2>1. CASE i = 0
    BY <1>0, <2>1
  <2>2. CASE i # 0
    <3>1. i \in 1..Len(s) /\ i < i + 1
      BY <1>0, <2>2
    <3>2. s[i] < s[i + 1] /\ s[i] >= i /\ s[i] \in Int /\ s[i + 1] \in Int
      BY <1>0, <1>3, <3>1 DEF Up
    <3>3. QED
      BY <3>2
  <2>3. QED
    BY <2>1, <2>2
<1>4. Nat \subseteq T
  <2> HIDE DEF T
  <2> QED
    BY <1>2, <1>3, Induction
<1>5. CASE Len(s) = 0
  BY <1>0, <1>1, <1>5
<1>6. CASE Len(s) # 0
  <2>1. Len(s) \in 1..Len(s)
    BY <1>0, <1>6
  <2>2. s[Len(s)] >= Len(s) /\ s[Len(s)] \in 1..N
    BY <1>0, <1>4, <2>1
  <2>3. QED
    BY <1>0, <1>1, <2>2
<1>7. QED
  BY <1>5, <1>6

\* Sequences that are in order, one before the other.
Rising(c) ==
  /\ \A i \in 1..Len(c) : Up(c[i])
  /\ \A i, j \in 1..Len(c) : i < j => Before(c[i], c[j])
Within(s, c) == \A n \in 1..Len(s) : \E i \in 1..Len(c) : \E k \in 1..Len(c[i]) : s[n] = c[i][k]

LEMMA FlattenUp ==
  ASSUME NEW c \in Seq(Seq(Addr)), Rising(c)
  PROVE  Up(FlattenSeq(c))
<1> DEFINE T == {d \in Seq(Seq(Addr)) : Rising(d) => Up(FlattenSeq(d)) /\ Within(FlattenSeq(d), d)}
<1>1. <<>> \in T
  <2>1. <<>> \in Seq(Seq(Addr)) /\ Up(<<>>) /\ Within(<<>>, <<>>)
    BY EmptySeq DEF Up, Within
  <2>2. QED
    BY <2>1, FlattenEmpty, Zenon
<1>2. ASSUME NEW d \in Seq(Seq(Addr)), NEW x \in Seq(Addr), d \in T PROVE Append(d, x) \in T
  <2> DEFINE e == Append(d, x)
             n == Len(d)
  <2>1. e \in Seq(Seq(Addr)) /\ n \in Nat /\ Len(e) = n + 1 /\ e[n + 1] = x /\ \A i \in 1..n : e[i] = d[i]
    BY AppendProperties, LenProperties
  <2>2. FlattenSeq(e) = FlattenSeq(d) \o x /\ FlattenSeq(d) \in Seq(Addr)
    BY FlattenNext, FlattenTyped
  <2> HIDE DEF e
  <2> SUFFICES ASSUME Rising(e) PROVE Up(FlattenSeq(e)) /\ Within(FlattenSeq(e), e)
    BY <2>1 DEF e
  <2>3. Up(x) /\ \A i \in 1..n : Up(d[i]) /\ Before(d[i], x)
    BY <2>1 DEF Rising
  <2>4. Rising(d)
    <3>1. ASSUME NEW i \in 1..n, NEW j \in 1..n, i < j PROVE Before(d[i], d[j])
      <4>1. i \in 1..Len(e) /\ j \in 1..Len(e) /\ e[i] = d[i] /\ e[j] = d[j]
        BY <2>1
      <4>2. Before(e[i], e[j])
        BY <3>1, <4>1 DEF Rising
      <4>3. QED
        BY <4>1, <4>2
    <3>2. QED
      BY <2>3, <3>1 DEF Rising
  <2> DEFINE f == FlattenSeq(d)
  <2>5. Up(f) /\ Within(f, d)
    BY <1>2, <2>4
  <2> HIDE DEF f
  <2>6. Before(f, x)
    <3> SUFFICES ASSUME NEW m \in 1..Len(f), NEW k \in 1..Len(x) PROVE f[m] < x[k]
      BY DEF Before
    <3>1. PICK i \in 1..n : \E l \in 1..Len(d[i]) : f[m] = d[i][l]
      BY <2>5 DEF Within
    <3>2. QED
      BY <2>3, <3>1 DEF Before
  <2>7. Up(f \o x)
    BY <2>2, <2>3, <2>5, <2>6, UpConcat DEF f
  <2>8. Within(f \o x, e)
    <3> DEFINE g == f \o x
    <3>1. /\ \A i \in 1..Len(f) : g[i] = f[i]
          /\ \A i \in 1..Len(x) : g[Len(f) + i] = x[i]
          /\ \A i \in 1..Len(g) : i \in 1..Len(f) \/ \E k \in 1..Len(x) : i = Len(f) + k
      BY <2>2, ConcatOf DEF f
    <3> HIDE DEF g
    <3>2. ASSUME NEW m \in 1..Len(g) PROVE \E i \in 1..Len(e) : \E k \in 1..Len(e[i]) : g[m] = e[i][k]
      <4>1. CASE m \in 1..Len(f)
        <5>1. PICK i \in 1..n : \E k \in 1..Len(d[i]) : f[m] = d[i][k]
          BY <2>5, <4>1 DEF Within
        <5>2. i \in 1..Len(e) /\ e[i] = d[i]
          BY <2>1
        <5>3. QED
          BY <3>1, <4>1, <5>1, <5>2
      <4>2. ASSUME NEW k \in 1..Len(x), m = Len(f) + k PROVE \E i \in 1..Len(e) : \E l \in 1..Len(e[i]) : g[m] = e[i][l]
        <5>1. n + 1 \in 1..Len(e) /\ e[n + 1] = x /\ g[m] = x[k]
          BY <2>1, <3>1, <4>2
        <5>2. QED
          BY <5>1
      <4>3. QED
        BY <3>1, <4>1, <4>2
    <3>3. QED
      BY <3>2 DEF Within, g
  <2>9. QED
    BY <2>2, <2>7, <2>8 DEF f
<1>3. Seq(Seq(Addr)) \subseteq T
  <2> HIDE DEF T
  <2> QED
    BY <1>1, <1>2, AppendInduction
<1>4. QED
  BY <1>3

LEMMA RegionUp ==
  ASSUME mapped \subseteq 1..Pages, NEW p \in mapped
  PROVE  /\ Up(Region(p))
         /\ \A q \in mapped : p < q /\ q - 1 \notin mapped => Before(Region(p), Region(q))
<1> DEFINE n(r) == Cardinality(Run(r)) * PageWords
<1>0. PageWords \in Nat \ {0} /\ mapped \subseteq Nat \ {0}
  BY SizeAssumption
<1>1. ASSUME NEW r \in mapped
      PROVE  /\ Cardinality(Run(r)) \in Nat /\ r..(r + Cardinality(Run(r)) - 1) \subseteq mapped
             /\ n(r) \in Nat /\ (r - 1) * PageWords \in Nat /\ Len(Region(r)) = n(r)
             /\ \A k \in 1..n(r) : Region(r)[k] = (r - 1) * PageWords + k
  <2>1. Cardinality(Run(r)) \in Nat /\ r..(r + Cardinality(Run(r)) - 1) \subseteq mapped
    BY RunOf
  <2>2. n(r) \in Nat /\ (r - 1) * PageWords \in Nat
    BY <1>0, <2>1
  <2>3. Len(Region(r)) = n(r) /\ \A k \in 1..n(r) : Region(r)[k] = (r - 1) * PageWords + k
    BY <2>2 DEF Region
  <2>4. QED
    BY <2>1, <2>2, <2>3
<1> DEFINE x == Cardinality(Run(p))
<1>2. Up(Region(p))
  <2> DEFINE m == n(p)
             b == (p - 1) * PageWords
  <2>1. m \in Nat /\ b \in Nat /\ Len(Region(p)) = m /\ \A k \in 1..m : Region(p)[k] = b + k
    BY <1>1
  <2> HIDE DEF m, b
  <2>2. QED
    BY <2>1 DEF Up
<1>3. ASSUME NEW q \in mapped, p < q, q - 1 \notin mapped PROVE Before(Region(p), Region(q))
  <2>1. x \in Nat /\ p..(p + x - 1) \subseteq mapped
    BY <1>1
  <2> HIDE DEF x
  <2>2. p + x - 1 <= q - 1
    <3>1. p \in Nat /\ q \in Nat /\ q - 1 \notin p..(p + x - 1)
      BY <1>0, <1>3, <2>1
    <3>2. QED
      BY <1>3, <2>1, <3>1
  <2>3. (p - 1) * PageWords + x * PageWords <= (q - 1) * PageWords
    <3>1. (p - 1) * PageWords + x * PageWords = (p + x - 1) * PageWords
      BY <1>0, <2>1
    <3>2. (p + x - 1) * PageWords <= (q - 1) * PageWords
      BY <1>0, <2>1, <2>2
    <3>3. QED
      BY <3>1, <3>2
  <2> DEFINE m == x * PageWords
             l == n(q)
             b == (p - 1) * PageWords
             c == (q - 1) * PageWords
  <2>4. m \in Nat /\ b \in Nat /\ Len(Region(p)) = m /\ \A k \in 1..m : Region(p)[k] = b + k
    BY <1>1 DEF x
  <2>5. l \in Nat /\ c \in Nat /\ Len(Region(q)) = l /\ \A k \in 1..l : Region(q)[k] = c + k
    BY <1>1
  <2> HIDE DEF m, l, b, c
  <2>6. b + m <= c
    BY <2>3 DEF b, c, m
  <2>7. QED
    BY <2>4, <2>5, <2>6 DEF Before
<1>4. QED
  BY <1>2, <1>3

LEMMA RegionsUp ==
  ASSUME mapped \subseteq 1..Pages
  PROVE  Up(FlattenSeq(RescanRegions))
<1> DEFINE c == RescanRegions
<1>1. /\ c \in Seq(Seq(Addr)) /\ \A i \in 1..Len(c) : \E p \in mapped : c[i] = Region(p)
      /\ \A i, j \in 1..Len(c) :
           i < j => \E p, q \in mapped : p < q /\ q - 1 \notin mapped /\ c[i] = Region(p) /\ c[j] = Region(q)
  <2>1. c \in Seq(Seq(Addr))
    BY RegionsOf
  <2>2. \A i \in 1..Len(c) : \E p \in mapped : c[i] = Region(p)
    BY RegionsOf
  <2>3. ASSUME NEW i \in 1..Len(c), NEW j \in 1..Len(c), i < j
        PROVE  \E p, q \in mapped : p < q /\ q - 1 \notin mapped /\ c[i] = Region(p) /\ c[j] = Region(q)
    BY <2>3, RegionsOf
  <2>4. QED
    BY <2>1, <2>2, <2>3
<1> HIDE DEF c
<1>2. Rising(c)
  <2>1. ASSUME NEW i \in 1..Len(c) PROVE Up(c[i])
    <3>1. PICK p \in mapped : c[i] = Region(p)
      BY <1>1
    <3>2. QED
      BY <3>1, RegionUp
  <2>2. ASSUME NEW i \in 1..Len(c), NEW j \in 1..Len(c), i < j PROVE Before(c[i], c[j])
    <3>1. PICK p \in mapped, q \in mapped : p < q /\ q - 1 \notin mapped /\ c[i] = Region(p) /\ c[j] = Region(q)
      BY <1>1, <2>2
    <3>2. QED
      BY <3>1, RegionUp
  <2>3. QED
    BY <2>1, <2>2 DEF Rising
<1>3. Up(FlattenSeq(c))
  BY <1>1, <1>2, FlattenUp
<1>4. QED
  BY <1>3 DEF c

\* A step of a first scan: what the buffer held, and which words of it count.
Word(region, data, k) == [addr |-> region[k], value |-> data[k]]
Reads(region, data) ==
  /\ data \in [1..Len(region) -> Value]
  /\ \A k \in 1..Len(region) : (\A j \in 1..k : Page(region[j]) \in mapped) => data[k] = mem[region[k]]
Scans(region, data, recs) ==
  /\ Reads(region, data) /\ Adds(recs) /\ Sub(Addrs(recs), region)
  /\ mode # "exact" => Len(recs) = Len(region)
  /\ \A r : r \in Elements(recs) <=>
       \E k \in 1..Len(region) : r = Word(region, data, k) /\ (mode = "exact" => data[k] = value)

LEMMA ScanStep ==
  ASSUME TInv, ScanRegion
  PROVE  /\ pc = "first" /\ todo \in Seq(Seq(Addr)) /\ todo # <<>> /\ todo' = Tail(todo)
         /\ UNCHANGED <<targetVars, searchVars, pc, mode, value, held>>
         /\ \/ Page(Head(todo)[1]) \notin mapped /\ UNCHANGED <<matchCount, temp, list>>
            \/ \E data, recs : Scans(Head(todo), data, recs)
<1> DEFINE region == Head(todo)
<1>1. /\ pc = "first" /\ todo \in Seq(Seq(Addr)) /\ todo # <<>> /\ todo' = Tail(todo)
      /\ UNCHANGED <<targetVars, searchVars, pc, mode, value, held>>
  BY DEF ScanRegion, TInv
<1>2. region \in Seq(Addr) /\ Len(region) \in Nat /\ \A k \in 1..Len(region) : region[k] \in Addr
  <2>1. region \in Seq(Addr)
    BY <1>1, HeadTailProperties
  <2> HIDE DEF region
  <2>2. QED
    BY <2>1, LenProperties, ElementOfSeq
<1>3. CASE GetRegionMemory(region) = {}
  <2>1. UNCHANGED <<matchCount, temp, list>>
    BY <1>3 DEF ScanRegion
  <2>2. CASE Page(region[1]) \notin mapped
    BY <1>1, <2>1, <2>2
  <2>3. CASE Page(region[1]) \in mapped
    <3> DEFINE data == [k \in 1..Len(region) |-> mem[region[k]]]
    <3>1. data \in [1..Len(region) -> Value]
      BY <1>2 DEF TInv
    <3>2. data \in GetRegionMemory(region)
      <4> HIDE DEF region
      <4> QED
        BY <2>3, <3>1 DEF GetRegionMemory
    <3>3. QED
      BY <1>3, <3>2
  <2>4. QED
    BY <2>2, <2>3
<1>4. CASE GetRegionMemory(region) # {}
  <2> DEFINE words(data) == [k \in 1..Len(region) |-> [addr |-> region[k], value |-> data[k]]]
             equal(data) == Picked(words(data), {k \in 1..Len(region) : data[k] = value})
  <2>1. PICK data \in GetRegionMemory(region) :
          IF mode = "exact" THEN Found(equal(data), Singles(equal(data)), 1)
          ELSE Found(words(data), <<words(data)>>, 1)
    BY <1>4 DEF ScanRegion
  <2> HIDE DEF region
  <2>2. Reads(region, data)
    BY <1>4, <2>1 DEF GetRegionMemory, Reads
  <2>3. words(data) \in Seq(Rec) /\ Len(words(data)) = Len(region)
    <3>1. words(data) \in [1..Len(region) -> Rec]
      BY <1>2, <2>2 DEF Reads, Rec
    <3> HIDE DEF words
    <3>2. QED
      BY <1>2, <3>1, SeqDef
  <2>4. \A k \in 1..Len(region) : words(data)[k] = Word(region, data, k)
    BY DEF Word
  <2>9. \A k \in 1..Len(region) : words(data)[k].addr = region[k]
    OBVIOUS
  <2>5. pc # "idle" /\ Committing
    BY <1>1 DEF Committing
  <2> DEFINE I == {k \in 1..Len(region) : data[k] = value}
  <2>6. CASE mode = "exact"
    <3> DEFINE recs == equal(data)
    <3>1. recs \in Seq(Rec) /\ Follows(recs, words(data), I)
      <4>1. I \cap 1..Len(words(data)) = I
        BY <2>3
      <4> HIDE DEF words, I
      <4>2. QED
        BY <2>3, <4>1, PickedOf DEF I
    <3> HIDE DEF equal, words
    <3>2. Found(recs, Singles(recs), 1)
      BY <2>1, <2>6
    <3>3. Singles(recs) \in Seq(Seq(Rec)) /\ Records(Singles(recs)) = Elements(recs) /\ FlattenSeq(Singles(recs)) = recs
      BY <3>1, SinglesOf, FlattenSingles
    <3>4. Adds(recs)
      BY <2>5, <3>1, <3>2, <3>3, FoundAdds
    <3>5. \A r : r \in Elements(recs) <=> \E k \in I : r = words(data)[k]
      <4>1. /\ \A i \in 1..Len(recs) : \E k \in I : recs[i] = words(data)[k]
            /\ \A k \in I : \E i \in 1..Len(recs) : recs[i] = words(data)[k]
        BY <3>1 DEF Follows
      <4> HIDE DEF I, recs
      <4>2. \A r : r \in Elements(recs) <=> \E i \in 1..Len(recs) : r = recs[i]
        BY DEF Elements
      <4>3. QED
        BY <4>1, <4>2
    <3>6. \A r : r \in Elements(recs) <=> \E k \in 1..Len(region) : r = Word(region, data, k) /\ data[k] = value
      BY <2>4, <3>5
    <3>9. Sub(Addrs(recs), region)
      <4> DEFINE G == words(data)
      <4>1. G \in Seq(Rec) /\ Len(region) = Len(G) /\ \A k \in 1..Len(G) : region[k] = G[k].addr
        BY <2>3, <2>9
      <4>2. Follows(recs, G, I) /\ I \in SUBSET (1..Len(G))
        BY <2>3, <3>1
      <4> HIDE DEF G, I, recs
      <4>3. QED
        BY <3>1, <4>1, <4>2, FollowsSub
    <3>7. Scans(region, data, recs)
      BY <2>2, <2>6, <3>4, <3>6, <3>9 DEF Scans
    <3>8. QED
      BY <1>1, <3>7 DEF region
  <2>7. CASE mode # "exact"
    <3> DEFINE recs == words(data)
    <3>1. Found(recs, <<recs>>, 1)
      BY <2>1, <2>7
    <3>2. <<recs>> \in Seq(Seq(Rec)) /\ Records(<<recs>>) = Elements(recs) /\ FlattenSeq(<<recs>>) = recs
      BY <2>3, OneChunk, FlattenOne
    <3> HIDE DEF words
    <3>3. Adds(recs)
      BY <2>3, <2>5, <3>1, <3>2, FoundAdds
    <3>4. \A r : r \in Elements(recs) <=> \E k \in 1..Len(region) : r = Word(region, data, k)
      BY <2>3, <2>4 DEF Elements
    <3>7. Sub(Addrs(recs), region)
      <4>1. Addrs(recs) = [k \in 1..Len(region) |-> region[k]]
        BY <2>3, <2>9 DEF Addrs
      <4>2. \A S : \A s \in Seq(S) : s = [k \in 1..Len(s) |-> s[k]]
        BY SeqDef
      <4>3. region = [k \in 1..Len(region) |-> region[k]]
        BY <1>2, <4>2
      <4>4. recs \in Seq(Rec) /\ Addrs(recs) = region
        BY <2>3, <4>1, <4>3
      <4> HIDE DEF recs
      <4>5. QED
        BY <4>4, SubOfItself
    <3>5. Scans(region, data, recs)
      BY <2>2, <2>3, <2>7, <3>3, <3>4, <3>7 DEF Scans
    <3>6. QED
      BY <1>1, <3>5 DEF region
  <2>8. QED
    BY <2>6, <2>7
<1>5. QED
  BY <1>3, <1>4

\* A step of a later scan, of a chunk that is read as a whole or not at all.
Wholly(chunk) == \A k \in 1..Len(chunk) : Page(chunk[k].addr) \in mapped
Refines(chunk, recs) ==
  /\ Adds(recs) /\ Sub(Addrs(recs), Addrs(chunk))
  /\ mode = "refresh" => Addrs(recs) = Addrs(chunk)
  /\ \A r : r \in Elements(recs) <=>
       \E k \in 1..Len(chunk) : /\ Satisfies(mem[chunk[k].addr], chunk[k].value)
                                /\ r = [addr |-> chunk[k].addr, value |-> mem[chunk[k].addr]]

LEMMA RefineStep ==
  ASSUME TInv, RefineChunk
  PROVE  /\ pc = "refine" /\ todo \in Seq(Seq(Rec)) /\ todo # <<>> /\ todo' = Tail(todo)
         /\ UNCHANGED <<targetVars, searchVars, pc, mode, value, held>>
         /\ \/ Wholly(Head(todo)) /\ \E recs : Refines(Head(todo), recs)
            \/ ~Wholly(Head(todo)) /\ mode = "refresh" /\ Adds(Head(todo))
            \/ ~Wholly(Head(todo)) /\ mode # "refresh" /\ UNCHANGED <<matchCount, temp, list>>
<1> DEFINE chunk == Head(todo)
           I == {k \in 1..Len(chunk) : Satisfies(mem[chunk[k].addr], chunk[k].value)}
           kept == Picked(chunk, I)
           new  == [k \in 1..Len(kept) |-> [kept[k] EXCEPT !.value = mem[kept[k].addr]]]
<1>1. /\ pc = "refine" /\ todo \in Seq(Seq(Rec)) /\ todo # <<>> /\ todo' = Tail(todo)
      /\ UNCHANGED <<targetVars, searchVars, pc, mode, value, held>>
  BY DEF RefineChunk, TInv
<1>2. IF Wholly(chunk) THEN Found(new, Singles(new), 1)
      ELSE IF mode = "refresh" THEN Found(chunk, <<>>, -1)
      ELSE UNCHANGED <<matchCount, temp, list>>
  BY DEF RefineChunk, Wholly
<1>3. chunk \in Seq(Rec)
  BY <1>1, HeadTailProperties
<1> HIDE DEF chunk
<1>4. Len(chunk) \in Nat /\ \A k \in 1..Len(chunk) : chunk[k] \in Rec
  BY <1>3, LenProperties, ElementOfSeq
<1>5. CASE Wholly(chunk)
  <2>1. kept \in Seq(Rec) /\ Follows(kept, chunk, I)
    <3>1. I \cap 1..Len(chunk) = I
      OBVIOUS
    <3> HIDE DEF I
    <3>2. QED
      BY <1>3, <3>1, PickedOf
  <2> HIDE DEF I, kept
  <2>2. Len(kept) \in Nat /\ \A k \in 1..Len(kept) : kept[k] \in Rec
    BY <2>1, LenProperties, ElementOfSeq
  <2>3. \A k \in 1..Len(kept) : new[k] = [addr |-> kept[k].addr, value |-> mem[kept[k].addr]]
    BY <2>2 DEF Rec
  <2>15. \A k \in 1..Len(kept) : new[k].addr = kept[k].addr
    <3> SUFFICES ASSUME NEW k \in 1..Len(kept) PROVE new[k].addr = kept[k].addr
      OBVIOUS
    <3>1. new[k] = [addr |-> kept[k].addr, value |-> mem[kept[k].addr]]
      BY <2>3
    <3> HIDE DEF new
    <3>2. QED
      BY <3>1
  <2>4. new \in Seq(Rec) /\ Len(new) = Len(kept)
    <3>1. new \in [1..Len(kept) -> Rec]
      BY <2>2 DEF Rec, TInv
    <3> HIDE DEF new, Rec
    <3>2. QED
      BY <2>2, <3>1, SeqDef
  <2> HIDE DEF new
  <2>5. Found(new, Singles(new), 1) /\ pc # "idle"
    BY <1>1, <1>2, <1>5
  <2>6. Singles(new) \in Seq(Seq(Rec)) /\ Records(Singles(new)) = Elements(new) /\ FlattenSeq(Singles(new)) = new
    BY <2>4, SinglesOf, FlattenSingles
  <2>7. Adds(new)
    BY <2>4, <2>5, <2>6, FoundAdds
  <2>8. /\ \A i \in 1..Len(kept) : \E k \in I : kept[i] = chunk[k]
        /\ \A k \in I : \E i \in 1..Len(kept) : kept[i] = chunk[k]
    BY <2>1 DEF Follows
  <2>9. \A r : r \in Elements(new) <=> \E i \in 1..Len(kept) : r = new[i]
    BY <2>4 DEF Elements
  <2>10. \A r : r \in Elements(new) <=> \E k \in I : r = [addr |-> chunk[k].addr, value |-> mem[chunk[k].addr]]
    <3>1. ASSUME NEW r, r \in Elements(new) PROVE \E k \in I : r = [addr |-> chunk[k].addr, value |-> mem[chunk[k].addr]]
      <4>1. PICK i \in 1..Len(kept) : r = new[i]
        BY <2>9, <3>1
      <4>2. PICK k \in I : kept[i] = chunk[k]
        BY <2>8
      <4>3. QED
        BY <2>3, <4>1, <4>2
    <3>2. ASSUME NEW k \in I PROVE [addr |-> chunk[k].addr, value |-> mem[chunk[k].addr]] \in Elements(new)
      <4>1. PICK i \in 1..Len(kept) : kept[i] = chunk[k]
        BY <2>8
      <4>2. new[i] = [addr |-> chunk[k].addr, value |-> mem[chunk[k].addr]]
        BY <2>3, <4>1
      <4>3. new[i] \in Elements(new)
        BY <2>9
      <4>4. QED
        BY <4>2, <4>3
    <3>3. QED
      BY <3>1, <3>2
  <2>13. Sub(Addrs(new), Addrs(chunk))
    <3>0. \A k \in 1..Len(kept) : new[k].addr = kept[k].addr
      BY <2>15
    <3>1. Addrs(new) = Addrs(kept)
      BY <2>4, <3>0 DEF Addrs
    <3>2. /\ Len(Addrs(chunk)) = Len(chunk) /\ \A k \in 1..Len(chunk) : Addrs(chunk)[k] = chunk[k].addr
          /\ I \in SUBSET (1..Len(chunk))
      BY <1>3, AddrsOfSeq DEF I
    <3>3. Sub(Addrs(kept), Addrs(chunk))
      BY <1>3, <2>1, <3>2, FollowsSub
    <3>4. QED
      BY <3>1, <3>3
  <2>14. ASSUME mode = "refresh" PROVE Addrs(new) = Addrs(chunk)
    <3>1. 1..Len(chunk) \subseteq I
      BY <2>14 DEF I, Satisfies
    <3>2. Len(kept) = Len(chunk) /\ \A i \in 1..Len(chunk) : kept[i] = chunk[i]
      BY <1>3, <3>1, PickedAll DEF kept
    <3>3. \A k \in 1..Len(chunk) : new[k].addr = chunk[k].addr
      BY <2>15, <3>2
    <3>4. QED
      BY <2>4, <3>2, <3>3 DEF Addrs
  <2>11. Refines(chunk, new)
    BY <2>7, <2>10, <2>13, <2>14 DEF Refines, I
  <2>12. QED
    BY <1>1, <1>5, <2>11 DEF chunk
<1>6. CASE ~Wholly(chunk) /\ mode = "refresh"
  <2>1. Found(chunk, <<>>, -1) /\ pc # "idle" /\ ~Committing /\ <<>> \in Seq(Seq(Rec))
    BY <1>1, <1>2, <1>6 DEF Committing
  <2>2. Adds(chunk)
    BY <1>3, <2>1, FoundAdds
  <2>3. QED
    BY <1>1, <1>6, <2>2 DEF chunk
<1>7. CASE ~Wholly(chunk) /\ mode # "refresh"
  BY <1>1, <1>2, <1>7 DEF chunk
<1>8. QED
  BY <1>5, <1>6, <1>7

\* A step of the target process: during a search, held grows by what it made.
LEMMA TargetStep ==
  ASSUME TInv, Watched, Poke \/ Unmap \/ Map
  PROVE  /\ UNCHANGED <<searchVars, scanVars>>
         /\ mem' \in [Addr -> Value] /\ mapped' \subseteq 1..Pages /\ activity' \in 0..MaxActivity
         /\ held' \in [Addr -> SUBSET (Value \cup {Unreadable})]
         /\ pc # "idle" => \A a \in Addr : held[a] # {} /\ held[a] \subseteq held'[a] /\ Seen(a)' \in held'[a]
<1>1. /\ UNCHANGED <<searchVars, scanVars>> /\ Observe
      /\ mem' \in [Addr -> Value] /\ mapped' \subseteq 1..Pages /\ activity' \in 0..MaxActivity
  <2>0. MaxActivity \in Nat /\ 0 \in Value
    BY SizeAssumption DEF Value
  <2>1. CASE Poke
    BY <2>0, <2>1 DEF Poke, TInv
  <2>2. CASE Unmap
    BY <2>0, <2>2 DEF Unmap, TInv
  <2>3. CASE Map
    BY <2>0, <2>3 DEF Map, TInv
  <2>4. QED
    BY <2>1, <2>2, <2>3
<1>2. \A a \in Addr : Seen(a)' \in Value \cup {Unreadable}
  BY <1>1 DEF Seen
<1>3. \A a \in Addr : held[a] \subseteq Value \cup {Unreadable}
  BY DEF TInv
<1>4. \A a \in Addr : held'[a] = IF pc = "idle" THEN held[a] ELSE held[a] \cup {Seen(a)'}
  BY <1>1 DEF Observe
<1>5. held' \in [Addr -> SUBSET (Value \cup {Unreadable})]
  <2>1. held' = [a \in Addr |-> held'[a]]
    BY <1>1 DEF Observe
  <2>2. \A a \in Addr : held'[a] \in SUBSET (Value \cup {Unreadable})
    BY <1>2, <1>3, <1>4
  <2>3. QED
    BY <2>1, <2>2
<1>6. pc # "idle" => \A a \in Addr : held[a] # {}
  BY DEF Watched
<1>7. QED
  BY <1>1, <1>4, <1>5, <1>6

\* How a search begins: with the flag right, on the file as it is.
LEMMA BeginStep ==
  ASSUME TInv, Format, BeginSearch
  PROVE  /\ pc = "idle" /\ mode' \in Mode /\ value' \in Value
         /\ temp' = <<>> /\ matchCount' = 0 /\ list' = <<>>
         /\ \A a \in Addr : held'[a] = {Seen(a)}
         /\ UNCHANGED <<targetVars, searchVars>>
         /\ mode' = "refresh" => AnyRefresh \/ matchCount < RefreshLimit
         /\ \/ m_ScanCount = 0 /\ pc' = "first" /\ todo' = RescanRegions
            \/ m_ScanCount > 0 /\ pc' = "refine" /\ todo' = oldFile.chunks
<1>1. /\ pc = "idle" /\ mode' \in Mode /\ value' \in (IF mode' = "exact" THEN Value ELSE {0})
      /\ mode' = "refresh" => MayRefresh
      /\ pc' = IF m_ScanCount = 0 THEN "first" ELSE "refine"
      /\ todo' \in IF m_ScanCount = 0 THEN {RescanRegions}
                   ELSE IF m_LastScanIsFullDump = (oldFile.kind = "dump") THEN {oldFile.chunks}
                   ELSE Misread
      /\ temp' = <<>> /\ matchCount' = 0 /\ list' = <<>>
      /\ held' = [a \in Addr |-> {Seen(a)}]
      /\ UNCHANGED <<targetVars, searchVars>>
  BY DEF BeginSearch
<1>2. 0 \in Value
  BY SizeAssumption DEF Value
<1>3. MayRefresh => AnyRefresh \/ matchCount < RefreshLimit
  BY RefreshAssumption DEF MayRefresh
<1>4. m_ScanCount \in Nat /\ m_LastScanIsFullDump \in BOOLEAN
  BY SizeAssumption DEF TInv
<1>5. CASE m_ScanCount = 0
  BY <1>1, <1>2, <1>3, <1>5
<1>6. CASE m_ScanCount > 0
  <2>1. m_ScanCount # 0
    BY <1>4, <1>6
  <2>2. m_LastScanIsFullDump <=> oldFile.kind = "dump"
    BY <1>6 DEF Format
  <2>3. m_LastScanIsFullDump = (oldFile.kind = "dump")
    BY <1>4, <2>2, Zenon
  <2>4. pc' = "refine" /\ todo' = oldFile.chunks
    BY <1>1, <2>1, <2>3
  <2>5. QED
    BY <1>1, <1>2, <1>3, <1>6, <2>4
<1>7. QED
  BY <1>4, <1>5, <1>6
-----------------------------------------------------------------------------
(* The invariant, conjunct by conjunct. *)

LEMMA TailOf ==
  ASSUME NEW S, NEW s \in Seq(S), s # <<>>
  PROVE  /\ Tail(s) \in Seq(S) /\ Len(s) \in Nat \ {0} /\ Len(Tail(s)) = Len(s) - 1 /\ s[1] = Head(s) /\ Head(s) \in S
         /\ \A i \in 1..Len(Tail(s)) : i + 1 \in 1..Len(s) /\ Tail(s)[i] = s[i + 1]
         /\ \A i \in 1..Len(s) : i = 1 \/ (i - 1 \in 1..Len(Tail(s)) /\ s[i] = Tail(s)[i - 1])
<1>1. Tail(s) \in Seq(S) /\ Len(s) \in Nat \ {0} /\ Len(Tail(s)) = Len(s) - 1 /\ Head(s) = s[1] /\ Head(s) \in S
  BY HeadTailProperties, LenProperties, EmptySeq
<1>2. \A i \in 1..Len(Tail(s)) : Tail(s)[i] = s[i + 1]
  BY HeadTailProperties
<1> QED
  BY <1>1, <1>2

LEMMA Initially == ASSUME Init PROVE IInv
<1>1. Pages \in Nat /\ PageWords \in Nat \ {0} /\ 0 \in Value /\ MaxActivity \in Nat /\ MaxScans \in Nat /\ ListCap \in Nat
  BY SizeAssumption DEF Value
<1>2. \A S : <<>> \in Seq(S)
  OBVIOUS
<1>3. Len(<<>>) = 0 /\ NoFile \in [kind : {"none", "dump", "list"}, chunks : Seq(Seq(Rec))]
  BY <1>2 DEF NoFile
<1>4. \A a \in Addr : Seen(a) \in Value \cup {Unreadable}
  BY <1>1 DEF Init, Seen
<1>5. TInv
  <2>1. held \in [Addr -> SUBSET (Value \cup {Unreadable})]
    BY <1>4 DEF Init
  <2>2. QED
    BY <1>1, <1>2, <1>3, <2>1 DEF Init, TInv, Mode
<1>6. Records(<<>>) = {}
  BY DEF Records
<1>7. Listing /\ Order /\ Bounded
  <2>1. Places(<<>>) = <<>> /\ Up(<<>>)
    BY FlattenEmpty DEF Places, Addrs, Up
  <2>2. Order
    BY <2>1 DEF Init, Order, NoFile
  <2>3. 0 \in 0..Cardinality(Addr)
    <3>1. <<>> \in Seq(Addr) /\ Len(<<>>) = 0
      BY EmptySeq
    <3>2. QED
      BY <2>1, <3>1, UpBound
  <2>4. QED
    BY <2>2, <2>3 DEF Init, Listing, Bounded, Committing
<1>8. QED
  BY <1>5, <1>6, <1>7 DEF Init, IInv, Control, Format, Dumps, Regions, FromFile, Watched, Counted, Committing,
     ResultsAreSound, Covered, Retained

LEMMA TypeNext == ASSUME IInv, [Next]_vars PROVE TInv'
<1> USE DEF IInv
<1>1. CASE Poke \/ Unmap \/ Map
  BY <1>1, TargetStep DEF TInv, searchVars, scanVars
<1>2. CASE Select
  BY <1>2, SizeAssumption DEF Select, TInv, targetVars, scanVars
<1>3. CASE BeginSearch
  <2>1. RescanRegions \in Seq(Seq(Addr))
    BY RegionsOf DEF TInv
  <2>2. oldFile.chunks \in Seq(Seq(Rec))
    BY DEF TInv
  <2>3. <<>> \in Seq(Seq(Rec)) /\ <<>> \in Seq(Reported) /\ Len(<<>>) <= ListCap /\ 0 \in Nat
    BY SizeAssumption
  <2>4. held' \in [Addr -> SUBSET (Value \cup {Unreadable})]
    <3>1. held' = [a \in Addr |-> {Seen(a)}] /\ \A a \in Addr : Seen(a) \in Value \cup {Unreadable}
      BY <1>3 DEF BeginSearch, Seen, TInv
    <3>2. QED
      BY <3>1
  <2>5. QED
    BY <1>3, <2>1, <2>2, <2>3, <2>4, BeginStep DEF TInv, targetVars, searchVars
<1>4. CASE ScanRegion
  <2>1. /\ pc = "first" /\ todo' \in Seq(Seq(Addr)) /\ UNCHANGED <<targetVars, searchVars, pc, mode, value, held>>
        /\ (UNCHANGED <<matchCount, temp, list>> \/ \E recs : Adds(recs))
    BY <1>4, ScanStep, HeadTailProperties DEF Scans
  <2>2. matchCount' \in Nat /\ temp' \in Seq(Seq(Rec)) /\ list' \in Seq(Reported) /\ Len(list') <= ListCap
    BY <2>1, LenProperties DEF Adds, TInv
  <2>3. QED
    BY <2>1, <2>2 DEF TInv, targetVars, searchVars
<1>5. CASE RefineChunk
  <2>1. /\ pc = "refine" /\ todo' \in Seq(Seq(Rec)) /\ UNCHANGED <<targetVars, searchVars, pc, mode, value, held>>
        /\ (UNCHANGED <<matchCount, temp, list>> \/ \E recs : Adds(recs))
    BY <1>5, RefineStep, HeadTailProperties DEF Refines
  <2>2. matchCount' \in Nat /\ temp' \in Seq(Seq(Rec)) /\ list' \in Seq(Reported) /\ Len(list') <= ListCap
    BY <2>1, LenProperties DEF Adds, TInv
  <2>3. QED
    BY <2>1, <2>2 DEF TInv, targetVars, searchVars
<1>6. CASE EndSearch
  <2>1. /\ m_LastScanIsFullDump' = (pc = "first" /\ mode # "exact")
        /\ \/ UNCHANGED <<m_ScanCount, oldFile>>
           \/ /\ oldFile' = [kind |-> IF pc = "first" /\ mode # "exact" THEN "dump" ELSE "list", chunks |-> temp]
              /\ m_ScanCount' = IF m_ScanCount < MaxScans THEN m_ScanCount + 1 ELSE MaxScans
           \/ m_ScanCount' = 0 /\ UNCHANGED oldFile
        /\ pc' = "idle" /\ temp' = <<>> /\ mode' = "equal" /\ value' = 0
        /\ UNCHANGED <<targetVars, todo, matchCount, list, held>>
    BY <1>6, Zenon DEF EndSearch
  <2>2. m_LastScanIsFullDump' \in BOOLEAN
    BY <2>1, Zenon
  <2>3. m_ScanCount' \in 0..MaxScans
    BY <2>1, SizeAssumption DEF TInv
  <2>4. oldFile' \in [kind : {"none", "dump", "list"}, chunks : Seq(Seq(Rec))]
    BY <2>1 DEF TInv
  <2>5. <<>> \in Seq(Seq(Rec)) /\ "equal" \in Mode /\ 0 \in Value
    BY SizeAssumption DEF Mode, Value
  <2>6. QED
    BY <2>1, <2>2, <2>3, <2>4, <2>5 DEF TInv, targetVars
<1>7. CASE UNCHANGED vars
  BY <1>7 DEF TInv, vars, targetVars, searchVars, scanVars
<1>8. QED
  BY <1>1, <1>2, <1>3, <1>4, <1>5, <1>6, <1>7 DEF Next

\* What the end of a search does to the files.
LEMMA EndStep ==
  ASSUME IInv, EndSearch
  PROVE  /\ pc # "idle" /\ todo = <<>> /\ pc' = "idle" /\ temp' = <<>>
         /\ UNCHANGED <<targetVars, todo, matchCount, list, held>>
         /\ m_LastScanIsFullDump' <=> pc = "first" /\ mode # "exact"
         /\ \/ mode = "refresh" /\ UNCHANGED <<m_ScanCount, oldFile>>
            \/ mode # "refresh" /\ matchCount = 0 /\ m_ScanCount' = 0 /\ UNCHANGED oldFile
            \/ /\ mode # "refresh" /\ matchCount > 0 /\ m_ScanCount' > 0 /\ oldFile'.chunks = temp
               /\ oldFile'.kind = IF pc = "first" /\ mode # "exact" THEN "dump" ELSE "list"
<1> USE DEF IInv
<1>1. /\ pc # "idle" /\ todo = <<>> /\ pc' = "idle" /\ temp' = <<>>
      /\ UNCHANGED <<targetVars, todo, matchCount, list, held>>
      /\ m_LastScanIsFullDump' <=> pc = "first" /\ mode # "exact"
  BY Zenon DEF EndSearch
<1>2. \/ mode = "refresh" /\ UNCHANGED <<m_ScanCount, oldFile>>
      \/ mode # "refresh" /\ ~(matchCount > 0) /\ m_ScanCount' = 0 /\ UNCHANGED oldFile
      \/ /\ mode # "refresh" /\ matchCount > 0
         /\ m_ScanCount' = IF m_ScanCount < MaxScans THEN m_ScanCount + 1 ELSE MaxScans
         /\ oldFile' = [kind |-> IF pc = "first" /\ mode # "exact" THEN "dump" ELSE "list", chunks |-> temp]
  BY Zenon DEF EndSearch
<1>3. MaxScans \in Nat \ {0} /\ m_ScanCount \in Nat /\ matchCount \in Nat
  BY SizeAssumption DEF TInv
<1>4. ~(matchCount > 0) => matchCount = 0
  BY <1>3
<1>5. (m_ScanCount' = IF m_ScanCount < MaxScans THEN m_ScanCount + 1 ELSE MaxScans) => m_ScanCount' > 0
  BY <1>3
<1>6. QED
  BY <1>1, <1>2, <1>4, <1>5

LEMMA ControlNext == ASSUME IInv, [Next]_vars PROVE Control'
<1> USE DEF IInv
<1>1. CASE Poke \/ Unmap \/ Map
  BY <1>1, TargetStep DEF Control, searchVars, scanVars
<1>2. CASE Select
  BY <1>2 DEF Select, Control, scanVars
<1>3. CASE BeginSearch
  BY <1>3, BeginStep DEF Control, searchVars
<1>4. CASE ScanRegion
  BY <1>4, ScanStep DEF Control, searchVars
<1>5. CASE RefineChunk
  BY <1>5, RefineStep DEF Control, searchVars
<1>6. CASE EndSearch
  BY <1>6, EndStep DEF Control
<1>7. CASE UNCHANGED vars
  BY <1>7 DEF Control, vars, searchVars, scanVars
<1>8. QED
  BY <1>1, <1>2, <1>3, <1>4, <1>5, <1>6, <1>7 DEF Next

LEMMA FormatNext == ASSUME IInv, [Next]_vars PROVE Format'
<1> USE DEF IInv
<1>1. CASE Poke \/ Unmap \/ Map
  BY <1>1, TargetStep DEF Format, searchVars
<1>2. CASE Select
  BY <1>2 DEF Select, Format
<1>3. CASE BeginSearch
  BY <1>3, BeginStep DEF Format, searchVars
<1>4. CASE ScanRegion
  BY <1>4, ScanStep DEF Format, searchVars
<1>5. CASE RefineChunk
  BY <1>5, RefineStep DEF Format, searchVars
<1>6. CASE EndSearch
  <2>1. CASE mode = "refresh" /\ UNCHANGED <<m_ScanCount, oldFile>>
    <3>1. m_ScanCount' > 0 => pc = "refine"
      BY <1>6, <2>1, EndStep DEF Control, TInv
    <3>2. pc = "refine" => oldFile'.kind # "dump" /\ ~m_LastScanIsFullDump'
      BY <1>6, <2>1, EndStep DEF Dumps
    <3>3. QED
      BY <3>1, <3>2 DEF Format
  <2>2. CASE m_ScanCount' = 0
    BY <2>2 DEF Format
  <2>3. CASE oldFile'.kind = IF pc = "first" /\ mode # "exact" THEN "dump" ELSE "list"
    BY <1>6, <2>3, EndStep DEF Format
  <2>4. QED
    BY <1>6, <2>1, <2>2, <2>3, EndStep
<1>7. CASE UNCHANGED vars
  BY <1>7 DEF Format, vars, searchVars
<1>8. QED
  BY <1>1, <1>2, <1>3, <1>4, <1>5, <1>6, <1>7 DEF Next

LEMMA DumpsNext == ASSUME IInv, ~AnyRefresh, [Next]_vars PROVE Dumps'
<1> USE DEF IInv
<1>0. RefreshLimit \in Nat \ {0} /\ RefreshLimit <= PageWords /\ PageWords \in Nat /\ matchCount \in Nat
  BY RefreshAssumption, SizeAssumption DEF TInv
<1>1. CASE Poke \/ Unmap \/ Map
  BY <1>1, TargetStep DEF Dumps, searchVars, scanVars
<1>2. CASE Select
  BY <1>2 DEF Select, Dumps, scanVars
<1>3. CASE BeginSearch
  <2>1. pc' = "refine" /\ mode' = "refresh" => oldFile.kind # "dump"
    <3>1. mode' = "refresh" => matchCount < RefreshLimit
      BY <1>3, BeginStep
    <3>2. pc' = "refine" => m_ScanCount > 0 /\ pc = "idle"
      BY <1>3, BeginStep
    <3>3. matchCount < RefreshLimit => ~(matchCount >= RefreshLimit)
      BY <1>0
    <3>4. QED
      BY <3>1, <3>2, <3>3 DEF Dumps
  <2>2. pc' # "idle" /\ matchCount' = 0 /\ oldFile' = oldFile
    BY <1>3, BeginStep DEF searchVars
  <2>3. QED
    BY <2>1, <2>2 DEF Dumps
<1>4. CASE ScanRegion
  <2>1. pc = "first" /\ pc' = pc /\ mode' = mode
    BY <1>4, ScanStep
  <2>2. mode # "exact" => matchCount' = matchCount \/ matchCount' >= RefreshLimit
    <3>1. ASSUME NEW data, NEW recs, Scans(Head(todo), data, recs), mode # "exact" PROVE matchCount' >= RefreshLimit
      <4>1. matchCount' = matchCount + Len(recs) /\ Len(recs) = Len(Head(todo)) /\ Len(recs) \in Nat
        BY <3>1, LenProperties DEF Scans, Adds
      <4>2. Len(Head(todo)) >= PageWords
        <5>1. todo \in Seq(Seq(Addr)) /\ todo # <<>>
          BY <1>4, ScanStep
        <5>2. 1 \in 1..Len(todo) /\ todo[1] = Head(todo)
          BY <5>1, TailOf
        <5>3. QED
          BY <2>1, <5>2 DEF Regions, IsRegion
      <4>3. QED
        BY <1>0, <4>1, <4>2
    <3>2. QED
      BY <1>4, <3>1, ScanStep
  <2>3. QED
    BY <2>1, <2>2 DEF Dumps
<1>5. CASE RefineChunk
  BY <1>5, RefineStep DEF Dumps, searchVars
<1>6. CASE EndSearch
  <2>1. ASSUME m_ScanCount' > 0, oldFile'.kind = "dump" PROVE matchCount' >= RefreshLimit
    <3>1. pc # "idle" /\ matchCount' = matchCount
      BY <1>6, EndStep
    <3>2. CASE UNCHANGED <<m_ScanCount, oldFile>> /\ mode = "refresh"
      <4>1. pc = "refine"
        BY <2>1, <3>1, <3>2 DEF Control, TInv
      <4>2. QED
        BY <2>1, <3>2, <4>1 DEF Dumps
    <3>3. CASE m_ScanCount' = 0
      BY <2>1, <3>3
    <3>4. CASE matchCount > 0 /\ oldFile'.kind = IF pc = "first" /\ mode # "exact" THEN "dump" ELSE "list"
      BY <2>1, <3>1, <3>4 DEF Dumps
    <3>5. QED
      BY <1>6, <3>2, <3>3, <3>4, EndStep
  <2>2. pc' = "idle"
    BY <1>6, EndStep
  <2>3. QED
    BY <2>1, <2>2 DEF Dumps
<1>7. CASE UNCHANGED vars
  BY <1>7 DEF Dumps, vars, searchVars, scanVars
<1>8. QED
  BY <1>1, <1>2, <1>3, <1>4, <1>5, <1>6, <1>7 DEF Next

LEMMA RegionsNext == ASSUME IInv, [Next]_vars PROVE Regions'
<1> USE DEF IInv
<1>1. CASE Poke \/ Unmap \/ Map
  <2> SUFFICES ASSUME pc = "first", NEW i \in 1..Len(todo) PROVE IsRegion(todo[i])'
    BY <1>1, TargetStep DEF Regions, scanVars
  <2>1. IsRegion(todo[i]) /\ todo' = todo
    BY <1>1, TargetStep DEF Regions, scanVars
  <2>2. \A k \in 1..Len(todo[i]) : todo[i][k] \in Addr
    BY ElementOfSeq DEF TInv
  <2>3. \A a \in Addr : held[a] # {Unreadable} => held'[a] # {Unreadable}
    BY <1>1, TargetStep
  <2>4. QED
    BY <2>1, <2>2, <2>3 DEF IsRegion
<1>2. CASE Select
  BY <1>2 DEF Select, Regions, IsRegion, Consecutive, scanVars
<1>3. CASE BeginSearch
  <2> SUFFICES ASSUME pc' = "first", NEW i \in 1..Len(todo') PROVE IsRegion(todo[i])'
    BY DEF Regions
  <2>1. todo' = RescanRegions /\ mapped \subseteq 1..Pages /\ \A a \in Addr : held'[a] = {Seen(a)}
    BY <1>3, BeginStep DEF TInv
  <2>2. PICK p \in mapped : todo'[i] = Region(p)
    BY <2>1, RegionsOf
  <2>3. /\ Region(p) \in Seq(Addr) /\ Len(Region(p)) >= PageWords /\ Consecutive(Region(p))
        /\ \A k \in 1..Len(Region(p)) : Page(Region(p)[k]) \in mapped
    BY <2>1, RegionOf
  <2>4. ASSUME NEW a \in Addr, Page(a) \in mapped PROVE held'[a] # {Unreadable}
    <3>1. Seen(a) \in Value
      BY <2>4 DEF Seen, TInv
    <3>2. Unreadable \notin Value
      BY SizeAssumption DEF Unreadable, Value
    <3>3. QED
      BY <2>1, <3>1, <3>2
  <2>5. \A k \in 1..Len(Region(p)) : Region(p)[k] \in Addr
    BY <2>3, ElementOfSeq
  <2> DEFINE region == Region(p)
  <2>6. todo'[i] = region /\ Len(region) >= PageWords /\ Consecutive(region)
        /\ \A k \in 1..Len(region) : held'[region[k]] # {Unreadable}
    BY <2>2, <2>3, <2>4, <2>5
  <2> HIDE DEF region
  <2>7. QED
    BY <2>6 DEF IsRegion, Consecutive
<1>4. CASE ScanRegion
  <2> SUFFICES ASSUME NEW i \in 1..Len(todo') PROVE IsRegion(todo[i])'
    BY DEF Regions
  <2>1. pc = "first" /\ todo \in Seq(Seq(Addr)) /\ todo # <<>> /\ todo' = Tail(todo) /\ held' = held
    BY <1>4, ScanStep
  <2>2. i + 1 \in 1..Len(todo) /\ todo'[i] = todo[i + 1]
    BY <2>1, TailOf
  <2>3. IsRegion(todo[i + 1])
    BY <2>1, <2>2 DEF Regions
  <2>4. QED
    BY <2>1, <2>2, <2>3 DEF IsRegion, Consecutive
<1>5. CASE RefineChunk
  BY <1>5, RefineStep DEF Regions
<1>6. CASE EndSearch
  BY <1>6, EndStep DEF Regions
<1>7. CASE UNCHANGED vars
  BY <1>7 DEF Regions, IsRegion, Consecutive, vars, scanVars
<1>8. QED
  BY <1>1, <1>2, <1>3, <1>4, <1>5, <1>6, <1>7 DEF Next

LEMMA FromFileNext == ASSUME IInv, [Next]_vars PROVE FromFile'
<1> USE DEF IInv
<1>1. CASE Poke \/ Unmap \/ Map
  BY <1>1, TargetStep DEF FromFile, searchVars, scanVars
<1>2. CASE Select
  BY <1>2 DEF Select, FromFile, scanVars
<1>3. CASE BeginSearch
  BY <1>3, BeginStep DEF FromFile, searchVars
<1>4. CASE ScanRegion
  BY <1>4, ScanStep DEF FromFile
<1>5. CASE RefineChunk
  <2> SUFFICES ASSUME NEW i \in 1..Len(todo') PROVE \E j \in 1..Len(oldFile.chunks) : todo'[i] = oldFile.chunks[j]
    BY <1>5, RefineStep DEF FromFile, searchVars
  <2>1. pc = "refine" /\ todo \in Seq(Seq(Rec)) /\ todo # <<>> /\ todo' = Tail(todo)
    BY <1>5, RefineStep
  <2>2. i + 1 \in 1..Len(todo) /\ todo'[i] = todo[i + 1]
    BY <2>1, TailOf
  <2>3. QED
    BY <2>1, <2>2 DEF FromFile
<1>6. CASE EndSearch
  BY <1>6, EndStep DEF FromFile
<1>7. CASE UNCHANGED vars
  BY <1>7 DEF FromFile, vars, searchVars, scanVars
<1>8. QED
  BY <1>1, <1>2, <1>3, <1>4, <1>5, <1>6, <1>7 DEF Next

LEMMA WatchedNext == ASSUME IInv, [Next]_vars PROVE Watched'
<1> USE DEF IInv
<1>1. CASE Poke \/ Unmap \/ Map
  BY <1>1, TargetStep DEF Watched, scanVars
<1>2. CASE Select
  BY <1>2 DEF Select, Watched, Seen, targetVars, scanVars
<1>3. CASE BeginSearch
  BY <1>3, BeginStep DEF Watched, Seen, targetVars
<1>4. CASE ScanRegion
  BY <1>4, ScanStep DEF Watched, Seen, targetVars
<1>5. CASE RefineChunk
  BY <1>5, RefineStep DEF Watched, Seen, targetVars
<1>6. CASE EndSearch
  BY <1>6, EndStep DEF Watched
<1>7. CASE UNCHANGED vars
  BY <1>7 DEF Watched, Seen, vars, targetVars, scanVars
<1>8. QED
  BY <1>1, <1>2, <1>3, <1>4, <1>5, <1>6, <1>7 DEF Next

LEMMA CountedNext == ASSUME IInv, [Next]_vars PROVE Counted'
<1> USE DEF IInv
<1>0. ASSUME NEW recs, Adds(recs), pc' = pc, mode' = mode PROVE Counted'
  <2> SUFFICES ASSUME Committing, matchCount' > 0 PROVE Records(temp') # {}
    BY <1>0 DEF Counted, Committing
  <2>1. /\ Records(temp') = Records(temp) \cup Elements(recs)
        /\ matchCount' = matchCount + Len(recs) /\ matchCount \in Nat /\ Len(recs) \in Nat
    BY <1>0, LenProperties DEF Adds, TInv
  <2>2. matchCount > 0 \/ 1 \in 1..Len(recs)
    BY <2>1
  <2>3. QED
    BY <2>1, <2>2 DEF Elements, Counted
<1>1. CASE Poke \/ Unmap \/ Map
  BY <1>1, TargetStep DEF Counted, Committing, scanVars
<1>2. CASE Select
  BY <1>2 DEF Select, Counted, Committing, scanVars
<1>3. CASE BeginSearch
  BY <1>3, BeginStep DEF Counted
<1>4. CASE ScanRegion
  <2>1. CASE UNCHANGED <<matchCount, temp, list>>
    BY <1>4, <2>1, ScanStep DEF Counted, Committing
  <2>2. QED
    BY <1>0, <1>4, <2>1, ScanStep DEF Scans
<1>5. CASE RefineChunk
  <2>1. CASE UNCHANGED <<matchCount, temp, list>>
    BY <1>5, <2>1, RefineStep DEF Counted, Committing
  <2>2. QED
    BY <1>0, <1>5, <2>1, RefineStep DEF Refines
<1>6. CASE EndSearch
  BY <1>6, EndStep DEF Counted, Committing
<1>7. CASE UNCHANGED vars
  BY <1>7 DEF Counted, Committing, vars, scanVars
<1>8. QED
  BY <1>1, <1>2, <1>3, <1>4, <1>5, <1>6, <1>7 DEF Next

LEMMA NoRecords == Records(<<>>) = {}
BY DEF Records

\* What a torn region returns: a word past the hole.
LEMMA WordsAreHeld ==
  ASSUME TInv, Watched, pc = "first", NEW region \in Seq(Addr), IsRegion(region), NEW data, Reads(region, data),
         NEW k \in 1..Len(region)
  PROVE  data[k] \in held[region[k]] \/ TornBefore(region[k])
<1>0. Len(region) \in Nat /\ \A j \in 1..Len(region) : region[j] \in Addr
  BY LenProperties, ElementOfSeq
<1>1. CASE \A j \in 1..k : Page(region[j]) \in mapped
  <2>1. k \in 1..k
    BY <1>0
  <2>2. data[k] = mem[region[k]] /\ Page(region[k]) \in mapped
    BY <1>1, <2>1 DEF Reads
  <2>3. Seen(region[k]) = data[k]
    BY <2>2 DEF Seen
  <2>4. QED
    BY <1>0, <2>3 DEF Watched
<1>2. CASE \E j \in 1..k : Page(region[j]) \notin mapped
  <2>1. PICK j \in 1..k : Page(region[j]) \notin mapped
    BY <1>2
  <2>2. j \in 1..Len(region) /\ 1 \in 1..Len(region)
    BY <1>0
  <2>3. Unreadable \in held[region[j]]
    BY <1>0, <2>1, <2>2 DEF Seen, Watched
  <2>4. region[j] = region[1] + j - 1 /\ region[k] = region[1] + k - 1 /\ region[1] \in Nat /\ region[j] \in Nat /\ region[j] >= 1
    BY <1>0, <2>2 DEF IsRegion, Consecutive, Addr
  <2>5. region[j] \in 1..region[k]
    <3>1. j \in Nat /\ k \in Nat /\ j <= k
      BY <1>0
    <3>2. \A x \in Nat : x + j - 1 <= x + k - 1
      BY <3>1
    <3>3. region[j] <= region[k]
      BY <2>4, <3>2
    <3>4. region[k] \in Nat
      BY <2>4, <3>1, <3>3
    <3>5. QED
      BY <2>4, <3>3, <3>4
  <2>6. ASSUME NEW c \in region[j]..region[k] PROVE held[c] # {Unreadable}
    <3> DEFINE x == region[1]
    <3>0. x \in Nat /\ j \in Nat /\ 1 <= j /\ k \in Nat /\ k <= Len(region) /\ Len(region) \in Nat
      BY <1>0, <2>4
    <3>1. c - region[1] + 1 \in 1..Len(region) /\ region[1] + (c - region[1] + 1) - 1 = c
      <4>1. c \in (x + j - 1)..(x + k - 1)
        BY <2>4
      <4> HIDE DEF x
      <4>2. c - x + 1 \in 1..Len(region) /\ x + (c - x + 1) - 1 = c
        BY <3>0, <4>1
      <4>3. QED
        BY <4>2 DEF x
    <3>2. region[c - region[1] + 1] = region[1] + (c - region[1] + 1) - 1
      BY <3>1 DEF IsRegion, Consecutive
    <3>3. QED
      BY <3>1, <3>2 DEF IsRegion
  <2>7. QED
    BY <2>3, <2>5, <2>6 DEF TornBefore
<1>3. QED
  BY <1>1, <1>2

LEMMA SoundNext == ASSUME IInv, [Next]_vars PROVE ResultsAreSound'
<1> USE DEF IInv
<1>1. CASE Poke \/ Unmap \/ Map
  <2>1. UNCHANGED <<searchVars, scanVars>>
    BY <1>1, TargetStep
  <2>2. CASE pc = "idle"
    BY <2>1, <2>2, NoRecords DEF ResultsAreSound, Control, scanVars
  <2>3. CASE pc # "idle"
    <3>1. \A a \in Addr : held[a] # {} /\ held[a] \subseteq held'[a]
      BY <1>1, <2>3, TargetStep
    <3>2. ASSUME NEW a \in Addr, TornBefore(a) PROVE TornBefore(a)'
      <4>1. PICK b \in 1..a : Unreadable \in held[b] /\ \A c \in b..a : held[c] # {Unreadable}
        BY <3>2 DEF TornBefore
      <4>2. b \in Addr /\ \A c \in b..a : c \in Addr
        BY SizeAssumption DEF Addr
      <4>3. Unreadable \in held'[b] /\ \A c \in b..a : held'[c] # {Unreadable}
        BY <3>1, <4>1, <4>2
      <4>4. QED
        BY <4>3 DEF TornBefore
    <3>3. \A r \in Records(temp) : r.addr \in Addr
      <4>1. Records(temp) \subseteq Rec
        BY RecordsTyped DEF TInv
      <4>2. QED
        BY <4>1 DEF Rec
    <3>4. QED
      BY <2>1, <3>1, <3>2, <3>3 DEF ResultsAreSound, Satisfies, searchVars, scanVars
  <2>4. QED
    BY <2>2, <2>3
<1>2. CASE Select
  BY <1>2 DEF Select, ResultsAreSound, TornBefore, Satisfies, scanVars
<1>3. CASE BeginSearch
  BY <1>3, BeginStep, NoRecords DEF ResultsAreSound
<1>4. CASE ScanRegion
  <2>1. /\ pc = "first" /\ todo \in Seq(Seq(Addr)) /\ todo # <<>>
        /\ UNCHANGED <<targetVars, searchVars, pc, mode, value, held>>
    BY <1>4, ScanStep
  <2>2. ASSUME NEW r \in Records(temp')
        PROVE  /\ r.value \in held[r.addr] \/ TornBefore(r.addr)
               /\ mode = "exact" => r.value = value
    <3>1. CASE r \in Records(temp)
      BY <2>1, <3>1 DEF ResultsAreSound
    <3>2. CASE r \notin Records(temp)
      <4>1. PICK data, recs : Scans(Head(todo), data, recs)
        BY <1>4, <2>2, <3>2, ScanStep
      <4>2. r \in Elements(recs)
        BY <2>1, <2>2, <3>2, <4>1 DEF Scans, Adds, Committing
      <4>3. PICK k \in 1..Len(Head(todo)) : r = Word(Head(todo), data, k) /\ (mode = "exact" => data[k] = value)
        BY <4>1, <4>2 DEF Scans
      <4>4. Head(todo) \in Seq(Addr) /\ IsRegion(Head(todo))
        <5>1. 1 \in 1..Len(todo) /\ todo[1] = Head(todo) /\ Head(todo) \in Seq(Addr)
          BY <2>1, TailOf
        <5>2. QED
          BY <2>1, <5>1 DEF Regions
      <4>5. data[k] \in held[Head(todo)[k]] \/ TornBefore(Head(todo)[k])
        BY <2>1, <4>1, <4>4, WordsAreHeld DEF Scans
      <4>6. QED
        BY <4>3, <4>5 DEF Word
    <3>3. QED
      BY <3>1, <3>2
  <2>3. QED
    BY <2>1, <2>2 DEF ResultsAreSound, TornBefore
<1>5. CASE RefineChunk
  <2> DEFINE chunk == Head(todo)
  <2>1. /\ pc = "refine" /\ todo \in Seq(Seq(Rec)) /\ todo # <<>>
        /\ UNCHANGED <<targetVars, searchVars, pc, mode, value, held>>
    BY <1>5, RefineStep
  <2>2. ASSUME NEW r \in Records(temp')
        PROVE  /\ r.value \in held[r.addr]
               /\ \E o \in Records(oldFile.chunks) : o.addr = r.addr /\ Satisfies(r.value, o.value)
    <3>1. CASE r \in Records(temp)
      BY <2>1, <3>1 DEF ResultsAreSound
    <3>2. CASE r \notin Records(temp)
      <4>1. PICK recs : Adds(recs) /\ (Wholly(chunk) => Refines(chunk, recs)) /\ (~Wholly(chunk) => mode = "refresh")
        BY <1>5, <2>2, <3>2, RefineStep DEF Refines
      <4>2. Committing /\ r \in Elements(recs)
        BY <2>2, <3>2, <4>1 DEF Adds
      <4>3. Wholly(chunk) /\ Refines(chunk, recs)
        BY <2>1, <4>1, <4>2 DEF Committing
      <4> HIDE DEF chunk
      <4>4. PICK k \in 1..Len(chunk) : /\ Satisfies(mem[chunk[k].addr], chunk[k].value)
                                       /\ r = [addr |-> chunk[k].addr, value |-> mem[chunk[k].addr]]
        BY <4>2, <4>3 DEF Refines
      <4>5. chunk \in Seq(Rec) /\ \E j \in 1..Len(oldFile.chunks) : chunk = oldFile.chunks[j]
        <5>1. 1 \in 1..Len(todo) /\ todo[1] = chunk /\ chunk \in Seq(Rec)
          BY <2>1, TailOf DEF chunk
        <5>2. QED
          BY <2>1, <5>1 DEF FromFile
      <4>6. chunk[k] \in Rec
        BY <4>5, ElementOfSeq
      <4>7. chunk[k].addr \in Addr /\ Page(chunk[k].addr) \in mapped
        BY <4>3, <4>6 DEF Wholly, Rec
      <4>8. r.value \in held[r.addr]
        BY <2>1, <4>4, <4>7 DEF Watched, Seen
      <4>9. chunk[k] \in Records(oldFile.chunks)
        <5>1. chunk[k] \in Elements(chunk) /\ oldFile.chunks \in Seq(Seq(Rec))
          BY DEF Elements, TInv
        <5>2. QED
          BY <4>5, <5>1, RecordsAre
      <4>10. QED
        BY <4>4, <4>8, <4>9
    <3>3. QED
      BY <3>1, <3>2
  <2>3. QED
    BY <2>1, <2>2 DEF ResultsAreSound, Satisfies, searchVars
<1>6. CASE EndSearch
  BY <1>6, EndStep, NoRecords DEF ResultsAreSound
<1>7. CASE UNCHANGED vars
  BY <1>7 DEF ResultsAreSound, TornBefore, Satisfies, vars, searchVars, scanVars
<1>8. QED
  BY <1>1, <1>2, <1>3, <1>4, <1>5, <1>6, <1>7 DEF Next

\* What the target does only takes readings away from those that stay the same.
LEMMA LessSteady ==
  ASSUME TInv, Watched, Poke \/ Unmap \/ Map, pc # "idle"
  PROVE  /\ AllOrNothing' => AllOrNothing
         /\ \A a \in Addr, v \in Value : Steady(a, v)' => Steady(a, v)
         /\ \A a \in Addr : Unreadable \in held[a] => Unreadable \in held'[a]
<1>1. \A a \in Addr : held[a] # {} /\ held[a] \subseteq held'[a]
  BY TargetStep
<1>2. \A a \in Addr, v \in Value \cup {Unreadable} : held'[a] = {v} => held[a] = {v}
  BY <1>1
<1>3. AllOrNothing' => AllOrNothing
  BY <1>1, <1>2 DEF AllOrNothing
<1>4. QED
  BY <1>1, <1>2, <1>3 DEF Steady

LEMMA CoveredNext == ASSUME IInv, [Next]_vars PROVE Covered'
<1> USE DEF IInv
<1>0. Unreadable \notin Value
  BY SizeAssumption DEF Unreadable, Value
<1>1. CASE Poke \/ Unmap \/ Map
  <2> SUFFICES ASSUME pc' = "first", AllOrNothing', NEW a \in Addr, NEW v \in Value, Steady(a, v)', mode' = "exact" => v = value'
               PROVE  \/ [addr |-> a, value |-> v] \in Records(temp')
                      \/ \E i \in 1..Len(todo') : \E k \in 1..Len(todo'[i]) : todo'[i][k] = a
    BY DEF Covered
  <2>1. UNCHANGED <<searchVars, scanVars>> /\ pc = "first"
    BY <1>1, TargetStep DEF scanVars
  <2>2. AllOrNothing /\ Steady(a, v)
    BY <1>1, <2>1, LessSteady
  <2>3. QED
    BY <2>1, <2>2 DEF Covered, scanVars
<1>2. CASE Select
  BY <1>2 DEF Select, Covered, AllOrNothing, Steady, scanVars
<1>3. CASE BeginSearch
  <2> SUFFICES ASSUME pc' = "first", NEW a \in Addr, NEW v \in Value, Steady(a, v)'
               PROVE  \E i \in 1..Len(todo') : \E k \in 1..Len(todo'[i]) : todo'[i][k] = a
    BY DEF Covered
  <2>1. todo' = RescanRegions /\ held'[a] = {Seen(a)}
    BY <1>3, BeginStep
  <2>2. Page(a) \in mapped
    BY <1>0, <2>1 DEF Seen, Steady
  <2>3. QED
    BY <2>1, <2>2, RegionsOf DEF TInv
<1>4. CASE ScanRegion
  <2> DEFINE region == Head(todo)
  <2>1. /\ pc = "first" /\ todo \in Seq(Seq(Addr)) /\ todo # <<>> /\ todo' = Tail(todo)
        /\ UNCHANGED <<targetVars, searchVars, pc, mode, value, held>>
    BY <1>4, ScanStep
  <2> SUFFICES ASSUME AllOrNothing, NEW a \in Addr, NEW v \in Value, Steady(a, v), mode = "exact" => v = value
               PROVE  \/ [addr |-> a, value |-> v] \in Records(temp')
                      \/ \E i \in 1..Len(todo') : \E k \in 1..Len(todo'[i]) : todo'[i][k] = a
    BY <2>1 DEF Covered, AllOrNothing, Steady
  <2>2. region \in Seq(Addr) /\ IsRegion(region)
    <3>1. 1 \in 1..Len(todo) /\ todo[1] = region /\ region \in Seq(Addr)
      BY <2>1, TailOf
    <3>2. QED
      BY <2>1, <3>1 DEF Regions
  <2>3. Len(region) \in Nat /\ Len(region) >= 1 /\ \A k \in 1..Len(region) : region[k] \in Addr
    BY <2>2, LenProperties, ElementOfSeq, SizeAssumption DEF IsRegion
  <2>4. \A k \in 1..Len(region) : Page(region[k]) \in mapped /\ mem[region[k]] \in held[region[k]]
    BY <2>1, <2>2, <2>3 DEF IsRegion, AllOrNothing, Watched, Seen
  <2>5. PICK data, recs : Scans(region, data, recs)
    BY <1>4, <2>3, <2>4, ScanStep
  <2>6. Records(temp') = Records(temp) \cup Elements(recs)
    BY <2>1, <2>5 DEF Scans, Adds, Committing
  <2>7. CASE [addr |-> a, value |-> v] \in Records(temp)
    BY <2>6, <2>7
  <2>8. CASE \E i \in 1..Len(todo) : \E k \in 1..Len(todo[i]) : todo[i][k] = a
    <3>0. PICK i \in 1..Len(todo) : \E k \in 1..Len(todo[i]) : todo[i][k] = a
      BY <2>8
    <3>1. PICK k \in 1..Len(todo[i]) : todo[i][k] = a
      BY <3>0
    <3>2. CASE i = 1
      <4>1. region = todo[i]
        BY <2>1, <3>2, TailOf
      <4>2. k \in 1..Len(region) /\ region[k] = a
        BY <3>1, <4>1
      <4> HIDE DEF region
      <4>3. mem[a] = v
        BY <2>4, <4>2 DEF Steady
      <4>4. data[k] = v
        <5>1. \A j \in 1..k : Page(region[j]) \in mapped
          BY <2>3, <2>4, <4>2
        <5>2. data[k] = mem[region[k]]
          BY <2>5, <4>2, <5>1 DEF Scans, Reads
        <5>3. QED
          BY <4>2, <4>3, <5>2
      <4>5. [addr |-> a, value |-> v] = Word(region, data, k)
        BY <4>2, <4>4 DEF Word
      <4>6. [addr |-> a, value |-> v] \in Elements(recs)
        BY <2>5, <4>2, <4>4, <4>5 DEF Scans
      <4>7. QED
        BY <2>6, <4>6
    <3>3. CASE i # 1
      <4>1. i - 1 \in 1..Len(todo') /\ todo[i] = todo'[i - 1]
        BY <2>1, <3>3, TailOf
      <4>2. QED
        BY <3>1, <4>1
    <3>4. QED
      BY <3>2, <3>3
  <2>9. QED
    BY <2>1, <2>7, <2>8 DEF Covered
<1>5. CASE RefineChunk
  BY <1>5, RefineStep DEF Covered
<1>6. CASE EndSearch
  BY <1>6, EndStep DEF Covered
<1>7. CASE UNCHANGED vars
  BY <1>7 DEF Covered, AllOrNothing, Steady, vars, scanVars
<1>8. QED
  BY <1>1, <1>2, <1>3, <1>4, <1>5, <1>6, <1>7 DEF Next

LEMMA RetainedNext == ASSUME IInv, [Next]_vars PROVE Retained'
<1> USE DEF IInv
<1>1. CASE Poke \/ Unmap \/ Map
  <2>1. UNCHANGED <<searchVars, scanVars>>
    BY <1>1, TargetStep
  <2>2. oldFile' = oldFile /\ pc' = pc /\ mode' = mode /\ value' = value /\ temp' = temp /\ todo' = todo
    BY <2>1 DEF searchVars, scanVars
  <2> SUFFICES ASSUME pc = "refine", mode # "refresh", NEW i \in 1..Len(oldFile.chunks),
                      NEW chunk, chunk = oldFile.chunks[i]
               PROVE  Kept(chunk)'
    BY <2>2 DEF Retained
  <2> SUFFICES ASSUME \A j \in 1..Len(chunk) : Unreadable \notin held'[chunk[j].addr],
                      NEW k \in 1..Len(chunk), NEW v \in Value,
                      held'[chunk[k].addr] = {v}, v # Unreadable, Satisfies(v, chunk[k].value)
               PROVE  \/ [addr |-> chunk[k].addr, value |-> v] \in Records(temp)
                      \/ \E j \in 1..Len(todo) : todo[j] = chunk
    BY <2>2 DEF Kept, Readable, Steady, Satisfies
  <2>3. chunk \in Seq(Rec)
    BY ElementOfSeq DEF TInv
  <2>4. \A j \in 1..Len(chunk) : chunk[j].addr \in Addr
    <3>1. \A j \in 1..Len(chunk) : chunk[j] \in Rec
      BY <2>3, ElementOfSeq
    <3>2. QED
      BY <3>1 DEF Rec
  <2>5. Readable(chunk)
    BY <1>1, <2>4, LessSteady DEF Readable
  <2>6. Steady(chunk[k].addr, v)
    <3>2. chunk[k].addr \in Addr
      BY <2>4
    <3>3. \A a \in Addr : held'[a] = {v} => held[a] = {v}
      BY <1>1, LessSteady DEF Steady
    <3>4. QED
      BY <3>2, <3>3 DEF Steady
  <2>7. QED
    BY <2>5, <2>6 DEF Retained, Kept
<1>2. CASE Select
  BY <1>2 DEF Select, Retained, Kept, Readable, Steady, Satisfies, scanVars
<1>3. CASE BeginSearch
  BY <1>3, BeginStep DEF Retained, Kept, searchVars
<1>4. CASE ScanRegion
  BY <1>4, ScanStep DEF Retained
<1>5. CASE RefineChunk
  <2>1. /\ pc = "refine" /\ todo \in Seq(Seq(Rec)) /\ todo # <<>> /\ todo' = Tail(todo)
        /\ UNCHANGED <<targetVars, searchVars, pc, mode, value, held>> /\ oldFile' = oldFile
    BY <1>5, RefineStep DEF searchVars
  <2> SUFFICES ASSUME mode # "refresh", NEW i \in 1..Len(oldFile.chunks), NEW chunk, chunk = oldFile.chunks[i]
               PROVE  Kept(chunk)'
    BY <2>1 DEF Retained
  <2> SUFFICES ASSUME Readable(chunk), NEW k \in 1..Len(chunk), NEW v \in Value,
                      Steady(chunk[k].addr, v), Satisfies(v, chunk[k].value)
               PROVE  \/ [addr |-> chunk[k].addr, value |-> v] \in Records(temp')
                      \/ \E j \in 1..Len(todo') : todo'[j] = chunk
    BY <2>1 DEF Kept, Readable, Steady, Satisfies
  <2> DEFINE r == [addr |-> chunk[k].addr, value |-> v]
  <2>2. chunk \in Seq(Rec) /\ \A j \in 1..Len(chunk) : chunk[j].addr \in Addr
    <3>1. chunk \in Seq(Rec)
      BY ElementOfSeq DEF TInv
    <3>2. \A j \in 1..Len(chunk) : chunk[j] \in Rec
      BY <3>1, ElementOfSeq
    <3>3. QED
      BY <3>1, <3>2 DEF Rec
  <2>3. Records(temp) \subseteq Records(temp')
    BY <1>5, RefineStep DEF Refines, Adds
  <2>4. CASE r \in Records(temp)
    BY <2>3, <2>4
  <2>5. CASE \E j \in 1..Len(todo) : todo[j] = chunk
    <3>1. PICK j \in 1..Len(todo) : todo[j] = chunk
      BY <2>5
    <3>2. CASE j = 1
      <4>1. Head(todo) = chunk
        BY <2>1, <3>1, <3>2, TailOf
      <4>2. Wholly(chunk)
        BY <2>1, <2>2 DEF Wholly, Readable, Watched, Seen
      <4>3. PICK recs : Refines(chunk, recs)
        BY <1>5, <4>1, <4>2, RefineStep
      <4>4. mem[chunk[k].addr] = v
        BY <2>1, <2>2, <4>2 DEF Wholly, Watched, Seen, Steady
      <4>5. r \in Elements(recs)
        <5>1. Satisfies(mem[chunk[k].addr], chunk[k].value)
          BY <4>4
        <5>2. r = [addr |-> chunk[k].addr, value |-> mem[chunk[k].addr]]
          BY <4>4
        <5> HIDE DEF r
        <5>3. QED
          BY <4>3, <5>1, <5>2 DEF Refines
      <4>6. Committing
        BY <2>1 DEF Committing
      <4>7. r \in Records(temp')
        BY <4>3, <4>5, <4>6 DEF Refines, Adds
      <4>8. QED
        BY <4>7
    <3>3. CASE j # 1
      <4>1. j - 1 \in 1..Len(todo') /\ todo'[j - 1] = chunk
        BY <2>1, <3>1, <3>3, TailOf
      <4>2. QED
        BY <4>1
    <3>4. QED
      BY <3>2, <3>3
  <2>6. QED
    BY <2>1, <2>4, <2>5 DEF Retained, Kept
<1>6. CASE EndSearch
  BY <1>6, EndStep DEF Retained
<1>7. CASE UNCHANGED vars
  <2>1. ASSUME NEW chunk, Kept(chunk) PROVE Kept(chunk)'
    BY <1>7, <2>1 DEF Kept, Readable, Steady, Satisfies, vars, scanVars
  <2>2. QED
    BY <1>7, <2>1 DEF Retained, vars, searchVars, scanVars
<1>8. QED
  BY <1>1, <1>2, <1>3, <1>4, <1>5, <1>6, <1>7 DEF Next

LEMMA AddsCounts ==
  ASSUME TInv, NEW recs, Adds(recs), NEW F \in Seq(Rec), Counts(F)
  PROVE  matchCount' = Len(F \o recs) /\ Lists(list', F \o recs)
<1>1. recs \in Seq(Rec) /\ matchCount' = matchCount + Len(recs) /\ matchCount = Len(F) /\ Lists(list, F)
  BY DEF Adds, Counts
<1>2. Len(F \o recs) = Len(F) + Len(recs)
  BY <1>1, ConcatProperties
<1>3. Lists(list', F \o recs)
  BY <1>1 DEF Adds, ListsMore
<1>4. QED
  BY <1>1, <1>2, <1>3

LEMMA SameAddrs ==
  ASSUME NEW F \in Seq(Rec), NEW r \in Seq(Rec), NEW h \in Seq(Rec), Addrs(r) = Addrs(h),
         NEW l, Len(l) \in Nat, Lists(l, F \o r)
  PROVE  Len(F \o h) = Len(F \o r) /\ Lists(l, F \o h)
<1> DEFINE c == F \o r
           d == F \o h
<1>1. Len(r) = Len(h) /\ \A k \in 1..Len(h) : r[k].addr = h[k].addr
  BY AddrsOfSeq
<1>2. /\ Len(F) \in Nat /\ Len(c) = Len(F) + Len(r)
      /\ \A i \in 1..Len(F) : c[i] = F[i]
      /\ \A k \in 1..Len(r) : c[Len(F) + k] = r[k]
      /\ \A i \in 1..Len(c) : i \in 1..Len(F) \/ \E k \in 1..Len(r) : i = Len(F) + k
  BY ConcatOf
<1>3. /\ Len(d) = Len(F) + Len(h)
      /\ \A i \in 1..Len(F) : d[i] = F[i]
      /\ \A k \in 1..Len(h) : d[Len(F) + k] = h[k]
  BY ConcatOf
<1>4. Lists(l, c) /\ Len(r) \in Nat
  BY LenProperties
<1> HIDE DEF c, d
<1>5. ASSUME NEW i \in 1..Len(c) PROVE c[i].addr = d[i].addr
  <2>1. CASE i \in 1..Len(F)
    BY <1>2, <1>3, <2>1
  <2>2. ASSUME NEW k \in 1..Len(r), i = Len(F) + k PROVE c[i].addr = d[i].addr
    <3>1. c[i] = r[k] /\ d[i] = h[k] /\ r[k].addr = h[k].addr
      BY <1>1, <1>2, <1>3, <2>2
    <3>2. QED
      BY <3>1
  <2>3. QED
    BY <1>2, <2>1, <2>2
<1>6. Len(l) <= Len(c) /\ Len(d) = Len(c) /\ Len(c) \in Nat
  BY <1>1, <1>2, <1>3, <1>4, SizeAssumption DEF Lists
<1>7. Lists(l, d)
  <2>1. \A i \in 1..Len(l) : i \in 1..Len(c)
    BY <1>6
  <2>2. \A i \in 1..Len(l) : l[i].addr = d[i].addr
    BY <1>4, <1>5, <2>1 DEF Lists
  <2>3. QED
    BY <1>4, <1>6, <2>2 DEF Lists
<1>8. QED
  BY <1>1, <1>2, <1>3, <1>7 DEF c, d

LEMMA ListingNext == ASSUME IInv, [Next]_vars PROVE Listing'
<1> USE DEF IInv
<1>0. \A chunks \in Seq(Seq(Rec)) : FlattenSeq(chunks) \in Seq(Rec)
  BY FlattenTyped
<1>1. CASE Poke \/ Unmap \/ Map
  BY <1>1, TargetStep DEF Listing, Committing, Counts, Refreshed, searchVars, scanVars
<1>2. CASE Select
  BY <1>2 DEF Select, Listing, Committing, scanVars
<1>3. CASE BeginSearch
  <2>1. /\ pc' # "idle" /\ temp' = <<>> /\ matchCount' = 0 /\ list' = <<>> /\ oldFile' = oldFile
        /\ pc' = "refine" => todo' = oldFile.chunks
    BY <1>3, BeginStep DEF searchVars
  <2>2. <<>> \in Seq(Rec) /\ 0 = Len(<<>>) /\ Lists(<<>>, <<>>)
    BY SizeAssumption, EmptySeq DEF Lists
  <2>3. Counts(FlattenSeq(temp))'
    BY <2>1, <2>2, FlattenEmpty, Zenon DEF Counts
  <2>4. pc' = "refine" => Refreshed'
    <3>1. FlattenSeq(oldFile.chunks) = <<>> \o FlattenSeq(oldFile.chunks)
      BY <1>0, ConcatEmptySeq DEF TInv
    <3>2. QED
      BY <2>1, <2>2, <3>1, Zenon DEF Refreshed, Counts
  <2>5. QED
    BY <2>1, <2>3, <2>4 DEF Listing
<1>4. CASE ScanRegion
  <2>1. pc = "first" /\ pc' = pc /\ mode' = mode /\ Committing
    BY <1>4, ScanStep DEF Committing
  <2>2. CASE UNCHANGED <<matchCount, temp, list>>
    BY <2>1, <2>2 DEF Listing, Committing, Counts
  <2>3. ASSUME NEW recs, Adds(recs) PROVE Listing'
    <3>1. FlattenSeq(temp') = FlattenSeq(temp) \o recs
      BY <2>1, <2>3 DEF Adds, Appends
    <3>2. Counts(FlattenSeq(temp)) /\ FlattenSeq(temp) \in Seq(Rec)
      BY <1>0, <2>1 DEF Listing, TInv
    <3>3. Counts(FlattenSeq(temp))'
      BY <2>3, <3>1, <3>2, AddsCounts DEF Counts
    <3>4. QED
      BY <2>1, <3>3 DEF Listing
  <2>4. QED
    BY <1>4, <2>2, <2>3, ScanStep DEF Scans
<1>5. CASE RefineChunk
  <2>1. /\ pc = "refine" /\ pc' = pc /\ mode' = mode /\ oldFile' = oldFile
        /\ todo \in Seq(Seq(Rec)) /\ todo # <<>> /\ todo' = Tail(todo)
    BY <1>5, RefineStep DEF searchVars
  <2>2. CASE mode # "refresh"
    <3>0. Committing
      BY <2>1, <2>2 DEF Committing
    <3>1. CASE UNCHANGED <<matchCount, temp, list>>
      BY <2>1, <2>2, <3>1 DEF Listing, Committing, Counts
    <3>2. ASSUME NEW recs, Adds(recs) PROVE Listing'
      <4>1. FlattenSeq(temp') = FlattenSeq(temp) \o recs
        BY <3>0, <3>2 DEF Adds, Appends
      <4>2. Counts(FlattenSeq(temp)) /\ FlattenSeq(temp) \in Seq(Rec)
        BY <1>0, <3>0 DEF Listing, TInv
      <4>3. Counts(FlattenSeq(temp))'
        BY <3>2, <4>1, <4>2, AddsCounts DEF Counts
      <4>4. QED
        BY <2>1, <2>2, <4>3 DEF Listing
    <3>3. QED
      BY <1>5, <2>2, <3>1, <3>2, RefineStep DEF Refines
  <2>3. CASE mode = "refresh"
    <3> DEFINE chunk == Head(todo)
    <3>1. PICK recs : Adds(recs) /\ Addrs(recs) = Addrs(chunk)
      BY <1>5, <2>3, RefineStep DEF Refines
    <3>2. chunk \in Seq(Rec) /\ recs \in Seq(Rec) /\ Tail(todo) \in Seq(Seq(Rec)) /\ FlattenSeq(Tail(todo)) \in Seq(Rec)
      BY <1>0, <2>1, <3>1, HeadTailProperties DEF Adds
    <3>3. PICK done \in Seq(Rec) : FlattenSeq(oldFile.chunks) = done \o FlattenSeq(todo) /\ Counts(done)
      BY <2>1, <2>3 DEF Listing, Refreshed
    <3>4. matchCount' = Len(done \o recs) /\ Lists(list', done \o recs)
      BY <3>1, <3>3, AddsCounts
    <3>5. Len(list') \in Nat
      BY <3>1, LenProperties DEF Adds
    <3>6. FlattenSeq(todo) = chunk \o FlattenSeq(Tail(todo))
      BY <2>1, FlattenTail
    <3> HIDE DEF chunk
    <3>7. matchCount' = Len(done \o chunk) /\ Lists(list', done \o chunk)
      BY <3>1, <3>2, <3>4, <3>5, SameAddrs
    <3>8. done \o chunk \in Seq(Rec) /\ FlattenSeq(oldFile.chunks) = (done \o chunk) \o FlattenSeq(Tail(todo))
      <4>1. done \o chunk \in Seq(Rec)
        BY <3>2, ConcatProperties
      <4> DEFINE rest == FlattenSeq(Tail(todo))
      <4>2. rest \in Seq(Rec)
        BY <3>2
      <4> HIDE DEF rest
      <4>3. (done \o chunk) \o rest = done \o (chunk \o rest)
        <5>1. chunk \in Seq(Rec)
          BY <3>2
        <5>2. QED
          BY <4>2, <5>1, ConcatTwice
      <4>4. QED
        BY <3>3, <3>6, <4>1, <4>3 DEF rest
    <3>9. Refreshed'
      BY <2>1, <3>7, <3>8 DEF Refreshed, Counts
    <3>10. QED
      BY <2>1, <2>3, <3>9 DEF Listing, Committing
  <2>4. QED
    BY <2>2, <2>3
<1>6. CASE EndSearch
  <2>1. pc # "idle" /\ pc' = "idle" /\ todo = <<>> /\ UNCHANGED <<matchCount, list>>
    BY <1>6, EndStep
  <2>2. CASE mode = "refresh" /\ UNCHANGED <<m_ScanCount, oldFile>>
    <3> SUFFICES ASSUME m_ScanCount' > 0 PROVE Counts(FlattenSeq(oldFile.chunks))'
      BY <2>1 DEF Listing, Committing
    <3>1. pc = "refine"
      BY <2>1, <2>2 DEF Control, TInv
    <3>2. PICK done \in Seq(Rec) : FlattenSeq(oldFile.chunks) = done \o FlattenSeq(todo) /\ Counts(done)
      BY <2>2, <3>1 DEF Listing, Refreshed
    <3>3. done \o <<>> = done
      BY ConcatEmptySeq
    <3>4. Counts(FlattenSeq(oldFile.chunks))
      BY <2>1, <3>2, <3>3, FlattenEmpty
    <3>5. QED
      BY <2>1, <2>2, <3>4 DEF Counts
  <2>3. CASE m_ScanCount' = 0
    BY <2>1, <2>3 DEF Listing, Committing
  <2>4. CASE mode # "refresh" /\ oldFile'.chunks = temp
    <3>1. Committing
      BY <2>1, <2>4 DEF Committing, TInv
    <3>2. Counts(FlattenSeq(temp))
      BY <3>1 DEF Listing
    <3>3. Counts(FlattenSeq(oldFile.chunks))'
      BY <2>1, <2>4, <3>2 DEF Counts
    <3>4. QED
      BY <2>1, <3>3 DEF Listing, Committing
  <2>5. QED
    BY <1>6, <2>2, <2>3, <2>4, EndStep
<1>7. CASE UNCHANGED vars
  BY <1>7 DEF Listing, Committing, Counts, Refreshed, vars, searchVars, scanVars
<1>8. QED
  BY <1>1, <1>2, <1>3, <1>4, <1>5, <1>6, <1>7 DEF Next

\* What a step of a scan does to the order: h was read, and v is what is left.
LEMMA SkipOrder ==
  ASSUME NEW f \in Seq(Addr), NEW h \in Seq(Addr), NEW v \in Seq(Addr), Up(f), Up(h \o v), Before(f, h \o v)
  PROVE  Up(v) /\ Before(f, v)
<1>1. <<>> \in Seq(Addr) /\ Sub(<<>>, h) /\ f \o <<>> = f
  BY EmptySeq, ConcatEmptySeq DEF Sub
<1>2. Up(f \o <<>>) /\ Up(v) /\ Before(f \o <<>>, v)
  BY <1>1, UpStep
<1>3. QED
  BY <1>1, <1>2

LEMMA PlacesTyped == ASSUME NEW chunks \in Seq(Seq(Rec)) PROVE Places(chunks) \in Seq(Addr)
<1>1. FlattenSeq(chunks) \in Seq(Rec)
  BY FlattenTyped
<1>2. QED
  BY <1>1, AddrsOfSeq DEF Places

LEMMA AddsOrder ==
  ASSUME TInv, Up(Places(temp)), NEW recs, Adds(recs), NEW h \in Seq(Addr), NEW v \in Seq(Addr), Up(h \o v),
         Before(Places(temp), h \o v), Sub(Addrs(recs), h)
  PROVE  Up(Places(temp')) /\ Up(v) /\ Before(Places(temp'), v)
<1>1. Places(temp) \in Seq(Addr) /\ FlattenSeq(temp) \in Seq(Rec) /\ recs \in Seq(Rec) /\ Addrs(recs) \in Seq(Addr)
  BY PlacesTyped, FlattenTyped, AddrsOfSeq DEF TInv, Adds
<1>2. CASE Committing
  <2>1. FlattenSeq(temp') = FlattenSeq(temp) \o recs
    BY <1>2 DEF Adds, Appends
  <2>2. Places(temp') = Places(temp) \o Addrs(recs)
    BY <1>1, <2>1, AddrsConcat DEF Places
  <2>3. Up(Places(temp) \o Addrs(recs)) /\ Up(v) /\ Before(Places(temp) \o Addrs(recs), v)
    BY <1>1, UpStep
  <2>4. QED
    BY <2>2, <2>3
<1>3. CASE ~Committing
  <2>1. temp' = temp
    BY <1>3 DEF Adds
  <2>2. QED
    BY <1>1, <2>1, SkipOrder
<1>4. QED
  BY <1>2, <1>3

LEMMA OrderNext == ASSUME IInv, [Next]_vars PROVE Order'
<1> USE DEF IInv
<1>0. temp \in Seq(Seq(Rec)) /\ Places(temp) \in Seq(Addr) /\ Up(Places(temp)) /\ Up(Places(oldFile.chunks))
  BY PlacesTyped DEF TInv, Order
<1>00. Places(<<>>) = <<>> /\ Up(<<>>) /\ \A s : Before(<<>>, s)
  BY FlattenEmpty DEF Places, Addrs, Up, Before
<1>1. CASE Poke \/ Unmap \/ Map
  BY <1>1, TargetStep DEF Order, searchVars, scanVars
<1>2. CASE Select
  BY <1>2 DEF Select, Order, scanVars
<1>3. CASE BeginSearch
  <2>1. /\ temp' = <<>> /\ oldFile' = oldFile
        /\ \/ pc' = "first" /\ todo' = RescanRegions
           \/ pc' = "refine" /\ todo' = oldFile.chunks
    BY <1>3, BeginStep DEF searchVars
  <2>2. Up(FlattenSeq(RescanRegions))
    BY RegionsUp DEF TInv
  <2>3. QED
    BY <1>0, <1>00, <2>1, <2>2 DEF Order
<1>4. CASE ScanRegion
  <2> DEFINE h == Head(todo)
             v == FlattenSeq(Tail(todo))
  <2>1. /\ pc = "first" /\ pc' = pc /\ oldFile' = oldFile
        /\ todo \in Seq(Seq(Addr)) /\ todo # <<>> /\ todo' = Tail(todo)
    BY <1>4, ScanStep DEF searchVars
  <2>2. h \in Seq(Addr) /\ v \in Seq(Addr) /\ FlattenSeq(todo) = h \o v
    BY <2>1, HeadTailProperties, FlattenTyped, FlattenTail
  <2>3. FlattenSeq(todo') = v
    BY <2>1
  <2>6. temp' = temp \/ \E recs : Adds(recs) /\ Sub(Addrs(recs), h)
    BY <1>4, ScanStep DEF Scans
  <2> HIDE DEF h, v
  <2>4. Up(h \o v) /\ Before(Places(temp), h \o v)
    BY <2>1, <2>2 DEF Order
  <2>5. Up(Places(temp')) /\ Up(v) /\ Before(Places(temp'), v)
    <3>1. CASE temp' = temp
      BY <1>0, <2>2, <2>4, <3>1, SkipOrder
    <3>2. ASSUME NEW recs, Adds(recs), Sub(Addrs(recs), h) PROVE Up(Places(temp')) /\ Up(v) /\ Before(Places(temp'), v)
      BY <1>0, <2>2, <2>4, <3>2, AddsOrder
    <3>3. QED
      BY <2>6, <3>1, <3>2
  <2>7. QED
    BY <1>0, <2>1, <2>3, <2>5 DEF Order
<1>5. CASE RefineChunk
  <2> DEFINE h == Addrs(Head(todo))
             v == Places(Tail(todo))
  <2>1. /\ pc = "refine" /\ pc' = pc /\ oldFile' = oldFile
        /\ todo \in Seq(Seq(Rec)) /\ todo # <<>> /\ todo' = Tail(todo)
    BY <1>5, RefineStep DEF searchVars
  <2>2. h \in Seq(Addr) /\ v \in Seq(Addr) /\ Places(todo) = h \o v
    <3>1. Head(todo) \in Seq(Rec) /\ Tail(todo) \in Seq(Seq(Rec)) /\ FlattenSeq(Tail(todo)) \in Seq(Rec)
      BY <2>1, HeadTailProperties, FlattenTyped
    <3>2. FlattenSeq(todo) = Head(todo) \o FlattenSeq(Tail(todo))
      BY <2>1, FlattenTail
    <3>3. h \in Seq(Addr) /\ v \in Seq(Addr)
      BY <3>1, AddrsOfSeq, PlacesTyped
    <3>4. Addrs(FlattenSeq(todo)) = h \o v
      BY <3>1, <3>2, AddrsConcat DEF Places
    <3>5. QED
      BY <3>3, <3>4 DEF Places
  <2>3. Places(todo') = v
    BY <2>1
  <2>6. temp' = temp \/ \E recs : Adds(recs) /\ Sub(Addrs(recs), h)
    <3>1. Head(todo) \in Seq(Rec)
      BY <2>1, HeadTailProperties
    <3>2. Sub(h, h)
      BY <3>1, SubOfItself
    <3>3. QED
      BY <1>5, <3>2, RefineStep DEF Refines
  <2> HIDE DEF h, v
  <2>4. Up(h \o v) /\ Before(Places(temp), h \o v)
    BY <2>1, <2>2 DEF Order
  <2>5. Up(Places(temp')) /\ Up(v) /\ Before(Places(temp'), v)
    <3>1. CASE temp' = temp
      BY <1>0, <2>2, <2>4, <3>1, SkipOrder
    <3>2. ASSUME NEW recs, Adds(recs), Sub(Addrs(recs), h) PROVE Up(Places(temp')) /\ Up(v) /\ Before(Places(temp'), v)
      BY <1>0, <2>2, <2>4, <3>2, AddsOrder
    <3>3. QED
      BY <2>6, <3>1, <3>2
  <2>7. QED
    BY <1>0, <2>1, <2>3, <2>5 DEF Order
<1>6. CASE EndSearch
  <2>1. pc' = "idle" /\ temp' = <<>> /\ (oldFile' = oldFile \/ oldFile'.chunks = temp)
    BY <1>6, EndStep
  <2>2. QED
    BY <1>0, <1>00, <2>1 DEF Order
<1>7. CASE UNCHANGED vars
  BY <1>7 DEF Order, vars, searchVars, scanVars
<1>8. QED
  BY <1>1, <1>2, <1>3, <1>4, <1>5, <1>6, <1>7 DEF Next

\* Nothing is counted twice, so no count exceeds the addresses there are.
LEMMA CountFits == ASSUME TInv, Listing, Order, pc # "idle" PROVE matchCount \in 0..Cardinality(Addr)
<1>0. ASSUME NEW chunks \in Seq(Seq(Rec)), Up(Places(chunks))
      PROVE  Len(FlattenSeq(chunks)) \in 0..Cardinality(Addr) /\ Cardinality(Addr) \in Nat
  <2>1. Places(chunks) \in Seq(Addr) /\ Len(Places(chunks)) = Len(FlattenSeq(chunks))
    BY FlattenTyped, AddrsOfSeq DEF Places
  <2>2. QED
    BY <1>0, <2>1, UpBound
<1>1. CASE Committing
  BY <1>0, <1>1 DEF Listing, Counts, Order, TInv
<1>2. CASE ~Committing
  <2>1. pc = "refine" /\ mode = "refresh" /\ todo \in Seq(Seq(Rec)) /\ oldFile.chunks \in Seq(Seq(Rec))
    BY <1>2 DEF Committing, TInv
  <2>2. PICK done \in Seq(Rec) : FlattenSeq(oldFile.chunks) = done \o FlattenSeq(todo) /\ matchCount = Len(done)
    BY <2>1 DEF Listing, Refreshed, Counts
  <2>3. FlattenSeq(todo) \in Seq(Rec)
    BY <2>1, FlattenTyped
  <2>4. Len(FlattenSeq(oldFile.chunks)) = Len(done) + Len(FlattenSeq(todo)) /\ Len(done) \in Nat /\ Len(FlattenSeq(todo)) \in Nat
    BY <2>2, <2>3, ConcatProperties, LenProperties
  <2>5. Len(FlattenSeq(oldFile.chunks)) \in 0..Cardinality(Addr) /\ Cardinality(Addr) \in Nat
    BY <1>0, <2>1 DEF Order
  <2> DEFINE n == Len(FlattenSeq(oldFile.chunks))
             d == Len(done)
             e == Len(FlattenSeq(todo))
             N == Cardinality(Addr)
  <2>6. n = d + e /\ d \in Nat /\ e \in Nat /\ n \in 0..N /\ N \in Nat
    BY <2>4, <2>5
  <2> HIDE DEF n, d, e, N
  <2>7. d \in 0..N
    BY <2>6
  <2>8. QED
    BY <2>2, <2>7 DEF d, N
<1>3. QED
  BY <1>1, <1>2

LEMMA BoundedNext == ASSUME IInv, [Next]_vars PROVE Bounded'
<1> USE DEF IInv
<1>1. CASE Poke \/ Unmap \/ Map
  BY <1>1, TargetStep DEF Bounded, scanVars
<1>2. CASE Select
  BY <1>2 DEF Select, Bounded, scanVars
<1>3. CASE BeginSearch
  BY <1>3, BeginStep DEF Bounded
<1>4. CASE ScanRegion
  BY <1>4, ScanStep DEF Bounded
<1>5. CASE RefineChunk
  BY <1>5, RefineStep DEF Bounded
<1>6. CASE EndSearch
  BY <1>6, EndStep, CountFits DEF Bounded
<1>7. CASE UNCHANGED vars
  BY <1>7 DEF Bounded, vars, scanVars
<1>8. QED
  BY <1>1, <1>2, <1>3, <1>4, <1>5, <1>6, <1>7 DEF Next

LEMMA Preserved == ASSUME ~AnyRefresh, IInv, [Next]_vars PROVE IInv'
BY TypeNext, ControlNext, FormatNext, DumpsNext, RegionsNext, FromFileNext, WatchedNext, CountedNext, SoundNext,
   CoveredNext, RetainedNext, ListingNext, OrderNext, BoundedNext DEF IInv

\* Every state of a search whose client keeps the rule for refreshes is one
\* that the invariant describes.
THEOREM Invariant == ASSUME ~AnyRefresh PROVE Spec => []IInv
<1>1. Init => IInv
  BY Initially
<1>2. IInv /\ [Next]_vars => IInv'
  BY Preserved
<1>3. QED
  BY <1>1, <1>2, PTL DEF Spec
-----------------------------------------------------------------------------
(* What follows from it. *)

\* The sequences of a search hold what they should, and no count exceeds the
\* number of addresses: no scan finds an address twice.
THEOREM TypeCorrect == ASSUME ~AnyRefresh PROVE Spec => []TypeOK
<1>1. ASSUME IInv PROVE TypeOK
  <2>1. Records(oldFile.chunks) \subseteq Rec /\ Records(temp) \subseteq Rec
    BY <1>1, RecordsTyped DEF IInv, TInv
  <2>2. matchCount \in 0..Cardinality(Addr)
    BY <1>1, CountFits DEF IInv, Bounded
  <2>3. QED
    BY <1>1, <2>1, <2>2 DEF IInv, TInv, TypeOK
<1>2. QED
  BY <1>1, Invariant, PTL

\* The list the page shows is the head of the file, in its order, whatever
\* refreshes and scans came between, and the count is that of the file.
THEOREM ListIsHead == ASSUME ~AnyRefresh PROVE Spec => []ListMatchesFile
<1>1. ASSUME IInv PROVE ListMatchesFile
  BY <1>1 DEF IInv, Listing, Counts, Lists, ListMatchesFile
<1>2. QED
  BY <1>1, Invariant, PTL

\* However searches, refreshes and restarts alternate, the flag of CProcess
\* says rightly whether decipio.srch.old is a dump or a list.
THEOREM FlagFitsFile == ASSUME ~AnyRefresh PROVE Spec => []FileFormat
<1>1. IInv => FileFormat
  BY DEF IInv, Format, FileFormat
<1>2. QED
  BY <1>1, Invariant, PTL

\* No result is invented, however the target changes while it is read.
THEOREM SoundResults == ASSUME ~AnyRefresh PROVE Spec => []ResultsAreSound
<1>1. IInv => ResultsAreSound
  BY DEF IInv
<1>2. QED
  BY <1>1, Invariant, PTL

\* An address whose value stays what was searched for is in the result.
THEOREM NothingIsLost == ASSUME ~AnyRefresh PROVE Spec => []NoFalseDismissal
<1>1. ASSUME IInv PROVE NoFalseDismissal
  <2> SUFFICES ASSUME todo = <<>> PROVE NoFalseDismissal
    BY DEF NoFalseDismissal
  <2>0. ~ \E i \in 1..Len(todo) : TRUE
    OBVIOUS
  <2>1. ASSUME pc = "refine", mode # "refresh", NEW i \in 1..Len(oldFile.chunks),
               \A r \in ToSet(oldFile.chunks[i]) : Unreadable \notin held[r.addr],
               NEW r \in ToSet(oldFile.chunks[i]), NEW v \in Value, Steady(r.addr, v), Satisfies(v, r.value)
        PROVE  [addr |-> r.addr, value |-> v] \in Records(temp)
    <3> DEFINE chunk == oldFile.chunks[i]
    <3>1. chunk \in Seq(Rec)
      BY <1>1, ElementOfSeq DEF IInv, TInv
    <3>2. DOMAIN chunk = 1..Len(chunk)
      BY <3>1, LenProperties
    <3>3. Kept(chunk)
      BY <1>1, <2>1 DEF IInv, Retained
    <3> HIDE DEF chunk
    <3>4. ToSet(chunk) = {chunk[k] : k \in 1..Len(chunk)}
      BY <3>2 DEF ToSet
    <3>5. Readable(chunk)
      BY <2>1, <3>4 DEF Readable, chunk
    <3>6. PICK k \in 1..Len(chunk) : r = chunk[k]
      BY <2>1, <3>4 DEF chunk
    <3>7. QED
      BY <2>0, <2>1, <3>3, <3>5, <3>6 DEF Kept
  <2>2. ASSUME pc = "first", AllOrNothing, NEW a \in Addr, NEW v \in Value, Steady(a, v), mode = "exact" => v = value
        PROVE  [addr |-> a, value |-> v] \in Records(temp)
    BY <1>1, <2>0, <2>2 DEF IInv, Covered
  <2>3. QED
    BY <2>1, <2>2 DEF NoFalseDismissal, AllOrNothing
<1>2. QED
  BY <1>1, Invariant, PTL

\* The files and the scan count implement the narrowing set of candidates:
\* a search never adds an address to those the last one kept.
THEOREM Implements == ASSUME ~AnyRefresh PROVE Spec => ImplementsCandidateSearch
<1>1. Init => Candidates!Init
  BY DEF Init, Candidates!Init
<1>2. ASSUME IInv, [Next]_vars PROVE [Candidates!Next]_Candidates!vars
  <2>0. m_ScanCount \in Nat /\ oldFile.chunks \in Seq(Seq(Rec)) /\ temp \in Seq(Seq(Rec))
    BY <1>2, SizeAssumption DEF IInv, TInv
  <2>1. CASE UNCHANGED <<m_ScanCount, oldFile>>
    BY <2>1 DEF Candidates!vars, AddrsOf, Records
  <2>2. CASE m_ScanCount' = 0
    <3>1. CASE m_ScanCount = 0
      BY <2>2, <3>1 DEF Candidates!vars
    <3>2. CASE m_ScanCount > 0
      BY <2>2, <3>2 DEF Candidates!Next, Candidates!StartOver
    <3>3. QED
      BY <2>0, <3>1, <3>2
  <2>3. CASE EndSearch /\ mode # "refresh" /\ matchCount > 0 /\ m_ScanCount' > 0 /\ oldFile'.chunks = temp
    <3>1. AddrsOf(oldFile.chunks)' = AddrsOf(temp)
      BY <2>3 DEF AddrsOf, Records
    <3>2. AddrsOf(temp) \subseteq Addr /\ AddrsOf(temp) # {}
      <4>1. Committing
        BY <1>2, <2>3, EndStep DEF IInv, TInv, Committing
      <4>2. Records(temp) # {}
        BY <1>2, <2>3, <4>1 DEF IInv, Counted
      <4>3. Records(temp) \subseteq Rec
        BY <2>0, RecordsTyped
      <4>4. QED
        BY <4>2, <4>3 DEF AddrsOf, Rec
    <3>3. CASE m_ScanCount = 0
      BY <2>3, <3>1, <3>2, <3>3 DEF Candidates!Next, Candidates!First
    <3>4. CASE m_ScanCount > 0
      <4>1. pc = "refine"
        BY <1>2, <2>3, <3>4, EndStep DEF IInv, TInv, Control
      <4>2. AddrsOf(temp) \subseteq AddrsOf(oldFile.chunks)
        BY <1>2, <4>1 DEF IInv, ResultsAreSound, AddrsOf
      <4>3. QED
        BY <2>3, <3>1, <3>2, <3>4, <4>2 DEF Candidates!Next, Candidates!Narrow
    <3>5. QED
      BY <2>0, <3>3, <3>4
  <2>4. CASE Poke \/ Unmap \/ Map
    BY <1>2, <2>1, <2>4, TargetStep DEF IInv, searchVars
  <2>5. CASE Select
    BY <2>2, <2>5 DEF Select
  <2>6. CASE BeginSearch
    BY <1>2, <2>1, <2>6, BeginStep DEF IInv, searchVars
  <2>7. CASE ScanRegion
    BY <1>2, <2>1, <2>7, ScanStep DEF IInv, searchVars
  <2>8. CASE RefineChunk
    BY <1>2, <2>1, <2>8, RefineStep DEF IInv, searchVars
  <2>9. CASE EndSearch
    BY <1>2, <2>1, <2>2, <2>3, <2>9, EndStep
  <2>10. CASE UNCHANGED vars
    BY <2>1, <2>10 DEF vars, searchVars
  <2>11. QED
    BY <1>2, <2>4, <2>5, <2>6, <2>7, <2>8, <2>9, <2>10 DEF Next
<1>3. QED
  BY <1>1, <1>2, Invariant, PTL DEF Spec, ImplementsCandidateSearch, Candidates!Spec
==============================================================================
