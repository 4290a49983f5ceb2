----------------------------- MODULE PostBodyProofs -----------------------------
(***************************************************************************)
(* Proofs about PostBody: for a buffer of any size, any forms whose texts  *)
(* do not hold the marker, and any way a body is cut into pieces.          *)
(***************************************************************************)
EXTENDS PostBody, SequenceTheorems, FiniteSetTheorems, WellFoundedInduction, TLAPS

\* A body as positions in its message: the parts one behind another, where
\* the headers of part k begin behind PartAt(f, k), and its text behind
\* TextAt(f, k); PartAt is also defined for the end marker.
Header(part) == IF part.file THEN "filename" ELSE "name"
Laid(f) == [i \in DOMAIN f.parts |->
              Start(f) \o <<Header(f.parts[i])>> \o HeadersEnd \o f.parts[i].text \o CRLF]
Fields(f) == [i \in DOMAIN f.parts |-> IF f.parts[i].file THEN <<>> ELSE f.parts[i].text]
Symbols(f) == {"CR", "LF", "-", "B", "name", "filename"}
              \cup UNION {ToSet(part.text) : part \in ToSet(f.parts)}

PartAt(f, k) == Len(FlattenSeq(SubSeq(Laid(f), 1, k - 1)))
TextAt(f, k) == PartAt(f, k) + 10
TextLen(f, k) == Len(f.parts[k].text)
SavedUpTo(f, k) == FlattenSeq(SubSeq(Fields(f), 1, k))

\* From behind place a to place b of the message, and from there to its end.
Piece(f, a, b) == SubSeq(Message(f), a + 1, b)
Places(f) == 0..Len(Message(f))
Holds(a, b) == /\ a <= b
               /\ buf = Piece(form, a, b) /\ rest = Piece(form, b, Len(Message(form)))

\* The first parts and x bytes from the text of part k.
StoredOf(f, k, x) ==
  SavedUpTo(f, k - 1) \o (IF f.parts[k].file THEN <<>> ELSE Piece(f, TextAt(f, k), TextAt(f, k) + x))

Parts(f) == 1..Len(f.parts)

\* Plain data: post_data, the buffer and the rest are the text.
InText ==
  /\ ~form.multipart /\ bss = "find"
  /\ \E a, b \in Places(form) : Holds(a, b) /\ post_data = Piece(form, 0, a)

\* In front of part k, or of the end marker.
InFind ==
  /\ form.multipart /\ bss = "find" /\ accident = "none"
  /\ \E k \in 1..(Len(form.parts) + 1), b \in Places(form) :
       /\ Holds(PartAt(form, k), b)
       /\ post_data = SavedUpTo(form, k - 1)

\* In the text of part k or in the line end behind it.
InContent ==
  /\ form.multipart /\ bss = "content" /\ accident = "none"
  /\ \E k \in Parts(form), b \in Places(form) : \E x \in 0..(TextLen(form, k) + 2) :
       /\ Holds(TextAt(form, k) + x, b)
       /\ isFile = form.parts[k].file
       /\ post_data = StoredOf(form, k, x)

\* Behind the end marker.
InTail ==
  /\ form.multipart /\ bss = "content" /\ Len(buf) + Len(rest) <= 2
  /\ post_data = Saved(form)

TInv ==
  /\ form \in Forms /\ closed \in BOOLEAN
  /\ bss \in {"find", "content"} /\ isFile \in BOOLEAN
  /\ pc \in {"reading"} \cup Outcome /\ accident \in {"none", "short", "late", "unmoved"}
  /\ buf \in Seq(Symbols(form)) /\ Len(buf) <= 2 * BufSize
  /\ post_data \in Seq(Symbols(form))
  /\ \E b \in Places(form) : rest = Piece(form, b, Len(Message(form)))
  /\ Len(post_data) + Len(buf) + Len(rest) <= Len(Message(form))
  /\ pc = "returned" => rest = <<>> /\ buf = <<>>

Progress == accident # "unmoved" /\ pc # "terminated" => InText \/ InFind \/ InContent \/ InTail

Inv == TInv /\ Progress /\ StoredIsPrefix
-----------------------------------------------------------------------------
\* Induction, for a set of numbers: every set of them has a smallest one.
LEMMA Smallest ==
  ASSUME NEW T \in SUBSET Nat, T # {}
  PROVE  \E x \in T : \A y \in T : x <= y
<1> DEFINE R == {ss \in Nat \X Nat : ss[1] < ss[2]}
<1>1. R = OpToRel(<, Nat)
  BY DEF OpToRel
<1>2. IsWellFoundedOn(R, Nat)
  BY <1>1, NatLessThanWellFounded
<1>3. PICK x \in T : \A y \in T : <<y, x>> \notin R
  <2> HIDE DEF R
  <2> QED
    BY <1>2, WFMin
<1>4. ASSUME NEW y \in T PROVE x <= y
  <2>1. x \in Nat /\ y \in Nat
    OBVIOUS
  <2>2. y < x => <<y, x>> \in R
    BY <2>1
  <2>3. QED
    BY <1>3, <2>1, <2>2
<1>5. QED
  BY <1>4

LEMMA Induction ==
  ASSUME NEW T, 0 \in T, \A n \in Nat : n \in T => n + 1 \in T
  PROVE  Nat \subseteq T
<1> SUFFICES ASSUME Nat \ T # {} PROVE FALSE
  OBVIOUS
<1>1. PICK x \in Nat \ T : \A y \in Nat \ T : x <= y
  BY Smallest
<1>2. x # 0 /\ x - 1 \in Nat /\ ~(x <= x - 1)
  BY <1>1
<1>3. x - 1 \in T
  BY <1>1, <1>2
<1>4. x - 1 + 1 = x
  OBVIOUS
<1>5. QED
  BY <1>1, <1>2, <1>3, <1>4
\* How FlattenSeq lays one sequence behind the other.
Flattens(f, m, s) == f = [i \in 1..m |-> IF i = 1 THEN s[i] ELSE f[i - 1] \o s[i]]

LEMMA FlattensExists == ASSUME NEW s, NEW m \in Nat PROVE \E f : Flattens(f, m, s)
<1> DEFINE T == {k \in Nat : \E f : Flattens(f, k, s)}
<1>1. 0 \in T
  <2>1. Flattens([i \in 1..0 |-> s[i]], 0, s)
    BY DEF Flattens
  <2>2. QED
    BY <2>1
<1>2. ASSUME NEW k \in Nat, k \in T PROVE k + 1 \in T
  <2>1. PICK f : Flattens(f, k, s)
    BY <1>2
  <2> DEFINE last == IF k + 1 = 1 THEN s[k + 1] ELSE f[k] \o s[k + 1]
             g == [i \in 1..(k + 1) |-> IF i <= k THEN f[i] ELSE last]
  <2>2. \A i \in 1..k : f[i] = IF i = 1 THEN s[i] ELSE f[i - 1] \o s[i]
    BY <2>1 DEF Flattens
  <2>3. ASSUME NEW i \in 1..(k + 1) PROVE g[i] = IF i = 1 THEN s[i] ELSE g[i - 1] \o s[i]
    <3>1. CASE i \in 1..k
      <4>1. g[i] = f[i] /\ (i # 1 => g[i - 1] = f[i - 1])
        BY <3>1
      <4>2. QED
        BY <2>2, <3>1, <4>1
    <3>2. CASE i = k + 1
      <4>1. g[i] = last /\ (i # 1 => g[i - 1] = f[k])
        BY <3>2
      <4>2. QED
        BY <3>2, <4>1
    <3>3. QED
      BY <3>1, <3>2
  <2>4. Flattens(g, k + 1, s)
    <3>1. g = [i \in 1..(k + 1) |-> g[i]]
      OBVIOUS
    <3> HIDE DEF g
    <3>2. QED
      BY <2>3, <3>1 DEF Flattens
  <2>5. QED
    BY <2>4
<1>3. Nat \subseteq T
  <2> HIDE DEF T
  <2> QED
    BY <1>1, <1>2, Induction
<1>4. QED
  BY <1>3

LEMMA FlattenSteps ==
  ASSUME NEW s, Len(s) \in Nat \ {0}
  PROVE  \E f : Flattens(f, Len(s), s) /\ FlattenSeq(s) = f[Len(s)]
<1> DEFINE f == CHOOSE g : Flattens(g, Len(s), s)
<1>1. Flattens(f, Len(s), s)
  BY FlattensExists, Zenon
<1>2. FlattenSeq(s) = f[Len(s)]
  BY DEF FlattenSeq, Flattens
<1>3. QED
  BY <1>1, <1>2

\* FlattenSeq, one sequence at a time.
LEMMA FlattenAppend ==
  ASSUME NEW S, NEW c \in Seq(Seq(S)), NEW x \in Seq(S)
  PROVE  FlattenSeq(Append(c, x)) = IF c = <<>> THEN x ELSE FlattenSeq(c) \o x
<1> DEFINE d == Append(c, x)
           n == Len(c)
<1>1. /\ d \in Seq(Seq(S)) /\ Len(d) = n + 1 /\ n \in Nat /\ d[n + 1] = x /\ \A i \in 1..n : d[i] = c[i]
  BY AppendProperties, LenProperties
<1>2. c = <<>> <=> n = 0
  BY EmptySeq
<1> HIDE DEF d, n
<1>3. PICK f : Flattens(f, n + 1, d) /\ FlattenSeq(d) = f[n + 1]
  <2>1. Len(d) \in Nat \ {0}
    BY <1>1
  <2>2. \E f : Flattens(f, Len(d), d) /\ FlattenSeq(d) = f[Len(d)]
    BY <2>1, FlattenSteps
  <2>3. QED
    BY <1>1, <2>2
<1>4. f[1] = d[1] /\ \A i, j : i \in 2..(n + 1) /\ j = i - 1 => f[i] = f[j] \o d[i]
  <2>1. \A i \in 1..(n + 1) : f[i] = IF i = 1 THEN d[i] ELSE f[i - 1] \o d[i]
    BY <1>3 DEF Flattens
  <2>2. 1 \in 1..(n + 1) /\ \A i \in 2..(n + 1) : i \in 1..(n + 1) /\ i # 1
    BY <1>1
  <2>3. QED
    BY <2>1, <2>2
<1>5. CASE n = 0
  BY <1>1, <1>2, <1>3, <1>4, <1>5 DEF d
<1>6. CASE n # 0
  <2>1. PICK g : Flattens(g, n, c) /\ FlattenSeq(c) = g[n]
    BY <1>1, <1>6, FlattenSteps DEF n
  <2>2. g[1] = c[1] /\ \A i, j : i \in 2..n /\ j = i - 1 => g[i] = g[j] \o c[i]
    <3>1. \A i \in 1..n : g[i] = IF i = 1 THEN c[i] ELSE g[i - 1] \o c[i]
      BY <2>1 DEF Flattens
    <3>2. 1 \in 1..n /\ \A i \in 2..n : i \in 1..n /\ i # 1
      BY <1>1, <1>6
    <3>3. QED
      BY <3>1, <3>2
  <2> DEFINE T == {i \in Nat : i \in 1..n => f[i] = g[i]}
  <2>3. 0 \in T
    OBVIOUS
  <2>4. ASSUME NEW i \in Nat, i \in T PROVE i + 1 \in T
    <3> SUFFICES ASSUME i + 1 \in 1..n PROVE f[i + 1] = g[i + 1]
      OBVIOUS
    <3>1. i + 1 \in 1..(n + 1) /\ d[i + 1] = c[i + 1] /\ i = (i + 1) - 1
      BY <1>1
    <3>2. CASE i = 0
      BY <1>4, <2>2, <3>1, <3>2
    <3>3. CASE i # 0
      <4>1. f[i] = g[i] /\ i + 1 # 1
        BY <1>1, <2>4, <3>3
      <4>2. f[i + 1] = f[i] \o d[i + 1]
        <5>1. i + 1 \in 2..(n + 1)
          BY <3>1, <4>1
        <5>2. QED
          BY <1>4, <3>1, <5>1, Zenon
      <4>3. g[i + 1] = g[i] \o c[i + 1]
        <5>1. i + 1 \in 2..n
          BY <4>1
        <5>2. QED
          BY <2>2, <3>1, <5>1, Zenon
      <4>4. QED
        BY <3>1, <4>1, <4>2, <4>3
    <3>4. QED
      BY <3>2, <3>3
  <2>5. f[n] = g[n]
    <3>1. Nat \subseteq T
      <4> HIDE DEF T
      <4> QED
        BY <2>3, <2>4, Induction
    <3>2. QED
      BY <1>1, <1>6, <3>1
  <2>6. n + 1 \in 1..(n + 1) /\ n + 1 # 1 /\ n = (n + 1) - 1
    BY <1>1, <1>6
  <2>7. f[n + 1] = f[n] \o d[n + 1]
    <3>1. n + 1 \in 2..(n + 1)
      BY <1>1, <1>6
    <3>2. QED
      BY <1>4, <2>6, <3>1, Zenon
  <2>8. QED
    BY <1>1, <1>2, <1>3, <1>6, <2>1, <2>5, <2>7 DEF d
<1>7. QED
  BY <1>5, <1>6

LEMMA FlattenEmpty == FlattenSeq(<<>>) = <<>>
BY DEF FlattenSeq

LEMMA Cut ==
  ASSUME NEW S, NEW s \in Seq(S), NEW a \in Nat, NEW b \in Nat, a <= b, b <= Len(s)
  PROVE  /\ SubSeq(s, a + 1, b) \in Seq(S)
         /\ Len(SubSeq(s, a + 1, b)) = b - a
         /\ \A i \in 1..(b - a) : SubSeq(s, a + 1, b)[i] = s[a + i]
<1>1. Len(s) \in Nat /\ \A i \in (a + 1)..b : s[i] \in S
  BY LenProperties, ElementOfSeq
<1>2. /\ SubSeq(s, a + 1, b) \in Seq(S)
      /\ Len(SubSeq(s, a + 1, b)) = IF a + 1 <= b THEN b - (a + 1) + 1 ELSE 0
      /\ \A i \in 1..(b - (a + 1) + 1) : SubSeq(s, a + 1, b)[i] = s[(a + 1) + i - 1]
  BY <1>1, SubSeqProperties
<1>3. b - (a + 1) + 1 = b - a /\ (~(a + 1 <= b) => b - a = 0)
  OBVIOUS
<1>4. \A i \in 1..(b - a) : (a + 1) + i - 1 = a + i
  OBVIOUS
<1>5. QED
  BY <1>2, <1>3, <1>4

LEMMA CutFront ==
  ASSUME NEW S, NEW s \in Seq(S), NEW b \in Nat, b <= Len(s)
  PROVE  /\ SubSeq(s, 1, b) \in Seq(S)
         /\ Len(SubSeq(s, 1, b)) = b
         /\ \A i \in 1..b : SubSeq(s, 1, b)[i] = s[i]
<1>1. Len(s) \in Nat /\ \A i \in 1..b : s[i] \in S
  BY LenProperties, ElementOfSeq
<1>2. /\ SubSeq(s, 1, b) \in Seq(S)
      /\ Len(SubSeq(s, 1, b)) = IF 1 <= b THEN b - 1 + 1 ELSE 0
      /\ \A i \in 1..(b - 1 + 1) : SubSeq(s, 1, b)[i] = s[1 + i - 1]
  BY <1>1, SubSeqProperties
<1>3. b - 1 + 1 = b /\ (~(1 <= b) => b = 0) /\ \A i \in 1..b : 1 + i - 1 = i
  OBVIOUS
<1>4. QED
  BY <1>2, <1>3

LEMMA CutJoin ==
  ASSUME NEW S, NEW s \in Seq(S), NEW a \in Nat, NEW b \in Nat, NEW c \in Nat,
         a <= b, b <= c, c <= Len(s)
  PROVE  SubSeq(s, a + 1, b) \o SubSeq(s, b + 1, c) = SubSeq(s, a + 1, c)
<1>1. Len(s) \in Nat
  BY LenProperties
<1>2. a + 1 \in 1..(Len(s) + 1) /\ b \in ((a + 1) - 1)..Len(s) /\ c \in b..Len(s)
  BY <1>1
<1>3. QED
  BY <1>2, ConcatAdjacentSubSeq

\* A cut of a cut.
Inner(s, a, c, i, j) == SubSeq(SubSeq(s, a + 1, c), i + 1, j) = SubSeq(s, a + i + 1, a + j)

LEMMA CutCut ==
  ASSUME NEW S, NEW s \in Seq(S), NEW a \in Nat, NEW c \in Nat, NEW i \in Nat, NEW j \in Nat,
         a <= c, c <= Len(s), i <= j, j <= c - a
  PROVE  Inner(s, a, c, i, j)
<1> DEFINE t == SubSeq(s, a + 1, c)
<1>0. Len(s) \in Nat
  BY LenProperties
<1>1. t \in Seq(S) /\ Len(t) = c - a /\ \A n \in 1..(c - a) : t[n] = s[a + n]
  <2>1. a <= c /\ c <= Len(s)
    OBVIOUS
  <2>2. QED
    BY <2>1, Cut
<1>2. a + i \in Nat /\ a + j \in Nat /\ a + i <= a + j /\ a + j <= Len(s)
  BY <1>0
<1> DEFINE u == SubSeq(t, i + 1, j)
           v == SubSeq(s, (a + i) + 1, a + j)
<1>3. v \in Seq(S) /\ Len(v) = (a + j) - (a + i) /\ \A n \in 1..((a + j) - (a + i)) : v[n] = s[(a + i) + n]
  <2> DEFINE p == a + i
             q == a + j
  <2>1. p \in Nat /\ q \in Nat /\ p <= q /\ q <= Len(s)
    BY <1>2
  <2> HIDE DEF p, q
  <2>2. /\ SubSeq(s, p + 1, q) \in Seq(S) /\ Len(SubSeq(s, p + 1, q)) = q - p
        /\ \A n \in 1..(q - p) : SubSeq(s, p + 1, q)[n] = s[p + n]
    BY <2>1, Cut
  <2>3. QED
    BY <2>2 DEF p, q
<1> HIDE DEF t
<1>4. u \in Seq(S) /\ Len(u) = j - i /\ \A n \in 1..(j - i) : u[n] = t[i + n]
  BY <1>1, Cut
<1>5. (a + j) - (a + i) = j - i /\ \A n \in 1..(j - i) : i + n \in 1..(c - a) /\ a + (i + n) = (a + i) + n
  OBVIOUS
<1> HIDE DEF u, v
<1>6. Len(u) = Len(v) /\ \A n \in 1..Len(u) : u[n] = v[n]
  <2>1. Len(u) = j - i /\ Len(v) = j - i
    BY <1>3, <1>4, <1>5
  <2>2. ASSUME NEW n \in 1..(j - i) PROVE u[n] = v[n]
    <3>1. u[n] = t[i + n] /\ t[i + n] = s[a + (i + n)]
      BY <1>1, <1>4, <1>5
    <3>2. v[n] = s[(a + i) + n]
      BY <1>3, <1>5
    <3>3. QED
      BY <1>5, <3>1, <3>2
  <2>3. QED
    BY <2>1, <2>2
<1>7. u = v
  BY <1>3, <1>4, <1>6, SeqEqual
<1>8. QED
  BY <1>7 DEF u, v, t, Inner

\* What the concatenation of two sequences is, place by place.
Glued(S, r, p, q) ==
  /\ r \in Seq(S) /\ Len(r) = Len(p) + Len(q)
  /\ \A i \in 1..Len(p) : r[i] = p[i]
  /\ \A i \in 1..Len(q) : r[Len(p) + i] = q[i]

LEMMA Glue ==
  ASSUME NEW S, NEW p \in Seq(S), NEW q \in Seq(S)
  PROVE  Glued(S, p \o q, p, q)
<1> DEFINE r == p \o q
<1>1. /\ r \in Seq(S) /\ Len(r) = Len(p) + Len(q)
      /\ \A i \in 1..(Len(p) + Len(q)) : r[i] = IF i <= Len(p) THEN p[i] ELSE q[i - Len(p)]
  BY ConcatProperties
<1>2. Len(p) \in Nat /\ Len(q) \in Nat
  BY LenProperties
<1> HIDE DEF r
<1>3. \A i \in 1..Len(p) : r[i] = p[i]
  BY <1>1, <1>2
<1>4. ASSUME NEW i \in 1..Len(q) PROVE r[Len(p) + i] = q[i]
  <2>1. /\ Len(p) + i \in 1..(Len(p) + Len(q)) /\ ~(Len(p) + i <= Len(p))
        /\ (Len(p) + i) - Len(p) = i
    BY <1>2
  <2>2. QED
    BY <1>1, <2>1
<1>5. Glued(S, r, p, q)
  BY <1>1, <1>3, <1>4 DEF Glued
<1>6. QED
  BY <1>5 DEF r
-----------------------------------------------------------------------------
\* memmem finds the first place of all.
Hit(s, t, i) == i \in 1..(Len(s) - Len(t) + 1) /\ SubSeq(s, i, i + Len(t) - 1) = t

LEMMA FirstHit ==
  ASSUME NEW s, NEW t, Len(s) \in Nat, Len(t) \in Nat
  PROVE  /\ memmem(s, t) \in Nat
         /\ memmem(s, t) = 0 => \A i : ~Hit(s, t, i)
         /\ memmem(s, t) # 0 => Hit(s, t, memmem(s, t)) /\ \A i : Hit(s, t, i) => memmem(s, t) <= i
<1> DEFINE hits == {i \in 1..(Len(s) - Len(t) + 1) : SubSeq(s, i, i + Len(t) - 1) = t}
<1>1. \A i : Hit(s, t, i) <=> i \in hits
  BY DEF Hit
<1>2. memmem(s, t) = IF hits = {} THEN 0 ELSE CHOOSE x \in hits : \A y \in hits : x <= y
  BY DEF memmem, Min
<1>3. hits \in SUBSET Nat /\ 0 \notin hits
  OBVIOUS
<1> HIDE DEF hits
<1>4. hits # {} => memmem(s, t) \in hits /\ \A y \in hits : memmem(s, t) <= y
  BY <1>2, <1>3, Smallest
<1>5. hits = {} => memmem(s, t) = 0
  BY <1>2
<1>6. CASE hits = {}
  <2>1. \A i : ~Hit(s, t, i)
    BY <1>1, <1>6
  <2>2. QED
    BY <1>5, <1>6, <2>1
<1>7. CASE hits # {}
  <2>1. memmem(s, t) \in hits /\ \A y \in hits : memmem(s, t) <= y
    BY <1>4, <1>7
  <2>2. memmem(s, t) \in Nat /\ memmem(s, t) # 0
    BY <1>3, <2>1
  <2>3. Hit(s, t, memmem(s, t)) /\ \A i : Hit(s, t, i) => memmem(s, t) <= i
    BY <1>1, <2>1, Zenon
  <2>4. QED
    BY <2>2, <2>3
<1>8. QED
  BY <1>6, <1>7

LEMMA PrefixOfConcat ==
  ASSUME NEW S, NEW p \in Seq(S), NEW q \in Seq(S)
  PROVE  IsPrefix(p, p \o q)
<1>1. /\ p \o q \in Seq(S) /\ Len(p \o q) = Len(p) + Len(q)
      /\ \A i \in 1..(Len(p) + Len(q)) : (p \o q)[i] = IF i <= Len(p) THEN p[i] ELSE q[i - Len(p)]
  BY ConcatProperties
<1>2. Len(p) \in Nat /\ Len(q) \in Nat
  BY LenProperties
<1> DEFINE r == p \o q
<1> HIDE DEF r
<1>3. r \in Seq(S) /\ Len(p) <= Len(r)
  BY <1>1, <1>2 DEF r
<1>4. /\ SubSeq(r, 0 + 1, Len(p)) \in Seq(S) /\ Len(SubSeq(r, 0 + 1, Len(p))) = Len(p) - 0
      /\ \A i \in 1..(Len(p) - 0) : SubSeq(r, 0 + 1, Len(p))[i] = r[0 + i]
  BY <1>2, <1>3, Cut
<1> DEFINE u == SubSeq(r, 1, Len(p))
<1>5. u \in Seq(S) /\ Len(u) = Len(p) /\ \A i \in 1..Len(p) : u[i] = r[i]
  BY <1>2, <1>4
<1> HIDE DEF u
<1>6. \A i \in 1..Len(p) : r[i] = p[i]
  BY <1>1, <1>2 DEF r
<1>7. u = p
  BY <1>5, <1>6, SeqEqual
<1>8. SubSeq(p, 1, Len(p)) = p
  BY SubSeqFull
<1>9. QED
  BY <1>3, <1>7, <1>8 DEF u, r, IsPrefix

LEMMA SuffixOfConcat ==
  ASSUME NEW S, NEW p \in Seq(S), NEW q \in Seq(S)
  PROVE  IsSuffix(q, p \o q)
<1>1. /\ p \o q \in Seq(S) /\ Len(p \o q) = Len(p) + Len(q)
      /\ \A i \in 1..(Len(p) + Len(q)) : (p \o q)[i] = IF i <= Len(p) THEN p[i] ELSE q[i - Len(p)]
  BY ConcatProperties
<1>2. Len(p) \in Nat /\ Len(q) \in Nat
  BY LenProperties
<1>3. /\ \A i \in 1..Len(p) : p[i] \in S
      /\ \A i \in 1..Len(q) : q[i] \in S
  BY ElementOfSeq
<1> DEFINE m == Len(p)
           n == Len(q)
           r == p \o q
           rp == [i \in 1..m |-> p[(m - i) + 1]]
           rq == [i \in 1..n |-> q[(n - i) + 1]]
           rr == [i \in 1..(m + n) |-> r[((m + n) - i) + 1]]
<1>4. Reverse(q) = rq /\ Reverse(r) = rr
  BY <1>1 DEF Reverse
<1>5. rq \in [1..n -> S] /\ rp \in [1..m -> S]
  <2>1. \A i \in 1..n : (n - i) + 1 \in 1..n
    BY <1>2
  <2>2. \A i \in 1..m : (m - i) + 1 \in 1..m
    BY <1>2
  <2>3. QED
    BY <1>3, <2>1, <2>2
<1>6. rq \in Seq(S) /\ Len(rq) = n /\ rp \in Seq(S) /\ Len(rp) = m
  BY <1>2, <1>5
<1>7. /\ \A i \in 1..n : rr[i] = rq[i]
      /\ \A i \in (n + 1)..(m + n) : rr[i] = rp[i - n]
  <2>1. ASSUME NEW i \in 1..n PROVE rr[i] = rq[i]
    <3>1. i \in 1..(m + n) /\ ((m + n) - i) + 1 \in 1..(m + n) /\ ~(((m + n) - i) + 1 <= m)
          /\ ((m + n) - i) + 1 - m = (n - i) + 1
      BY <1>2
    <3>2. r[((m + n) - i) + 1] = q[(n - i) + 1]
      BY <1>1, <3>1
    <3>3. QED
      BY <3>1, <3>2
  <2>2. ASSUME NEW i \in (n + 1)..(m + n) PROVE rr[i] = rp[i - n]
    <3>1. i \in 1..(m + n) /\ i - n \in 1..m /\ ((m + n) - i) + 1 \in 1..(m + n) /\ ((m + n) - i) + 1 <= m
          /\ ((m + n) - i) + 1 = (m - (i - n)) + 1
      BY <1>2
    <3>2. r[((m + n) - i) + 1] = p[((m + n) - i) + 1]
      BY <1>1, <3>1
    <3>3. rr[i] = r[((m + n) - i) + 1] /\ rp[i - n] = p[(m - (i - n)) + 1]
      BY <3>1
    <3>4. QED
      BY <3>1, <3>2, <3>3, Zenon
  <2>3. QED
    BY <2>1, <2>2
<1>8. DOMAIN rr = 1..(m + n)
  OBVIOUS
<1> HIDE DEF rr, rp, rq
<1> DEFINE w == rq \o rp
<1>9. w \in Seq(S) /\ Len(w) = n + m /\ \A i \in 1..(n + m) : w[i] = IF i <= n THEN rq[i] ELSE rp[i - n]
  <2>1. /\ w \in Seq(S) /\ Len(w) = Len(rq) + Len(rp)
        /\ \A i \in 1..(Len(rq) + Len(rp)) : w[i] = IF i <= Len(rq) THEN rq[i] ELSE rp[i - Len(rq)]
    BY <1>6, ConcatProperties
  <2>2. QED
    BY <1>6, <2>1, Zenon
<1>10. rr = w
  <2>1. rr \in [1..(m + n) -> S]
    <3>1. \A i \in 1..(m + n) : r[((m + n) - i) + 1] \in S
      <4>1. \A i \in 1..(m + n) : ((m + n) - i) + 1 \in 1..(m + n)
        BY <1>2
      <4>2. \A j \in 1..(m + n) : r[j] \in S
        BY <1>1, ElementOfSeq
      <4>3. QED
        BY <4>1, <4>2
    <3>2. QED
      BY <3>1 DEF rr
  <2>2. rr \in Seq(S) /\ Len(rr) = m + n /\ m + n = n + m
    <3>1. m + n \in Nat /\ m + n = n + m
      BY <1>2
    <3> DEFINE k == m + n
    <3>2. k \in Nat /\ rr \in [1..k -> S] /\ DOMAIN rr = 1..k
      BY <1>8, <2>1, <3>1
    <3> HIDE DEF k
    <3>3. rr \in Seq(S) /\ Len(rr) = k
      BY <3>2
    <3>4. QED
      BY <3>1, <3>3 DEF k
  <2>3. \A i \in 1..Len(rr) : rr[i] = w[i]
    <3> SUFFICES ASSUME NEW i \in 1..(m + n) PROVE rr[i] = w[i]
      BY <2>2
    <3>1. CASE i <= n
      BY <1>2, <1>7, <1>9, <3>1
    <3>2. CASE ~(i <= n)
      <4>1. i \in (n + 1)..(m + n) /\ i \in 1..(n + m)
        BY <1>2, <3>2
      <4>2. QED
        BY <1>7, <1>9, <3>2, <4>1
    <3>3. QED
      BY <3>1, <3>2
  <2> HIDE DEF w
  <2>4. QED
    BY <1>9, <2>2, <2>3, SeqEqual
<1>11. IsPrefix(rq, w)
  BY <1>6, PrefixOfConcat
<1>12. QED
  BY <1>4, <1>10, <1>11 DEF IsSuffix
-----------------------------------------------------------------------------
Assoc(p, q, r) == (p \o q) \o r = p \o (q \o r)

LEMMA ConcatTwice ==
  ASSUME NEW S, NEW p \in Seq(S), NEW q \in Seq(S), NEW r \in Seq(S)
  PROVE  Assoc(p, q, r)
BY DEF Assoc

\* The first sequences of several, one behind another.
Layers(s, k) == FlattenSeq(SubSeq(s, 1, k))

LEMMA LayersStart == ASSUME NEW s PROVE Layers(s, 0) = <<>>
<1>1. SubSeq(s, 1, 0) = <<>>
  BY SubSeqEmpty
<1>2. QED
  BY <1>1, FlattenEmpty DEF Layers

LEMMA LayersNext ==
  ASSUME NEW S, NEW s \in Seq(Seq(S)), NEW k \in Nat, k < Len(s), Layers(s, k) \in Seq(S)
  PROVE  /\ Layers(s, k + 1) = Layers(s, k) \o s[k + 1]
         /\ Layers(s, k + 1) \in Seq(S)
<1>1. Len(s) \in Nat /\ k + 1 \in 1..Len(s) /\ s[k + 1] \in Seq(S)
  BY LenProperties, ElementOfSeq
<1> DEFINE c == SubSeq(s, 1, k)
           d == SubSeq(s, 1, k + 1)
<1>2. c \in Seq(Seq(S)) /\ Len(c) = k /\ \A i \in 1..k : c[i] = s[i]
  <2>1. /\ SubSeq(s, 0 + 1, k) \in Seq(Seq(S)) /\ Len(SubSeq(s, 0 + 1, k)) = k - 0
        /\ \A i \in 1..(k - 0) : SubSeq(s, 0 + 1, k)[i] = s[0 + i]
    BY <1>1, Cut
  <2>2. QED
    BY <2>1
<1>3. d \in Seq(Seq(S)) /\ Len(d) = k + 1 /\ \A i \in 1..(k + 1) : d[i] = s[i]
  <2>1. /\ SubSeq(s, 0 + 1, k + 1) \in Seq(Seq(S)) /\ Len(SubSeq(s, 0 + 1, k + 1)) = (k + 1) - 0
        /\ \A i \in 1..((k + 1) - 0) : SubSeq(s, 0 + 1, k + 1)[i] = s[0 + i]
    BY <1>1, Cut
  <2>2. QED
    BY <2>1
<1> HIDE DEF c, d
<1>4. d = Append(c, s[k + 1])
  <2> DEFINE a == Append(c, s[k + 1])
  <2>1. /\ a \in Seq(Seq(S)) /\ Len(a) = Len(c) + 1 /\ a[Len(c) + 1] = s[k + 1]
        /\ \A i \in 1..Len(c) : a[i] = c[i]
    BY <1>1, <1>2, AppendProperties
  <2> HIDE DEF a
  <2>2. \A i \in 1..(k + 1) : i \in 1..k \/ i = k + 1
    OBVIOUS
  <2>3. \A i \in 1..(k + 1) : d[i] = a[i]
    BY <1>2, <1>3, <2>1, <2>2
  <2>4. Len(d) = Len(a)
    BY <1>2, <1>3, <2>1
  <2>5. \A i \in 1..Len(d) : d[i] = a[i]
    BY <1>3, <2>3
  <2>6. d = a
    BY <1>3, <2>1, <2>4, <2>5, SeqEqual
  <2>7. QED
    BY <2>6 DEF a
<1>5. FlattenSeq(d) = IF c = <<>> THEN s[k + 1] ELSE FlattenSeq(c) \o s[k + 1]
  BY <1>1, <1>2, <1>4, FlattenAppend
<1>6. <<>> \o s[k + 1] = s[k + 1]
  BY <1>1, ConcatEmptySeq
<1>7. FlattenSeq(d) = FlattenSeq(c) \o s[k + 1]
  BY <1>5, <1>6, FlattenEmpty
<1>8. Layers(s, k) \o s[k + 1] \in Seq(S)
  BY <1>1, ConcatProperties
<1>9. QED
  BY <1>7, <1>8 DEF Layers, c, d

LEMMA LayersTyped ==
  ASSUME NEW S, NEW s \in Seq(Seq(S)), NEW k \in Nat, k <= Len(s)
  PROVE  Layers(s, k) \in Seq(S)
<1> DEFINE T == {j \in Nat : j <= Len(s) => Layers(s, j) \in Seq(S)}
<1>0. Len(s) \in Nat
  BY LenProperties
<1>1. 0 \in T
  <2>1. <<>> \in Seq(S)
    BY EmptySeq
  <2>2. QED
    BY <2>1, LayersStart
<1>2. ASSUME NEW j \in Nat, j \in T PROVE j + 1 \in T
  <2> SUFFICES ASSUME j + 1 <= Len(s) PROVE Layers(s, j + 1) \in Seq(S)
    OBVIOUS
  <2>1. j < Len(s) /\ j <= Len(s)
    BY <1>0
  <2>2. Layers(s, j) \in Seq(S)
    BY <1>2, <2>1
  <2>3. QED
    BY <2>1, <2>2, LayersNext
<1>3. Nat \subseteq T
  <2> HIDE DEF T
  <2> QED
    BY <1>1, <1>2, Induction
<1>4. QED
  BY <1>3

Extends(S, s, k, m) == \E q \in Seq(S) : Layers(s, m) = Layers(s, k) \o q

LEMMA LayersGrow ==
  ASSUME NEW S, NEW s \in Seq(Seq(S)), NEW k \in Nat, NEW m \in Nat, k <= m, m <= Len(s)
  PROVE  Extends(S, s, k, m)
<1> DEFINE T == {j \in Nat : k <= j /\ j <= Len(s) => Extends(S, s, k, j)}
<1>0. Len(s) \in Nat /\ Layers(s, k) \in Seq(S)
  BY LenProperties, LayersTyped
<1>1. k \in T
  <2>1. <<>> \in Seq(S) /\ Layers(s, k) \o <<>> = Layers(s, k)
    BY <1>0, EmptySeq, ConcatEmptySeq
  <2>2. Extends(S, s, k, k)
    BY <2>1, Zenon DEF Extends
  <2>3. QED
    BY <2>2
<1>2. 0 \in T
  <2>1. CASE k = 0
    BY <1>1, <2>1
  <2>2. CASE k # 0
    BY <2>2
  <2>3. QED
    BY <2>1, <2>2
<1>3. ASSUME NEW j \in Nat, j \in T PROVE j + 1 \in T
  <2> SUFFICES ASSUME k <= j + 1, j + 1 <= Len(s)
               PROVE  Extends(S, s, k, j + 1)
    OBVIOUS
  <2>1. CASE k = j + 1
    BY <1>1, <2>1
  <2>2. CASE k # j + 1
    <3>1. k <= j /\ j < Len(s) /\ j <= Len(s)
      BY <1>0, <2>2
    <3>2. PICK q \in Seq(S) : Layers(s, j) = Layers(s, k) \o q
      <4>1. Extends(S, s, k, j)
        BY <1>3, <3>1
      <4>2. QED
        BY <4>1 DEF Extends
    <3>3. Layers(s, j) \in Seq(S)
      BY <3>1, LayersTyped
    <3>4. Layers(s, j + 1) = Layers(s, j) \o s[j + 1]
      BY <3>1, <3>3, LayersNext
    <3>5. s[j + 1] \in Seq(S)
      BY <1>0, <2>2, ElementOfSeq
    <3>6. q \o s[j + 1] \in Seq(S)
      BY <3>2, <3>5, ConcatProperties
    <3>7. (Layers(s, k) \o q) \o s[j + 1] = Layers(s, k) \o (q \o s[j + 1])
      <4> DEFINE p == Layers(s, k)
                 r == s[j + 1]
      <4>1. p \in Seq(S) /\ q \in Seq(S) /\ r \in Seq(S)
        BY <1>0, <3>2, <3>5
      <4> HIDE DEF p, r
      <4>2. (p \o q) \o r = p \o (q \o r)
        <5>1. Assoc(p, q, r)
          BY <4>1, ConcatTwice
        <5>2. QED
          BY <5>1 DEF Assoc
      <4>3. QED
        BY <4>2 DEF p, r
    <3>8. Layers(s, j + 1) = Layers(s, k) \o (q \o s[j + 1])
      BY <3>2, <3>4, <3>7, Zenon
    <3>9. \E r \in Seq(S) : Layers(s, j + 1) = Layers(s, k) \o r
      <4> DEFINE r == q \o s[j + 1]
      <4>1. r \in Seq(S) /\ Layers(s, j + 1) = Layers(s, k) \o r
        BY <3>6, <3>8
      <4> HIDE DEF r
      <4>2. QED
        BY <4>1, Zenon
    <3>10. QED
      BY <3>9 DEF Extends
  <2>3. QED
    BY <2>1, <2>2
<1>4. Nat \subseteq T
  <2> HIDE DEF T
  <2> QED
    BY <1>2, <1>3, Induction
<1>5. QED
  BY <1>4
-----------------------------------------------------------------------------
\* Sequences written out, joined.
LEMMA JoinedIs ==
  ASSUME NEW S, NEW p \in Seq(S), NEW q \in Seq(S), NEW r \in Seq(S), Len(r) = Len(p) + Len(q),
         \A i \in 1..Len(p) : r[i] = p[i], \A i \in 1..Len(q) : r[Len(p) + i] = q[i]
  PROVE  p \o q = r
<1>1. /\ p \o q \in Seq(S) /\ Len(p \o q) = Len(p) + Len(q)
      /\ \A i \in 1..(Len(p) + Len(q)) : (p \o q)[i] = IF i <= Len(p) THEN p[i] ELSE q[i - Len(p)]
  BY ConcatProperties
<1> DEFINE w == p \o q
           m == Len(p)
           n == Len(q)
<1>0. m \in Nat /\ n \in Nat
  BY LenProperties
<1>2. w \in Seq(S) /\ Len(w) = m + n /\ \A i \in 1..(m + n) : w[i] = IF i <= m THEN p[i] ELSE q[i - m]
  BY <1>1, Zenon
<1>21. Len(r) = m + n /\ \A i \in 1..m : r[i] = p[i]
  OBVIOUS
<1>22. \A i \in 1..n : r[m + i] = q[i]
  OBVIOUS
<1> HIDE DEF w, m, n
<1>3. ASSUME NEW i \in 1..(m + n) PROVE w[i] = r[i]
  <2>1. CASE i <= m
    <3>1. i \in 1..m
      BY <1>0, <2>1
    <3>2. QED
      BY <1>2, <1>21, <2>1, <3>1
  <2>2. CASE ~(i <= m)
    <3>1. i - m \in 1..n /\ m + (i - m) = i
      BY <1>0, <2>2
    <3>2. r[m + (i - m)] = q[i - m]
      BY <1>22, <3>1
    <3>3. QED
      BY <1>2, <2>2, <3>1, <3>2
  <2>3. QED
    BY <2>1, <2>2
<1>4. w = r
  BY <1>2, <1>21, <1>3, SeqEqual
<1>5. QED
  BY <1>4 DEF w

LEMMA Tuple21 ==
  ASSUME NEW a, NEW b, NEW c
  PROVE  <<a, b>> \o <<c>> = <<a, b, c>>
<1> DEFINE S == {a, b, c}
           p == <<a, b>>
           q == <<c>>
           r == <<a, b, c>>
<1>1. p \in Seq(S) /\ q \in Seq(S) /\ r \in Seq(S)
  OBVIOUS
<1>2. Len(p) = 2 /\ Len(q) = 1 /\ Len(r) = 2 + 1
  OBVIOUS
<1>3. (\A i \in 1..2 : r[i] = p[i]) /\ \A i \in 1..1 : r[2 + i] = q[i]
  OBVIOUS
<1> HIDE DEF p, q, r, S
<1>4. Len(r) = Len(p) + Len(q) /\ (\A i \in 1..Len(p) : r[i] = p[i]) /\ \A i \in 1..Len(q) : r[Len(p) + i] = q[i]
  BY <1>2, <1>3, Zenon
<1>5. p \o q = r
  BY <1>1, <1>4, JoinedIs
<1>6. QED
  BY <1>5 DEF p, q, r

LEMMA Tuple22 ==
  ASSUME NEW a, NEW b, NEW c, NEW d
  PROVE  <<a, b>> \o <<c, d>> = <<a, b, c, d>>
<1> DEFINE S == {a, b, c, d}
           p == <<a, b>>
           q == <<c, d>>
           r == <<a, b, c, d>>
<1>1. p \in Seq(S) /\ q \in Seq(S) /\ r \in Seq(S)
  OBVIOUS
<1>2. Len(p) = 2 /\ Len(q) = 2 /\ Len(r) = 2 + 2
  OBVIOUS
<1>3. (\A i \in 1..2 : r[i] = p[i]) /\ \A i \in 1..2 : r[2 + i] = q[i]
  OBVIOUS
<1> HIDE DEF p, q, r, S
<1>4. Len(r) = Len(p) + Len(q) /\ (\A i \in 1..Len(p) : r[i] = p[i]) /\ \A i \in 1..Len(q) : r[Len(p) + i] = q[i]
  BY <1>2, <1>3, Zenon
<1>5. p \o q = r
  BY <1>1, <1>4, JoinedIs
<1>6. QED
  BY <1>5 DEF p, q, r

LEMMA Tuple32 ==
  ASSUME NEW a, NEW b, NEW c, NEW d, NEW e
  PROVE  <<a, b, c>> \o <<d, e>> = <<a, b, c, d, e>>
<1> DEFINE S == {a, b, c, d, e}
           p == <<a, b, c>>
           q == <<d, e>>
           r == <<a, b, c, d, e>>
<1>1. p \in Seq(S) /\ q \in Seq(S) /\ r \in Seq(S)
  OBVIOUS
<1>2. Len(p) = 3 /\ Len(q) = 2 /\ Len(r) = 3 + 2
  OBVIOUS
<1>3. (\A i \in 1..3 : r[i] = p[i]) /\ \A i \in 1..2 : r[3 + i] = q[i]
  OBVIOUS
<1> HIDE DEF p, q, r, S
<1>4. Len(r) = Len(p) + Len(q) /\ (\A i \in 1..Len(p) : r[i] = p[i]) /\ \A i \in 1..Len(q) : r[Len(p) + i] = q[i]
  BY <1>2, <1>3, Zenon
<1>5. p \o q = r
  BY <1>1, <1>4, JoinedIs
<1>6. QED
  BY <1>5 DEF p, q, r

LEMMA Tuple51 ==
  ASSUME NEW a, NEW b, NEW c, NEW d, NEW e, NEW h
  PROVE  <<a, b, c, d, e>> \o <<h>> = <<a, b, c, d, e, h>>
<1> DEFINE S == {a, b, c, d, e, h}
           p == <<a, b, c, d, e>>
           q == <<h>>
           r == <<a, b, c, d, e, h>>
<1>1. p \in Seq(S) /\ q \in Seq(S) /\ r \in Seq(S)
  OBVIOUS
<1>2. Len(p) = 5 /\ Len(q) = 1 /\ Len(r) = 5 + 1
  OBVIOUS
<1>3. (\A i \in 1..5 : r[i] = p[i]) /\ \A i \in 1..1 : r[5 + i] = q[i]
  OBVIOUS
<1> HIDE DEF p, q, r, S
<1>4. Len(r) = Len(p) + Len(q) /\ (\A i \in 1..Len(p) : r[i] = p[i]) /\ \A i \in 1..Len(q) : r[Len(p) + i] = q[i]
  BY <1>2, <1>3, Zenon
<1>5. p \o q = r
  BY <1>1, <1>4, JoinedIs
<1>6. QED
  BY <1>5 DEF p, q, r

LEMMA Tuple64 ==
  ASSUME NEW a, NEW b, NEW c, NEW d, NEW e, NEW h, NEW u, NEW v, NEW w, NEW x
  PROVE  <<a, b, c, d, e, h>> \o <<u, v, w, x>> = <<a, b, c, d, e, h, u, v, w, x>>
<1> DEFINE S == {a, b, c, d, e, h, u, v, w, x}
           p == <<a, b, c, d, e, h>>
           q == <<u, v, w, x>>
           r == <<a, b, c, d, e, h, u, v, w, x>>
<1>1. p \in Seq(S) /\ q \in Seq(S) /\ r \in Seq(S)
  OBVIOUS
<1>2. Len(p) = 6 /\ Len(q) = 4 /\ Len(r) = 6 + 4
  OBVIOUS
<1>3. (\A i \in 1..6 : r[i] = p[i]) /\ \A i \in 1..4 : r[6 + i] = q[i]
  OBVIOUS
<1> HIDE DEF p, q, r, S
<1>4. Len(r) = Len(p) + Len(q) /\ (\A i \in 1..Len(p) : r[i] = p[i]) /\ \A i \in 1..Len(q) : r[Len(p) + i] = q[i]
  BY <1>2, <1>3, Zenon
<1>5. p \o q = r
  BY <1>1, <1>4, JoinedIs
<1>6. QED
  BY <1>5 DEF p, q, r

LEMMA Tuple52 ==
  ASSUME NEW a, NEW b, NEW c, NEW d, NEW e, NEW h, NEW u
  PROVE  <<a, b, c, d, e>> \o <<h, u>> = <<a, b, c, d, e, h, u>>
<1> DEFINE S == {a, b, c, d, e, h, u}
           p == <<a, b, c, d, e>>
           q == <<h, u>>
           r == <<a, b, c, d, e, h, u>>
<1>1. p \in Seq(S) /\ q \in Seq(S) /\ r \in Seq(S)
  OBVIOUS
<1>2. Len(p) = 5 /\ Len(q) = 2 /\ Len(r) = 5 + 2
  OBVIOUS
<1>3. (\A i \in 1..5 : r[i] = p[i]) /\ \A i \in 1..2 : r[5 + i] = q[i]
  OBVIOUS
<1> HIDE DEF p, q, r, S
<1>4. Len(r) = Len(p) + Len(q) /\ (\A i \in 1..Len(p) : r[i] = p[i]) /\ \A i \in 1..Len(q) : r[Len(p) + i] = q[i]
  BY <1>2, <1>3, Zenon
<1>5. p \o q = r
  BY <1>1, <1>4, JoinedIs
<1>6. QED
  BY <1>5 DEF p, q, r

\* What FormAssumption says of one form and one of its parts.
LEMMA FormTyped ==
  ASSUME NEW f \in Forms
  PROVE  /\ f.multipart \in BOOLEAN /\ Len(f.parts) \in Nat /\ DOMAIN f.parts = Parts(f)
         /\ ~f.multipart => Len(f.parts) = 1 /\ ~f.parts[1].file
<1>1. f.multipart \in BOOLEAN /\ f.parts \in Seq(ToSet(f.parts))
  BY FormAssumption
<1>2. Len(f.parts) \in Nat /\ DOMAIN f.parts = 1..Len(f.parts)
  BY <1>1, LenProperties
<1>3. ~f.multipart => Len(f.parts) = 1 /\ ~f.parts[1].file
  BY FormAssumption
<1>4. QED
  BY <1>1, <1>2, <1>3 DEF Parts

LEMMA PartTyped ==
  ASSUME NEW f \in Forms, NEW k \in Parts(f)
  PROVE  /\ f.parts[k].file \in BOOLEAN
         /\ f.parts[k].text \in Seq(Symbols(f)) /\ TextLen(f, k) \in Nat
         /\ f.multipart => \A i \in 1..TextLen(f, k) : f.parts[k].text[i] # "B"
<1> DEFINE part == f.parts[k]
<1>1. part \in ToSet(f.parts)
  BY FormTyped DEF ToSet
<1> HIDE DEF part
<1>2. part.file \in BOOLEAN /\ part.text \in Seq(ToSet(part.text))
  BY <1>1, FormAssumption
<1>3. ToSet(part.text) \subseteq Symbols(f)
  BY <1>1 DEF Symbols
<1>4. part.text \in Seq(Symbols(f)) /\ Len(part.text) \in Nat /\ DOMAIN part.text = 1..Len(part.text)
  BY <1>2, <1>3, SeqMonotonic, LenProperties
<1>5. ASSUME f.multipart PROVE \A i \in 1..Len(part.text) : part.text[i] # "B"
  <2>1. "B" \notin ToSet(part.text)
    BY <1>1, <1>5, FormAssumption
  <2>2. \A i \in 1..Len(part.text) : part.text[i] \in ToSet(part.text)
    BY <1>4 DEF ToSet
  <2>3. QED
    BY <2>1, <2>2
<1>6. QED
  BY <1>2, <1>4, <1>5 DEF part, TextLen

LEMMA Markers ==
  ASSUME NEW f \in Forms
  PROVE  /\ f.multipart => /\ Start(f) = <<"-", "-", "B", "CR", "LF">>
                           /\ End(f) = <<"-", "-", "B", "-", "-">>
         /\ ~f.multipart => /\ Start(f) = <<"-", "-", "CR", "LF">>
                            /\ End(f) = <<"-", "-", "-", "-">>
<1>1. /\ <<"-", "-">> \o <<"B">> = <<"-", "-", "B">>
      /\ <<"-", "-">> \o <<>> = <<"-", "-">>
      /\ <<"-", "-", "B">> \o <<"CR", "LF">> = <<"-", "-", "B", "CR", "LF">>
      /\ <<"-", "-", "B">> \o <<"-", "-">> = <<"-", "-", "B", "-", "-">>
      /\ <<"-", "-">> \o <<"CR", "LF">> = <<"-", "-", "CR", "LF">>
      /\ <<"-", "-">> \o <<"-", "-">> = <<"-", "-", "-", "-">>
  <2>1. <<"-", "-">> \o <<>> = <<"-", "-">>
    OBVIOUS
  <2>2. QED
    BY <2>1, Tuple21, Tuple22, Tuple32
<1>2. CASE f.multipart
  BY <1>1, <1>2, Zenon DEF Start, End, CRLF
<1>3. CASE ~f.multipart
  BY <1>1, <1>3, Zenon DEF Start, End, CRLF
<1>4. QED
  BY <1>2, <1>3

LEMMA KeptIs ==
  ASSUME form \in Forms
  PROVE  Kept = IF form.multipart THEN 4 ELSE 3
<1>0. /\ form.multipart => /\ Start(form) = <<"-", "-", "B", "CR", "LF">>
                           /\ End(form) = <<"-", "-", "B", "-", "-">>
      /\ ~form.multipart => /\ Start(form) = <<"-", "-", "CR", "LF">>
                            /\ End(form) = <<"-", "-", "-", "-">>
  BY Markers
<1>1. CASE form.multipart
  <2>1. Len(boundry_start) = 5 /\ Len(boundry_end) = 5
    <3>1. boundry_start = <<"-", "-", "B", "CR", "LF">> /\ boundry_end = <<"-", "-", "B", "-", "-">>
      BY <1>0, <1>1, Zenon DEF boundry_start, boundry_end
    <3>2. QED
      BY <3>1
  <2>2. Max({5, 5}) = 5
    BY DEF Max
  <2>3. QED
    BY <1>1, <2>1, <2>2 DEF Kept
<1>2. CASE ~form.multipart
  <2>1. Len(boundry_start) = 4 /\ Len(boundry_end) = 4
    <3>1. boundry_start = <<"-", "-", "CR", "LF">> /\ boundry_end = <<"-", "-", "-", "-">>
      BY <1>0, <1>2, Zenon DEF boundry_start, boundry_end
    <3>2. QED
      BY <3>1
  <2>2. Max({4, 4}) = 4
    BY DEF Max
  <2>3. QED
    BY <1>2, <2>1, <2>2 DEF Kept
<1>3. QED
  BY <1>1, <1>2

\* One part as it is sent: marker, headers, text, line end.
Opening(part) == <<"-", "-", "B", "CR", "LF", Header(part), "CR", "LF", "CR", "LF">>

LEMMA SymbolsHold ==
  ASSUME NEW f
  PROVE  /\ "CR" \in Symbols(f) /\ "LF" \in Symbols(f) /\ "-" \in Symbols(f) /\ "B" \in Symbols(f)
         /\ \A part : Header(part) \in Symbols(f) /\ Header(part) # "CR" /\ Header(part) # "B"
BY DEF Symbols, Header

LEMMA LaidPart ==
  ASSUME NEW f \in Forms, f.multipart, NEW k \in Parts(f)
  PROVE  /\ Laid(f)[k] \in Seq(Symbols(f))
         /\ Len(Laid(f)[k]) = 12 + TextLen(f, k)
         /\ \A i \in 1..10 : Laid(f)[k][i] = Opening(f.parts[k])[i]
         /\ \A i \in 1..TextLen(f, k) : Laid(f)[k][10 + i] = f.parts[k].text[i]
         /\ Laid(f)[k][11 + TextLen(f, k)] = "CR" /\ Laid(f)[k][12 + TextLen(f, k)] = "LF"
<1> DEFINE part == f.parts[k]
           text == part.text
           n == Len(text)
           h == Header(part)
           front == Opening(part)
<1>0. k \in DOMAIN f.parts
  BY FormTyped
<1>1. Laid(f)[k] = Start(f) \o <<Header(part)>> \o HeadersEnd \o text \o CRLF
  BY <1>0 DEF Laid
<1>2. text \in Seq(Symbols(f)) /\ n \in Nat
  BY PartTyped DEF TextLen
<1>3. Start(f) \o <<h>> \o HeadersEnd = front
  <2>1. Start(f) = <<"-", "-", "B", "CR", "LF">>
    BY FormTyped, Markers
  <2>2. HeadersEnd = <<"CR", "LF", "CR", "LF">>
    BY Tuple22, Zenon DEF HeadersEnd, CRLF
  <2> HIDE DEF h
  <2>3. <<"-", "-", "B", "CR", "LF">> \o <<h>> = <<"-", "-", "B", "CR", "LF", h>>
    BY Tuple51, Zenon
  <2>4. <<"-", "-", "B", "CR", "LF", h>> \o <<"CR", "LF", "CR", "LF">>
        = <<"-", "-", "B", "CR", "LF", h, "CR", "LF", "CR", "LF">>
    BY Tuple64
  <2>5. QED
    BY <2>1, <2>2, <2>3, <2>4, Zenon DEF h, Opening
<1>4. front \in Seq(Symbols(f)) /\ Len(front) = 10
  <2>1. h \in Symbols(f)
    BY SymbolsHold
  <2> HIDE DEF h
  <2>2. Len(<<"-", "-", "B", "CR", "LF", h, "CR", "LF", "CR", "LF">>) = 10
    OBVIOUS
  <2>3. <<"-", "-", "B", "CR", "LF", h, "CR", "LF", "CR", "LF">> \in Seq(Symbols(f))
    BY <2>1, SymbolsHold
  <2>4. QED
    BY <2>2, <2>3, Zenon DEF h, Opening
<1>5. CRLF \in Seq(Symbols(f)) /\ Len(CRLF) = 2 /\ CRLF[1] = "CR" /\ CRLF[2] = "LF"
  BY SymbolsHold DEF CRLF
<1>6. Laid(f)[k] = front \o text \o CRLF
  BY <1>1, <1>3, Zenon
<1> HIDE DEF front, text, n
<1> DEFINE ft == front \o text
           all == ft \o CRLF
<1>7. Glued(Symbols(f), ft, front, text)
  BY <1>2, <1>4, Glue
<1> HIDE DEF ft
<1>8. Glued(Symbols(f), all, ft, CRLF)
  <2>1. ft \in Seq(Symbols(f))
    BY <1>7 DEF Glued
  <2>2. QED
    BY <1>5, <2>1, Glue
<1> HIDE DEF all
<1>9. ft \in Seq(Symbols(f)) /\ Len(ft) = 10 + n
  BY <1>4, <1>7 DEF Glued, n
<1>10. /\ all \in Seq(Symbols(f)) /\ Len(all) = 12 + n
       /\ \A i \in 1..(10 + n) : all[i] = ft[i]
       /\ all[11 + n] = "CR" /\ all[12 + n] = "LF"
  <2>1. /\ all \in Seq(Symbols(f)) /\ Len(all) = Len(ft) + 2
        /\ \A i \in 1..Len(ft) : all[i] = ft[i]
        /\ \A i \in 1..2 : all[Len(ft) + i] = CRLF[i]
    BY <1>5, <1>8, Zenon DEF Glued
  <2>2. (10 + n) + 2 = 12 + n /\ (10 + n) + 1 = 11 + n /\ 1 \in 1..2 /\ 2 \in 1..2
    BY <1>2
  <2>3. all[(10 + n) + 1] = CRLF[1] /\ all[(10 + n) + 2] = CRLF[2]
    BY <1>9, <2>1, <2>2, Zenon
  <2>4. QED
    BY <1>5, <1>9, <2>1, <2>2, <2>3, Zenon
<1>12. /\ \A i \in 1..10 : all[i] = front[i]
       /\ \A i \in 1..n : all[10 + i] = text[i]
  <2>1. /\ \A i \in 1..10 : ft[i] = front[i]
        /\ \A i \in 1..n : ft[10 + i] = text[i]
    BY <1>4, <1>7, Zenon DEF Glued, n
  <2>2. /\ \A i \in 1..10 : i \in 1..(10 + n)
        /\ \A i \in 1..n : 10 + i \in 1..(10 + n)
    BY <1>2
  <2>3. QED
    BY <1>10, <2>1, <2>2
<1>11. QED
  BY <1>6, <1>10, <1>12 DEF TextLen, all, ft, front, text, n
-----------------------------------------------------------------------------
\* The places of the parts in the message.
LEMMA LaidTyped ==
  ASSUME NEW f \in Forms, f.multipart
  PROVE  Laid(f) \in Seq(Seq(Symbols(f))) /\ Len(Laid(f)) = Len(f.parts)
<1>1. Len(f.parts) \in Nat /\ DOMAIN f.parts = 1..Len(f.parts)
  BY FormTyped DEF Parts
<1>2. DOMAIN Laid(f) = 1..Len(f.parts) /\ Laid(f) = [k \in 1..Len(f.parts) |-> Laid(f)[k]]
  BY <1>1 DEF Laid
<1>3. \A k \in 1..Len(f.parts) : Laid(f)[k] \in Seq(Symbols(f))
  BY LaidPart DEF Parts
<1>4. Laid(f) \in [1..Len(f.parts) -> Seq(Symbols(f))]
  BY <1>2, <1>3
<1>5. QED
  BY <1>1, <1>4

LEMMA FieldsTyped ==
  ASSUME NEW f \in Forms
  PROVE  /\ Fields(f) \in Seq(Seq(Symbols(f))) /\ Len(Fields(f)) = Len(f.parts)
         /\ \A k \in Parts(f) : Fields(f)[k] = IF f.parts[k].file THEN <<>> ELSE f.parts[k].text
<1>1. Len(f.parts) \in Nat /\ DOMAIN f.parts = 1..Len(f.parts)
  BY FormTyped DEF Parts
<1>2. DOMAIN Fields(f) = 1..Len(f.parts) /\ Fields(f) = [k \in 1..Len(f.parts) |-> Fields(f)[k]]
      /\ \A k \in 1..Len(f.parts) : Fields(f)[k] = IF f.parts[k].file THEN <<>> ELSE f.parts[k].text
  BY <1>1 DEF Fields
<1>3. \A k \in 1..Len(f.parts) : Fields(f)[k] \in Seq(Symbols(f))
  <2>1. \A k \in 1..Len(f.parts) : f.parts[k].text \in Seq(Symbols(f))
    BY PartTyped DEF Parts
  <2>2. <<>> \in Seq(Symbols(f))
    BY EmptySeq
  <2>3. QED
    BY <1>2, <2>1, <2>2
<1>4. Fields(f) \in [1..Len(f.parts) -> Seq(Symbols(f))]
  BY <1>2, <1>3
<1>5. Fields(f) \in Seq(Seq(Symbols(f))) /\ Len(Fields(f)) = Len(f.parts)
  BY <1>1, <1>4
<1>6. QED
  BY <1>2, <1>5 DEF Parts

Ending == <<"-", "-", "B", "-", "-", "CR", "LF">>

LEMMA WholeMessage ==
  ASSUME NEW f \in Forms, f.multipart
  PROVE  /\ Glued(Symbols(f), Message(f), Layers(Laid(f), Len(f.parts)), Ending)
         /\ Message(f) \in Seq(Symbols(f))
         /\ Len(Message(f)) = PartAt(f, Len(f.parts) + 1) + 7
<1> DEFINE n == Len(f.parts)
           all == Layers(Laid(f), n)
<1>1. n \in Nat /\ Laid(f) \in Seq(Seq(Symbols(f))) /\ Len(Laid(f)) = n
  BY FormTyped, LaidTyped
<1>2. all \in Seq(Symbols(f))
  BY <1>1, LayersTyped
<1>3. all = FlattenSeq(Laid(f))
  BY <1>1, SubSeqFull DEF Layers
<1>4. End(f) \o CRLF = Ending
  <2>1. End(f) = <<"-", "-", "B", "-", "-">>
    BY Markers
  <2>2. QED
    BY <2>1, Tuple52 DEF CRLF, Ending
<1>5. End(f) \in Seq(Symbols(f)) /\ CRLF \in Seq(Symbols(f)) /\ Ending \in Seq(Symbols(f))
  <2>1. End(f) = <<"-", "-", "B", "-", "-">>
    BY Markers
  <2>2. QED
    BY <2>1, SymbolsHold DEF CRLF, Ending
<1>6. Message(f) = FlattenSeq(Laid(f)) \o End(f) \o CRLF
  BY DEF Message, Laid, Header
<1>7. Message(f) = all \o Ending
  <2> DEFINE e == End(f)
             c == CRLF
  <2>1. Message(f) = (all \o e) \o c /\ e \o c = Ending
    BY <1>3, <1>4, <1>6, Zenon
  <2>2. e \in Seq(Symbols(f)) /\ c \in Seq(Symbols(f))
    BY <1>5
  <2> HIDE DEF e, c, all
  <2>3. (all \o e) \o c = all \o (e \o c)
    <3>1. Assoc(all, e, c)
      BY <1>2, <2>2, ConcatTwice
    <3>2. QED
      BY <3>1 DEF Assoc
  <2>4. QED
    BY <2>1, <2>3, Zenon DEF all
<1> HIDE DEF all
<1>8. Glued(Symbols(f), Message(f), all, Ending)
  BY <1>2, <1>5, <1>7, Glue
<1>9. Len(Ending) = 7
  BY DEF Ending
<1>10. PartAt(f, n + 1) = Len(all)
  <2>1. (n + 1) - 1 = n
    BY <1>1
  <2>2. QED
    BY <2>1 DEF PartAt, Layers, all
<1>11. QED
  BY <1>8, <1>9, <1>10, Zenon DEF Glued, all

LEMMA PartAtIs ==
  ASSUME NEW f \in Forms, f.multipart, NEW k \in 1..(Len(f.parts) + 1)
  PROVE  /\ PartAt(f, k) = Len(Layers(Laid(f), k - 1)) /\ PartAt(f, k) \in Nat
         /\ PartAt(f, k) <= PartAt(f, Len(f.parts) + 1)
         /\ k \in Parts(f) => PartAt(f, k + 1) = PartAt(f, k) + 12 + TextLen(f, k)
<1> DEFINE n == Len(f.parts)
           s == Laid(f)
<1>1. n \in Nat /\ s \in Seq(Seq(Symbols(f))) /\ Len(s) = n
  BY FormTyped, LaidTyped
<1> HIDE DEF s
<1>2. k - 1 \in Nat /\ k - 1 <= n /\ (n + 1) - 1 = n /\ (k + 1) - 1 = k /\ (k - 1) + 1 = k
  BY <1>1
<1>3. PartAt(f, k) = Len(Layers(s, k - 1)) /\ PartAt(f, n + 1) = Len(Layers(s, n)) /\ PartAt(f, k + 1) = Len(Layers(s, k))
  BY <1>2 DEF PartAt, Layers, s
<1>4. Layers(s, k - 1) \in Seq(Symbols(f)) /\ Layers(s, n) \in Seq(Symbols(f))
  BY <1>1, <1>2, LayersTyped
<1>5. PartAt(f, k) \in Nat
  BY <1>3, <1>4, LenProperties
<1>6. PartAt(f, k) <= PartAt(f, n + 1)
  <2>1. PICK q \in Seq(Symbols(f)) : Layers(s, n) = Layers(s, k - 1) \o q
    <3>1. Extends(Symbols(f), s, k - 1, n)
      BY <1>1, <1>2, LayersGrow
    <3>2. QED
      BY <3>1 DEF Extends
  <2>2. Glued(Symbols(f), Layers(s, n), Layers(s, k - 1), q)
    BY <1>4, <2>1, Glue
  <2>3. Len(Layers(s, n)) = Len(Layers(s, k - 1)) + Len(q) /\ Len(q) \in Nat
    BY <2>1, <2>2, LenProperties DEF Glued
  <2>4. QED
    BY <1>3, <1>5, <2>3
<1>7. ASSUME k \in Parts(f) PROVE PartAt(f, k + 1) = PartAt(f, k) + 12 + TextLen(f, k)
  <2>1. Layers(s, (k - 1) + 1) = Layers(s, k - 1) \o s[(k - 1) + 1]
    <3>1. k - 1 < Len(s)
      BY <1>1, <1>7 DEF Parts
    <3>2. QED
      BY <1>1, <1>2, <1>4, <3>1, LayersNext
  <2>2. s[k] \in Seq(Symbols(f)) /\ Len(s[k]) = 12 + TextLen(f, k) /\ TextLen(f, k) \in Nat
    BY <1>7, LaidPart, PartTyped DEF s
  <2>3. Glued(Symbols(f), Layers(s, k), Layers(s, k - 1), s[k])
    <3>1. Layers(s, k) = Layers(s, k - 1) \o s[k]
      BY <1>2, <2>1
    <3>2. QED
      BY <1>4, <2>2, <3>1, Glue
  <2>4. Len(Layers(s, k)) = Len(Layers(s, k - 1)) + Len(s[k])
    BY <2>3 DEF Glued
  <2>5. QED
    BY <1>3, <1>5, <2>2, <2>4
<1>8. QED
  BY <1>3, <1>5, <1>6, <1>7 DEF s

LEMMA PartBytes ==
  ASSUME NEW f \in Forms, f.multipart, NEW k \in Parts(f), NEW i \in 1..(12 + TextLen(f, k))
  PROVE  Message(f)[PartAt(f, k) + i] = Laid(f)[k][i]
<1> DEFINE n == Len(f.parts)
           s == Laid(f)
           low == Layers(s, k - 1)
           mid == Layers(s, k)
           all == Layers(s, n)
<1>1. n \in Nat /\ s \in Seq(Seq(Symbols(f))) /\ Len(s) = n /\ TextLen(f, k) \in Nat
  BY FormTyped, LaidTyped, PartTyped
<1>2. s[k] \in Seq(Symbols(f)) /\ Len(s[k]) = 12 + TextLen(f, k)
  BY LaidPart
<1> HIDE DEF s
<1>3. /\ k - 1 \in Nat /\ k - 1 <= Len(s) /\ k - 1 < Len(s) /\ (k - 1) + 1 = k
      /\ k \in Nat /\ k <= n /\ n <= Len(s) /\ k \in 1..(Len(f.parts) + 1)
  BY <1>1 DEF Parts
<1>4. low \in Seq(Symbols(f)) /\ mid \in Seq(Symbols(f)) /\ all \in Seq(Symbols(f))
  BY <1>1, <1>3, LayersTyped
<1>5. mid = low \o s[k]
  <2>1. Layers(s, (k - 1) + 1) = Layers(s, k - 1) \o s[(k - 1) + 1]
    BY <1>1, <1>3, <1>4, LayersNext
  <2>2. QED
    BY <1>3, <2>1
<1>6. PICK q \in Seq(Symbols(f)) : all = mid \o q
  <2>1. Extends(Symbols(f), s, k, n)
    BY <1>1, <1>3, LayersGrow
  <2>2. QED
    BY <2>1 DEF Extends
<1>7. Len(low) = PartAt(f, k)
  BY <1>3, PartAtIs DEF s
<1>8. Glued(Symbols(f), Message(f), all, Ending)
  BY WholeMessage DEF s
<1> HIDE DEF low, mid, all
<1>9. Glued(Symbols(f), mid, low, s[k])
  BY <1>2, <1>4, <1>5, Glue
<1>10. Glued(Symbols(f), all, mid, q)
  BY <1>4, <1>6, Glue
<1>11. /\ Len(low) \in Nat /\ Len(mid) \in Nat /\ Len(all) \in Nat /\ Len(q) \in Nat
       /\ Len(mid) = Len(low) + Len(s[k]) /\ Len(all) = Len(mid) + Len(q)
  BY <1>4, <1>6, <1>9, <1>10, LenProperties DEF Glued
<1>12. i \in 1..Len(s[k]) /\ Len(low) + i \in 1..Len(mid) /\ Len(low) + i \in 1..Len(all)
  <2> DEFINE a == Len(low)
             b == Len(mid)
             c == Len(all)
             d == Len(q)
             l == Len(s[k])
  <2>1. a \in Nat /\ b \in Nat /\ c \in Nat /\ d \in Nat /\ b = a + l /\ c = b + d
    BY <1>11
  <2>2. l = 12 + TextLen(f, k) /\ i \in 1..l
    BY <1>2
  <2> HIDE DEF a, b, c, d, l
  <2>3. l \in Nat
    BY <1>1, <2>2
  <2>4. i \in Nat /\ 1 <= i /\ i <= l
    BY <2>2, <2>3
  <2>5. 1 <= a + i /\ a + i <= b /\ a + i <= c
    BY <2>1, <2>3, <2>4
  <2>6. a + i \in 1..b /\ a + i \in 1..c
    BY <2>1, <2>4, <2>5
  <2>7. QED
    BY <2>2, <2>6 DEF a, b, c, d, l
<1>13. mid[Len(low) + i] = s[k][i]
  BY <1>9, <1>12 DEF Glued
<1>14. all[Len(low) + i] = mid[Len(low) + i]
  BY <1>10, <1>12 DEF Glued
<1>15. Message(f)[Len(low) + i] = all[Len(low) + i]
  BY <1>8, <1>12 DEF Glued
<1>16. QED
  BY <1>7, <1>13, <1>14, <1>15 DEF s

\* All that the steps of the loop need to know of a message.
LEMMA Layout ==
  ASSUME NEW f \in Forms, f.multipart, NEW k \in Parts(f)
  PROVE  LET M == Message(f)
             T == TextAt(f, k)
             Q == PartAt(f, k + 1)
         IN /\ \A i \in 1..10 : M[PartAt(f, k) + i] = Opening(f.parts[k])[i]
            /\ Q = (T + TextLen(f, k)) + 2
            /\ \A i \in 1..TextLen(f, k) : M[T + i] = f.parts[k].text[i]
            /\ \A i \in (T + 1)..Q : M[i] # "B"
            /\ M[(T + TextLen(f, k)) + 1] = "CR" /\ M[(T + TextLen(f, k)) + 2] = "LF"
<1> DEFINE M == Message(f)
           n == TextLen(f, k)
           P == PartAt(f, k)
           T == TextAt(f, k)
           Q == PartAt(f, k + 1)
           r == Laid(f)[k]
           text == f.parts[k].text
<1>1. n \in Nat /\ P \in Nat /\ Q = P + 12 + n /\ T = P + 10
  <2>1. k \in 1..(Len(f.parts) + 1)
    BY FormTyped DEF Parts
  <2>2. QED
    BY <2>1, PartTyped, PartAtIs DEF TextAt
<1>2. \A i \in 1..(12 + n) : M[P + i] = r[i]
  BY PartBytes
<1>3. /\ \A i \in 1..10 : r[i] = Opening(f.parts[k])[i]
      /\ \A i \in 1..n : r[10 + i] = text[i]
      /\ r[11 + n] = "CR" /\ r[12 + n] = "LF"
  BY LaidPart
<1>4. \A i \in 1..n : text[i] # "B"
  BY PartTyped
<1> HIDE DEF M, n, P, T, Q, r, text
<1>5. \A i \in 1..10 : M[P + i] = Opening(f.parts[k])[i]
  <2>1. \A i \in 1..10 : i \in 1..(12 + n)
    BY <1>1
  <2>2. QED
    BY <1>2, <1>3, <2>1
<1>6. \A i \in 1..n : M[T + i] = text[i]
  <2> SUFFICES ASSUME NEW i \in 1..n PROVE M[T + i] = text[i]
    OBVIOUS
  <2>1. 10 + i \in 1..(12 + n) /\ T + i = P + (10 + i)
    BY <1>1
  <2>2. QED
    BY <1>2, <1>3, <2>1
<1>7. M[(T + n) + 1] = "CR" /\ M[(T + n) + 2] = "LF"
  <2>1. 11 + n \in 1..(12 + n) /\ 12 + n \in 1..(12 + n) /\ (T + n) + 1 = P + (11 + n) /\ (T + n) + 2 = P + (12 + n)
    BY <1>1
  <2>2. QED
    BY <1>2, <1>3, <2>1
<1>8. Q = (T + n) + 2
  BY <1>1
<1>9. ASSUME NEW i \in (T + 1)..Q PROVE M[i] # "B"
  <2>1. i \in Int /\ (i = (T + n) + 1 \/ i = (T + n) + 2 \/ (i - T \in 1..n /\ T + (i - T) = i))
    BY <1>1
  <2>2. CASE i = (T + n) + 1 \/ i = (T + n) + 2
    BY <1>7, <2>2
  <2>3. CASE i - T \in 1..n /\ T + (i - T) = i
    BY <1>4, <1>6, <2>3
  <2>4. QED
    BY <2>1, <2>2, <2>3
<1>10. QED
  BY <1>5, <1>6, <1>7, <1>8, <1>9 DEF M, n, P, T, Q, r, text

LEMMA EndLayout ==
  ASSUME NEW f \in Forms, f.multipart
  PROVE  LET M == Message(f)
             Q == PartAt(f, Len(f.parts) + 1)
         IN /\ M \in Seq(Symbols(f)) /\ Q \in Nat /\ Len(M) = Q + 7
            /\ \A i \in 1..7 : M[Q + i] = Ending[i]
<1> DEFINE n == Len(f.parts)
           all == Layers(Laid(f), n)
           M == Message(f)
           Q == PartAt(f, n + 1)
<1>1. Glued(Symbols(f), M, all, Ending) /\ M \in Seq(Symbols(f)) /\ Len(M) = Q + 7
  BY WholeMessage
<1>2. n + 1 \in 1..(Len(f.parts) + 1) /\ (n + 1) - 1 = n
  BY FormTyped
<1>3. Q \in Nat /\ Q = Len(all)
  BY <1>2, PartAtIs
<1>4. Len(Ending) = 7
  BY DEF Ending
<1> HIDE DEF M, Q, all
<1>5. \A i \in 1..7 : M[Q + i] = Ending[i]
  BY <1>1, <1>3, <1>4, Zenon DEF Glued
<1>6. QED
  BY <1>1, <1>3, <1>5 DEF M, Q, n
-----------------------------------------------------------------------------
\* Where a marker lies in a piece of the message.
Lies(s, t, p) == \A j \in 1..Len(t) : s[p + j] = t[j]

LEMMA HitIs ==
  ASSUME NEW S, NEW s \in Seq(S), NEW a \in Nat, NEW c \in Nat, a <= c, c <= Len(s),
         NEW t \in Seq(S), NEW o \in Nat
  PROVE  Hit(SubSeq(s, a + 1, c), t, o + 1)
           <=> o + Len(t) <= c - a /\ Lies(s, t, a + o)
<1> DEFINE d == SubSeq(s, a + 1, c)
           n == Len(t)
<1>1. d \in Seq(S) /\ Len(d) = c - a /\ n \in Nat /\ Len(s) \in Nat
  BY Cut, LenProperties
<1>2. Hit(d, t, o + 1) <=> o + 1 \in 1..(Len(d) - n + 1) /\ SubSeq(d, o + 1, (o + 1) + n - 1) = t
  BY DEF Hit
<1>3. o + 1 \in 1..(Len(d) - n + 1) <=> o + n <= c - a
  BY <1>1
<1>4. (o + 1) + n - 1 = o + n
  BY <1>1
<1>5. ASSUME o + n <= c - a
      PROVE  SubSeq(d, o + 1, o + n) = t <=> \A j \in 1..n : s[(a + o) + j] = t[j]
  <2>1. SubSeq(d, o + 1, o + n) = SubSeq(s, a + o + 1, a + (o + n))
    <3>1. o + n \in Nat /\ o <= o + n
      BY <1>1
    <3>2. Inner(s, a, c, o, o + n)
      BY <1>5, <3>1, CutCut
    <3>3. QED
      BY <3>2 DEF d, Inner
  <2> DEFINE u == SubSeq(s, (a + o) + 1, (a + o) + n)
  <2>2. u \in Seq(S) /\ Len(u) = n /\ \A j \in 1..n : u[j] = s[(a + o) + j]
    <3>1. a + o \in Nat /\ (a + o) + n \in Nat /\ a + o <= (a + o) + n /\ (a + o) + n <= Len(s)
          /\ ((a + o) + n) - (a + o) = n
      BY <1>1, <1>5
    <3>2. /\ u \in Seq(S) /\ Len(u) = ((a + o) + n) - (a + o)
          /\ \A j \in 1..(((a + o) + n) - (a + o)) : u[j] = s[(a + o) + j]
      BY <3>1, Cut
    <3>3. QED
      BY <3>1, <3>2
  <2>3. SubSeq(d, o + 1, o + n) = u
    <3>1. a + (o + n) = (a + o) + n
      BY <1>1
    <3>2. QED
      BY <2>1, <3>1
  <2> HIDE DEF u
  <2>4. (\A j \in 1..n : u[j] = t[j]) => u = t
    BY <2>2, SeqEqual
  <2>5. QED
    BY <2>2, <2>3, <2>4
<1> HIDE DEF d, n
<1>6. Hit(d, t, o + 1) <=> o + n <= c - a /\ SubSeq(d, o + 1, o + n) = t
  BY <1>2, <1>3, <1>4
<1>7. QED
  BY <1>5, <1>6 DEF d, n, Lies

LEMMA FormSymbols ==
  ASSUME NEW f \in Forms, f.multipart
  PROVE  /\ Start(f) \in Seq(Symbols(f)) /\ Len(Start(f)) = 5
         /\ End(f) \in Seq(Symbols(f)) /\ Len(End(f)) = 5
         /\ Start(f)[3] = "B" /\ Start(f)[4] = "CR" /\ End(f)[3] = "B"
<1>1. Start(f) = <<"-", "-", "B", "CR", "LF">> /\ End(f) = <<"-", "-", "B", "-", "-">>
  BY Markers
<1>2. QED
  BY <1>1, SymbolsHold

\* What a part is followed by, up to five bytes.
LEMMA MarkerBehind ==
  ASSUME NEW f \in Forms, f.multipart, NEW k \in Parts(f)
  PROVE  LET M == Message(f)
             Q == PartAt(f, k + 1)
         IN /\ Q \in Nat /\ Q + 7 <= Len(M)
            /\ M[Q + 1] # "B" /\ M[Q + 2] # "B"
            /\ k < Len(f.parts) => \A j \in 1..5 : M[Q + j] = Start(f)[j]
            /\ k = Len(f.parts) => /\ \A j \in 1..5 : M[Q + j] = End(f)[j]
                                   /\ Len(M) = Q + 7 /\ M[Q + 4] # "CR" /\ \A i \in (Q + 4)..(Q + 7) : M[i] # "B"
<1> DEFINE M == Message(f)
           Q == PartAt(f, k + 1)
           n == Len(f.parts)
<1>1. n \in Nat /\ k \in Nat /\ k + 1 \in 1..(n + 1)
  BY FormTyped DEF Parts
<1>2. Start(f) = <<"-", "-", "B", "CR", "LF">> /\ End(f) = <<"-", "-", "B", "-", "-">>
  BY Markers
<1>3. Q \in Nat /\ Q <= PartAt(f, n + 1) /\ PartAt(f, n + 1) \in Nat /\ Len(M) = PartAt(f, n + 1) + 7
  BY <1>1, PartAtIs, EndLayout
<1> HIDE DEF M, Q
<1>4. CASE k < n
  <2>1. \A j \in 1..10 : M[Q + j] = Opening(f.parts[k + 1])[j]
    <3>1. k + 1 \in Parts(f)
      BY <1>1, <1>4 DEF Parts
    <3>2. QED
      BY <3>1, Layout DEF M, Q
  <2> DEFINE h == Header(f.parts[k + 1])
  <2>2. Opening(f.parts[k + 1]) = <<"-", "-", "B", "CR", "LF", h, "CR", "LF", "CR", "LF">>
    BY DEF Opening
  <2> HIDE DEF h
  <2>3. \A j \in 1..5 : M[Q + j] = Start(f)[j]
    BY <1>2, <2>1, <2>2
  <2>4. M[Q + 1] = "-" /\ M[Q + 2] = "-"
    BY <1>2, <2>3
  <2>5. Q \in Nat /\ Q + 7 <= Len(M) /\ M[Q + 1] # "B" /\ M[Q + 2] # "B"
    <3>1. Q + 7 <= Len(M)
      BY <1>3
    <3>2. QED
      BY <1>3, <2>4, <3>1
  <2>6. k # n
    BY <1>1, <1>4
  <2>7. QED
    BY <2>3, <2>5, <2>6 DEF M, Q, n
<1>5. CASE k = n
  <2>1. \A j \in 1..7 : M[Q + j] = Ending[j]
    BY <1>5, EndLayout DEF M, Q
  <2>2. \A j \in 1..5 : M[Q + j] = End(f)[j]
    BY <1>2, <2>1 DEF Ending
  <2>3. M[Q + 1] = "-" /\ M[Q + 2] = "-" /\ M[Q + 4] = "-" /\ M[Q + 5] = "-" /\ M[Q + 6] = "CR" /\ M[Q + 7] = "LF"
    BY <2>1 DEF Ending
  <2>4. \A i \in (Q + 4)..(Q + 7) : i = Q + 4 \/ i = Q + 5 \/ i = Q + 6 \/ i = Q + 7
    BY <1>3
  <2>5. \A i \in (Q + 4)..(Q + 7) : M[i] # "B"
    BY <2>3, <2>4
  <2>6. Len(M) = Q + 7
    BY <1>3, <1>5 DEF Q
  <2>7. Q \in Nat /\ Q + 7 <= Len(M) /\ M[Q + 1] # "B" /\ M[Q + 2] # "B" /\ M[Q + 4] # "CR"
    <3>1. Q + 7 <= Len(M)
      BY <1>3, <2>6
    <3>2. QED
      BY <1>3, <2>3, <3>1
  <2>8. ~(k < n)
    BY <1>1, <1>5
  <2>9. QED
    BY <2>2, <2>5, <2>6, <2>7, <2>8 DEF M, Q, n
<1>6. QED
  BY <1>1, <1>3, <1>4, <1>5 DEF Parts, n

\* In a text, memmem finds the marker that ends it, once all of the marker is
\* there, and nothing else.
LEMMA FirstMarker ==
  ASSUME NEW f \in Forms, f.multipart, NEW k \in Parts(f), NEW x \in 0..(TextLen(f, k) + 2),
         NEW c \in Nat, TextAt(f, k) + x <= c, c <= Len(Message(f))
  PROVE  LET data == Piece(f, TextAt(f, k) + x, c)
             s == memmem(data, Start(f))
             e == memmem(data, End(f))
             m == (TextLen(f, k) + 3) - x
             Q == PartAt(f, k + 1)
         IN /\ s # 0 => s = m /\ k < Len(f.parts) /\ Q + 5 <= c
            /\ e # 0 /\ s = 0 => e = m /\ k = Len(f.parts) /\ Q + 5 <= c
            /\ s = 0 /\ e = 0 => c < Q + 5
<1> DEFINE M == Message(f)
           T == TextAt(f, k)
           n == TextLen(f, k)
           Q == PartAt(f, k + 1)
           N == Len(f.parts)
           a == T + x
           st == Start(f)
           en == End(f)
           data == SubSeq(M, a + 1, c)
           s == memmem(data, st)
           e == memmem(data, en)
           om == (n + 2) - x
<1>1. /\ n \in Nat /\ T \in Nat /\ Q = (T + n) + 2 /\ M \in Seq(Symbols(f))
      /\ \A i \in (T + 1)..Q : M[i] # "B"
  <2>1. k \in 1..(Len(f.parts) + 1)
    BY FormTyped DEF Parts
  <2>2. PartAt(f, k) \in Nat
    BY <2>1, PartAtIs
  <2>3. n \in Nat /\ T \in Nat
    <3>1. n \in Nat
      BY PartTyped
    <3>2. QED
      BY <2>2, <3>1 DEF TextAt
  <2>4. Q = (T + n) + 2 /\ \A i \in (T + 1)..Q : M[i] # "B"
    BY Layout
  <2>5. M \in Seq(Symbols(f))
    BY EndLayout
  <2>6. QED
    BY <2>3, <2>4, <2>5
<1>2. /\ Q \in Nat /\ Q + 7 <= Len(M) /\ M[Q + 1] # "B" /\ M[Q + 2] # "B"
      /\ k < N => \A j \in 1..5 : M[Q + j] = st[j]
      /\ k = N => /\ \A j \in 1..5 : M[Q + j] = en[j]
                  /\ Len(M) = Q + 7 /\ M[Q + 4] # "CR" /\ \A i \in (Q + 4)..(Q + 7) : M[i] # "B"
  BY MarkerBehind
<1>3. /\ st \in Seq(Symbols(f)) /\ Len(st) = 5 /\ en \in Seq(Symbols(f)) /\ Len(en) = 5
      /\ st[3] = "B" /\ st[4] = "CR" /\ en[3] = "B"
  BY FormSymbols
<1>4. N \in Nat /\ k \in 1..N
  BY FormTyped DEF Parts
<1>5. c <= Len(M) /\ a <= c /\ x \in 0..(n + 2) /\ Len(M) \in Nat
  BY <1>1, LenProperties
<1> HIDE DEF M, T, n, Q, N, st, en
<1>6. a \in Nat /\ om \in Nat /\ a + om = Q
  BY <1>1, <1>5
<1>7. data \in Seq(Symbols(f)) /\ Len(data) \in Nat
  BY <1>1, <1>5, <1>6, Cut, LenProperties
<1> HIDE DEF a, om
\* A marker lies behind the text.
<1>8. ASSUME NEW t \in Seq(Symbols(f)), Len(t) = 5, t[3] = "B", NEW o \in Nat, Hit(data, t, o + 1)
      PROVE  om <= o /\ Q + 5 <= c /\ (a + o) + 5 <= c /\ \A j \in 1..5 : M[(a + o) + j] = t[j]
  <2>1. o + 5 <= c - a /\ \A j \in 1..5 : M[(a + o) + j] = t[j]
    <3>1. o + Len(t) <= c - a /\ \A j \in 1..Len(t) : M[(a + o) + j] = t[j]
      <4>1. Hit(data, t, o + 1)
        BY <1>8
      <4>2. Hit(data, t, o + 1)
              <=> o + Len(t) <= c - a /\ \A j \in 1..Len(t) : M[(a + o) + j] = t[j]
        <5>1. M \in Seq(Symbols(f)) /\ a \in Nat /\ c \in Nat /\ a <= c /\ c <= Len(M)
          BY <1>1, <1>5, <1>6
        <5>2. Hit(data, t, o + 1) <=> o + Len(t) <= c - a /\ Lies(M, t, a + o)
          BY <5>1, HitIs
        <5>3. QED
          BY <5>2 DEF Lies
      <4>3. QED
        BY <4>1, <4>2
    <3>2. QED
      BY <1>8, <3>1
  <2>2. M[(a + o) + 3] = "B"
    BY <1>8, <2>1
  <2>3. om <= o
    <3> SUFFICES ASSUME ~(om <= o) PROVE FALSE
      OBVIOUS
    <3>1. (a + o) + 3 <= Q + 2 /\ (a + o) + 3 \in Nat
      BY <1>6
    <3>2. (a + o) + 3 \in (T + 1)..Q \/ (a + o) + 3 = Q + 1 \/ (a + o) + 3 = Q + 2
      BY <1>1, <1>2, <1>6, <3>1 DEF a
    <3>3. QED
      BY <1>1, <1>2, <2>2, <3>2
  <2>4. Q + 5 <= c /\ (a + o) + 5 <= c
    BY <1>2, <1>6, <2>1, <2>3
  <2>5. QED
    BY <2>1, <2>3, <2>4
\* It begins right there when all of it has come.
<1>9. ASSUME NEW t \in Seq(Symbols(f)), Len(t) = 5, Q + 5 <= c, \A j \in 1..5 : M[Q + j] = t[j]
      PROVE  Hit(data, t, om + 1)
  <2>1. om + 5 <= c - a
    BY <1>2, <1>6, <1>9
  <2>2. \A j \in 1..Len(t) : M[(a + om) + j] = t[j]
    BY <1>6, <1>9
  <2>3. QED
    <3>1. Lies(M, t, a + om) /\ om + Len(t) <= c - a
      BY <1>9, <2>1, <2>2 DEF Lies
    <3>2. M \in Seq(Symbols(f)) /\ a \in Nat /\ c \in Nat /\ a <= c /\ c <= Len(M)
      BY <1>1, <1>5, <1>6
    <3>3. QED
      BY <1>6, <3>1, <3>2, HitIs
<1>10. /\ s \in Nat /\ (s = 0 => \A i : ~Hit(data, st, i))
       /\ s # 0 => Hit(data, st, s) /\ \A i : Hit(data, st, i) => s <= i
  BY <1>3, <1>7, FirstHit
<1>11. /\ e \in Nat /\ (e = 0 => \A i : ~Hit(data, en, i))
       /\ e # 0 => Hit(data, en, e) /\ \A i : Hit(data, en, i) => e <= i
  BY <1>3, <1>7, FirstHit
<1> HIDE DEF data, s, e
<1>12. s # 0 => s = om + 1 /\ k < N /\ Q + 5 <= c
  <2> SUFFICES ASSUME s # 0 PROVE s = om + 1 /\ k < N /\ Q + 5 <= c
    OBVIOUS
  <2>1. s - 1 \in Nat /\ (s - 1) + 1 = s
    BY <1>10
  <2>2. /\ om <= s - 1 /\ Q + 5 <= c /\ (a + (s - 1)) + 5 <= c
        /\ \A j \in 1..5 : M[(a + (s - 1)) + j] = st[j]
    BY <1>3, <1>8, <1>10, <2>1
  <2>3. k < N
    <3> SUFFICES ASSUME k = N PROVE FALSE
      BY <1>4
    <3> DEFINE p == a + (s - 1)
    <3>1. p \in Nat /\ Q <= p /\ p + 5 <= Q + 7
      <4>1. Len(M) = Q + 7
        BY <1>2
      <4>2. Q <= p /\ p + 5 <= c /\ p \in Nat
        <5>1. a \in Nat /\ om \in Nat /\ a + om = Q /\ s - 1 \in Nat /\ om <= s - 1
          BY <1>6, <2>1, <2>2
        <5>2. p + 5 <= c
          BY <2>2
        <5> DEFINE z == s - 1
        <5>3. z \in Nat /\ om <= z /\ p = a + z
          BY <5>1
        <5> HIDE DEF z, p
        <5>4. Q <= p /\ p \in Nat
          BY <5>1, <5>3
        <5>5. QED
          BY <5>2, <5>4 DEF p
      <4>3. c <= Len(M) /\ c \in Nat /\ Q \in Nat
        BY <1>2, <1>5
      <4> HIDE DEF p
      <4>4. QED
        BY <4>1, <4>2, <4>3
    <3>2. M[p + 3] = "B" /\ M[p + 4] = "CR"
      BY <1>3, <2>2
    <3> HIDE DEF p
    <3>3. CASE p = Q
      BY <1>2, <3>2, <3>3
    <3>4. CASE p # Q
      <4>1. p + 3 \in (Q + 4)..(Q + 7)
        BY <1>2, <3>1, <3>4
      <4>2. QED
        BY <1>2, <3>2, <4>1
    <3>5. QED
      BY <3>3, <3>4
  <2>4. Hit(data, st, om + 1)
    BY <1>2, <1>3, <1>9, <2>2, <2>3
  <2>5. s <= om + 1
    BY <1>10, <2>4
  <2>6. QED
    BY <1>6, <2>1, <2>2, <2>3, <2>5
<1>13. e # 0 /\ s = 0 => e = om + 1 /\ k = N /\ Q + 5 <= c
  <2> SUFFICES ASSUME e # 0, s = 0 PROVE e = om + 1 /\ k = N /\ Q + 5 <= c
    OBVIOUS
  <2>1. e - 1 \in Nat /\ (e - 1) + 1 = e
    BY <1>11
  <2>2. om <= e - 1 /\ Q + 5 <= c
    BY <1>3, <1>8, <1>11, <2>1
  <2>3. k = N
    <3> SUFFICES ASSUME k < N PROVE FALSE
      BY <1>4
    <3>1. Hit(data, st, om + 1)
      BY <1>2, <1>3, <1>9, <2>2
    <3>2. QED
      BY <1>10, <3>1
  <2>4. Hit(data, en, om + 1)
    BY <1>2, <1>3, <1>9, <2>2, <2>3
  <2>5. e <= om + 1
    BY <1>11, <2>4
  <2>6. QED
    BY <1>6, <2>1, <2>2, <2>3, <2>5
<1>14. s = 0 /\ e = 0 => c < Q + 5
  <2> SUFFICES ASSUME s = 0, e = 0, Q + 5 <= c PROVE FALSE
    BY <1>2
  <2>1. CASE k < N
    BY <1>2, <1>3, <1>9, <1>10, <2>1
  <2>2. CASE k = N
    BY <1>2, <1>3, <1>9, <1>11, <2>2
  <2>3. QED
    BY <1>4, <2>1, <2>2
<1>15. om + 1 = (n + 3) - x
  BY <1>1, <1>5 DEF om
<1>16. data = Piece(f, TextAt(f, k) + x, c)
  BY DEF data, Piece, a, T, M
<1>17. QED
  BY <1>12, <1>13, <1>14, <1>15, <1>16 DEF s, e, Q, N, n, st, en
-----------------------------------------------------------------------------
\* In front of a part the marker, its headers and its text are found where
\* they are.
LEMMA HeadersAt ==
  ASSUME NEW f \in Forms, f.multipart, NEW k \in Parts(f),
         NEW c \in Nat, PartAt(f, k) + 9 < c, c <= Len(Message(f))
  PROVE  LET data == Piece(f, PartAt(f, k), c)
             heads == SubSeq(data, Len(Start(f)) + 1, Len(data))
         IN /\ IsPrefix(Start(f), data)
            /\ memmem(heads, HeadersEnd) = 2
            /\ memmem(SubSeq(heads, 1, 1), <<"filename">>) # 0 <=> f.parts[k].file
            /\ SubSeq(heads, 6, Len(heads)) = Piece(f, TextAt(f, k), c)
<1> DEFINE M == Message(f)
           P == PartAt(f, k)
           st == Start(f)
           he == HeadersEnd
           fn == <<"filename">>
           h == Header(f.parts[k])
           data == SubSeq(M, P + 1, c)
           heads == SubSeq(data, Len(st) + 1, Len(data))
           hs == SubSeq(M, (P + 5) + 1, c)
           one == SubSeq(M, (P + 5) + 1, P + 6)
<1>1. M \in Seq(Symbols(f)) /\ P \in Nat /\ Len(M) \in Nat /\ \A i \in 1..10 : M[P + i] = Opening(f.parts[k])[i]
  <2>1. k \in 1..(Len(f.parts) + 1)
    BY FormTyped DEF Parts
  <2>2. P \in Nat
    BY <2>1, PartAtIs
  <2>3. M \in Seq(Symbols(f))
    BY EndLayout
  <2>4. QED
    BY <2>2, <2>3, Layout, LenProperties
<1>2. st \in Seq(Symbols(f)) /\ Len(st) = 5 /\ st = <<"-", "-", "B", "CR", "LF">>
  BY FormSymbols, Markers
<1>3. he = <<"CR", "LF", "CR", "LF">>
  BY Tuple22, Zenon DEF HeadersEnd, CRLF
<1>4. he \in Seq(Symbols(f)) /\ Len(he) = 4 /\ he[1] = "CR" /\ fn \in Seq(Symbols(f)) /\ Len(fn) = 1 /\ fn[1] = "filename"
  <2>1. "filename" \in Symbols(f)
    BY DEF Symbols
  <2>2. QED
    BY <1>3, <2>1, SymbolsHold
<1>5. h # "CR" /\ (h = "filename" <=> f.parts[k].file)
  BY SymbolsHold, PartTyped DEF Header
<1>6. P + 9 < c /\ c <= Len(M)
  OBVIOUS
<1>7. /\ \A j \in 1..5 : M[P + j] = st[j]
      /\ M[P + 6] = h
      /\ \A j \in 1..4 : M[(P + 6) + j] = he[j]
  <2> HIDE DEF h
  <2>1. Opening(f.parts[k]) = <<"-", "-", "B", "CR", "LF", h, "CR", "LF", "CR", "LF">>
    BY DEF Opening, h
  <2> HIDE DEF M, P, st, he
  <2>2. \A j \in 1..5 : M[P + j] = st[j]
    <3>1. M[P + 1] = "-" /\ M[P + 2] = "-" /\ M[P + 3] = "B" /\ M[P + 4] = "CR" /\ M[P + 5] = "LF"
      BY <1>1, <2>1
    <3>2. st[1] = "-" /\ st[2] = "-" /\ st[3] = "B" /\ st[4] = "CR" /\ st[5] = "LF"
      BY <1>2
    <3>3. \A j \in 1..5 : j = 1 \/ j = 2 \/ j = 3 \/ j = 4 \/ j = 5
      OBVIOUS
    <3>4. QED
      BY <3>1, <3>2, <3>3, Zenon
  <2>3. M[P + 6] = h
    BY <1>1, <2>1
  <2>4. M[P + 7] = "CR" /\ M[P + 8] = "LF" /\ M[P + 9] = "CR" /\ M[P + 10] = "LF"
    BY <1>1, <2>1
  <2>5. (P + 6) + 1 = P + 7 /\ (P + 6) + 2 = P + 8 /\ (P + 6) + 3 = P + 9 /\ (P + 6) + 4 = P + 10
    BY <1>1
  <2>6. \A j \in 1..4 : j = 1 \/ j = 2 \/ j = 3 \/ j = 4
    OBVIOUS
  <2>7. \A j \in 1..4 : M[(P + 6) + j] = he[j]
    BY <1>3, <2>4, <2>5, <2>6
  <2>8. QED
    BY <2>2, <2>3, <2>7
<1> HIDE DEF M, P, st, he, h, fn
<1>8. data \in Seq(Symbols(f)) /\ Len(data) = c - P
  <2>1. P <= c
    BY <1>1, <1>6
  <2>2. QED
    BY <1>1, <1>6, <2>1, Cut
<1>9. IsPrefix(st, data)
  <2>1. Hit(data, st, 0 + 1)
    <3>1. Lies(M, st, P + 0) /\ 0 + Len(st) <= c - P
      BY <1>1, <1>2, <1>6, <1>7 DEF Lies
    <3>2. P <= c
      BY <1>1, <1>6
    <3>3. QED
      BY <1>1, <1>2, <1>6, <3>1, <3>2, HitIs
  <2>2. SubSeq(data, 1, 5) = st
    BY <1>2, <2>1 DEF Hit
  <2>3. SubSeq(st, 1, Len(st)) = st
    BY <1>2, SubSeqFull
  <2>4. Len(st) <= Len(data)
    BY <1>1, <1>2, <1>6, <1>8
  <2> HIDE DEF data
  <2>5. QED
    BY <1>2, <2>2, <2>3, <2>4 DEF IsPrefix
<1>10. heads = hs
  <2>1. SubSeq(SubSeq(M, P + 1, c), 5 + 1, c - P) = SubSeq(M, P + 5 + 1, P + (c - P))
    <3>1. /\ M \in Seq(Symbols(f)) /\ P \in Nat /\ P <= c /\ c <= Len(M) /\ 5 \in Nat
          /\ c - P \in Nat /\ 5 <= c - P /\ c - P <= c - P
      BY <1>1, <1>6
    <3>2. Inner(M, P, c, 5, c - P)
      BY <3>1, CutCut
    <3>3. QED
      BY <3>2 DEF Inner
  <2>2. P + (c - P) = c
    <3>1. P \in Nat /\ c \in Nat
      BY <1>1
    <3>2. QED
      BY <3>1
  <2>3. QED
    BY <1>2, <1>8, <2>1, <2>2
<1>11. P + 5 \in Nat /\ P + 5 <= c /\ P + 6 \in Nat /\ P + 5 <= P + 6 /\ P + 6 <= Len(M) /\ 1 \in Nat /\ 1 <= c - (P + 5)
  <2>1. P \in Nat /\ Len(M) \in Nat /\ P + 9 < c /\ c <= Len(M)
    BY <1>1, <1>6
  <2>2. QED
    BY <2>1
<1>12. hs \in Seq(Symbols(f)) /\ Len(hs) = c - (P + 5) /\ one \in Seq(Symbols(f)) /\ Len(one) = (P + 6) - (P + 5)
  <2>1. hs \in Seq(Symbols(f)) /\ Len(hs) = c - (P + 5)
    <3>1. M \in Seq(Symbols(f)) /\ P + 5 \in Nat /\ P + 5 <= c /\ c <= Len(M)
      BY <1>1, <1>6, <1>11
    <3>2. QED
      BY <3>1, Cut
  <2>2. one \in Seq(Symbols(f)) /\ Len(one) = (P + 6) - (P + 5)
    <3>1. M \in Seq(Symbols(f)) /\ P + 5 \in Nat /\ P + 6 \in Nat /\ P + 5 <= P + 6 /\ P + 6 <= Len(M)
      BY <1>1, <1>11
    <3>2. SubSeq(M, (P + 5) + 1, P + 6) \in Seq(Symbols(f))
          /\ Len(SubSeq(M, (P + 5) + 1, P + 6)) = (P + 6) - (P + 5)
      BY <3>1, Cut
    <3>3. QED
      BY <3>2
  <2>3. QED
    BY <2>1, <2>2
<1>13. Hit(hs, he, 1 + 1)
  <2>1. Lies(M, he, (P + 5) + 1)
    <3>1. (P + 5) + 1 = P + 6
      BY <1>1
    <3>2. Lies(M, he, P + 6)
      BY <1>4, <1>7, Zenon DEF Lies
    <3>3. QED
      BY <3>1, <3>2, Zenon
  <2>2. 1 + Len(he) <= c - (P + 5)
    BY <1>1, <1>4, <1>6
  <2>3. QED
    BY <1>1, <1>4, <1>6, <1>11, <2>1, <2>2, HitIs
<1>14. ~Hit(hs, he, 0 + 1)
  <2>1. (P + 5) + 0 + 1 = P + 6 /\ 1 \in 1..Len(he)
    BY <1>1, <1>4
  <2>2. ~Lies(M, he, (P + 5) + 0)
    BY <1>4, <1>5, <1>7, <2>1 DEF Lies
  <2>3. QED
    BY <1>1, <1>4, <1>6, <1>11, <2>2, HitIs
<1>15. Hit(one, fn, 0 + 1) <=> f.parts[k].file
  <2>1. (P + 5) + 0 + 1 = P + 6 /\ Len(fn) = 1 /\ 0 + Len(fn) <= (P + 6) - (P + 5)
    BY <1>1, <1>4
  <2>2. Lies(M, fn, (P + 5) + 0) <=> h = "filename"
    <3>1. \A j \in 1..1 : j = 1
      OBVIOUS
    <3>2. QED
      BY <1>4, <1>7, <2>1, <3>1 DEF Lies
  <2>3. Hit(one, fn, 0 + 1) <=> 0 + Len(fn) <= (P + 6) - (P + 5) /\ Lies(M, fn, (P + 5) + 0)
    <3>1. /\ M \in Seq(Symbols(f)) /\ P + 5 \in Nat /\ P + 6 \in Nat /\ P + 5 <= P + 6 /\ P + 6 <= Len(M)
          /\ fn \in Seq(Symbols(f)) /\ 0 \in Nat
      BY <1>1, <1>4, <1>11
    <3>2. QED
      BY <3>1, HitIs
  <2>4. QED
    BY <1>5, <2>1, <2>2, <2>3
<1>16. SubSeq(heads, 1, 1) = one
  <2>1. SubSeq(SubSeq(M, (P + 5) + 1, c), 0 + 1, 1) = SubSeq(M, (P + 5) + 0 + 1, (P + 5) + 1)
    <3>1. M \in Seq(Symbols(f)) /\ P + 5 \in Nat /\ P + 5 <= c /\ c <= Len(M) /\ 0 \in Nat /\ 0 <= 1
          /\ 1 \in Nat /\ 1 <= c - (P + 5)
      BY <1>1, <1>6, <1>11
    <3>2. Inner(M, P + 5, c, 0, 1)
      BY <3>1, CutCut
    <3>3. QED
      BY <3>2 DEF Inner
  <2>2. (P + 5) + 0 + 1 = (P + 5) + 1 /\ (P + 5) + 1 = P + 6
    BY <1>1
  <2>3. SubSeq(hs, 0 + 1, 1) = one
    BY <2>1, <2>2, Zenon
  <2> HIDE DEF hs, one
  <2>4. SubSeq(hs, 1, 1) = one
    BY <2>3
  <2> HIDE DEF heads
  <2>5. QED
    BY <1>10, <2>4, Zenon
<1>17. SubSeq(heads, 6, Len(heads)) = SubSeq(M, (P + 10) + 1, c)
  <2>1. SubSeq(SubSeq(M, (P + 5) + 1, c), 5 + 1, c - (P + 5)) = SubSeq(M, (P + 5) + 5 + 1, (P + 5) + (c - (P + 5)))
    <3>1. c - (P + 5) \in Nat /\ 5 <= c - (P + 5) /\ c - (P + 5) <= c - (P + 5)
      BY <1>1, <1>6
    <3>2. M \in Seq(Symbols(f)) /\ P + 5 \in Nat /\ P + 5 <= c /\ c <= Len(M) /\ 5 \in Nat
      BY <1>1, <1>6, <1>11
    <3>3. Inner(M, P + 5, c, 5, c - (P + 5))
      BY <3>1, <3>2, CutCut
    <3>4. QED
      BY <3>3 DEF Inner
  <2>2. (P + 5) + 5 + 1 = (P + 10) + 1 /\ (P + 5) + (c - (P + 5)) = c
    BY <1>1
  <2>3. SubSeq(hs, 5 + 1, c - (P + 5)) = SubSeq(M, (P + 10) + 1, c)
    BY <2>1, <2>2, Zenon
  <2>4. 5 + 1 = 6 /\ Len(heads) = c - (P + 5)
    <3> HIDE DEF heads, hs
    <3>1. Len(heads) = c - (P + 5)
      BY <1>10, <1>12, Zenon
    <3>2. QED
      BY <3>1
  <2>5. SubSeq(hs, 6, c - (P + 5)) = SubSeq(M, (P + 10) + 1, c)
    BY <2>3, <2>4
  <2>6. QED
    BY <1>10, <2>4, <2>5, Zenon
<1> HIDE DEF data, heads, hs, one
<1>18. memmem(heads, he) = 2
  <2>1. Len(hs) \in Nat
    BY <1>12, LenProperties
  <2>2. /\ memmem(hs, he) \in Nat
        /\ memmem(hs, he) = 0 => \A i : ~Hit(hs, he, i)
        /\ memmem(hs, he) # 0 => Hit(hs, he, memmem(hs, he)) /\ \A i : Hit(hs, he, i) => memmem(hs, he) <= i
    BY <1>4, <2>1, FirstHit
  <2> DEFINE m == memmem(hs, he)
  <2> HIDE DEF m
  <2>3. m \in Nat /\ m # 0 /\ m <= 2 /\ Hit(hs, he, m)
    BY <1>13, <2>2 DEF m
  <2>4. m # 1
    BY <1>14, <2>3
  <2>5. QED
    BY <1>10, <2>3, <2>4 DEF m
<1>19. memmem(SubSeq(heads, 1, 1), fn) # 0 <=> f.parts[k].file
  <2>1. Len(one) = 1
    BY <1>1, <1>12
  <2>2. /\ memmem(one, fn) \in Nat
        /\ memmem(one, fn) = 0 => \A i : ~Hit(one, fn, i)
        /\ memmem(one, fn) # 0 => Hit(one, fn, memmem(one, fn))
    BY <1>4, <2>1, FirstHit
  <2>3. \A i : Hit(one, fn, i) => i = 0 + 1
    BY <1>4, <2>1 DEF Hit
  <2> DEFINE m == memmem(one, fn)
  <2> HIDE DEF m
  <2>4. m # 0 <=> Hit(one, fn, 0 + 1)
    BY <2>2, <2>3 DEF m
  <2>5. QED
    BY <1>15, <1>16, <2>4 DEF m
<1>20. data = Piece(f, PartAt(f, k), c) /\ SubSeq(M, (P + 10) + 1, c) = Piece(f, TextAt(f, k), c)
  BY DEF data, Piece, TextAt, P, M
<1>21. QED
  BY <1>9, <1>17, <1>18, <1>19, <1>20 DEF heads, st, he, fn

\* Nothing of a plain text is taken for a marker.
LEMMA NoPlainMarker ==
  ASSUME NEW f \in Forms, ~f.multipart, NEW a \in Nat, NEW c \in Nat, a <= c, c <= Len(Message(f))
  PROVE  ~IsPrefix(Start(f), Piece(f, a, c))
<1> DEFINE M == Message(f)
           st == Start(f)
           data == SubSeq(M, a + 1, c)
<1> SUFFICES ASSUME IsPrefix(st, data) PROVE FALSE
  BY DEF Piece
<1>1. M = f.parts[1].text /\ M \in Seq(Symbols(f)) /\ Len(M) \in Nat
  <2>1. 1 \in Parts(f)
    BY FormTyped DEF Parts
  <2>2. QED
    BY <2>1, PartTyped, LenProperties DEF Message
<1>2. st = <<"-", "-", "CR", "LF">>
  BY Markers
<1>3. st \in Seq(Symbols(f)) /\ Len(st) = 4
  BY <1>2, SymbolsHold
<1>4. \A i \in 1..(Len(M) - 4 + 1) : SubSeq(M, i, i + 4 - 1) # st
  BY <1>1, <1>3, FormAssumption
<1> HIDE DEF M, st
<1>5. Len(data) = c - a
  BY <1>1, Cut DEF M
<1>6. Len(st) <= Len(data) /\ SubSeq(st, 1, Len(st)) = SubSeq(data, 1, Len(st))
  BY DEF IsPrefix
<1>7. SubSeq(data, 1, 4) = st
  BY <1>3, <1>6, SubSeqFull
<1>8. 4 <= c - a
  BY <1>3, <1>5, <1>6
<1>9. SubSeq(SubSeq(M, a + 1, c), 0 + 1, 4) = SubSeq(M, a + 0 + 1, a + 4)
  <2>1. Inner(M, a, c, 0, 4)
    BY <1>1, <1>8, CutCut DEF M
  <2>2. QED
    BY <2>1 DEF M, Inner
<1>10. a + 0 + 1 = a + 1 /\ a + 4 = (a + 1) + 4 - 1 /\ a + 1 \in 1..(Len(M) - 4 + 1)
  BY <1>1, <1>8 DEF M
<1>11. SubSeq(M, a + 1, (a + 1) + 4 - 1) = st
  <2>1. SubSeq(data, 0 + 1, 4) = SubSeq(M, a + 1, (a + 1) + 4 - 1)
    BY <1>9, <1>10, Zenon
  <2>2. 0 + 1 = 1
    OBVIOUS
  <2>3. QED
    BY <1>7, <2>1, <2>2, Zenon
<1>12. QED
  BY <1>4, <1>10, <1>11
-----------------------------------------------------------------------------
\* What is stored of the first parts.
LEMMA SavedTyped ==
  ASSUME NEW f \in Forms, NEW k \in 0..Len(f.parts)
  PROVE  /\ SavedUpTo(f, k) \in Seq(Symbols(f)) /\ SavedUpTo(f, 0) = <<>>
         /\ SavedUpTo(f, Len(f.parts)) = Saved(f)
         /\ \E q \in Seq(Symbols(f)) : Saved(f) = SavedUpTo(f, k) \o q
<1> DEFINE n == Len(f.parts)
           s == Fields(f)
<1>1. n \in Nat /\ s \in Seq(Seq(Symbols(f))) /\ Len(s) = n
  BY FormTyped, FieldsTyped
<1>2. Saved(f) = FlattenSeq(s)
  BY DEF Saved, Fields
<1>3. \A j : SavedUpTo(f, j) = Layers(s, j)
  BY DEF SavedUpTo, Layers
<1> HIDE DEF s
<1>4. k \in Nat /\ k <= n /\ n <= Len(s)
  BY <1>1
<1>5. Layers(s, n) = FlattenSeq(s)
  BY <1>1, SubSeqFull DEF Layers
<1>6. Layers(s, k) \in Seq(Symbols(f)) /\ Layers(s, 0) = <<>>
  BY <1>1, <1>4, LayersTyped, LayersStart
<1>7. \E q \in Seq(Symbols(f)) : Layers(s, n) = Layers(s, k) \o q
  <2>1. Extends(Symbols(f), s, k, n)
    BY <1>1, <1>4, LayersGrow
  <2>2. QED
    BY <2>1 DEF Extends
<1>8. QED
  BY <1>2, <1>3, <1>5, <1>6, <1>7, Zenon

LEMMA SavedNext ==
  ASSUME NEW f \in Forms, NEW k \in Parts(f)
  PROVE  /\ k - 1 \in 0..Len(f.parts) /\ k \in 0..Len(f.parts)
         /\ SavedUpTo(f, k) = SavedUpTo(f, k - 1) \o (IF f.parts[k].file THEN <<>> ELSE f.parts[k].text)
<1> DEFINE n == Len(f.parts)
           s == Fields(f)
<1>1. n \in Nat /\ s \in Seq(Seq(Symbols(f))) /\ Len(s) = n
      /\ s[k] = IF f.parts[k].file THEN <<>> ELSE f.parts[k].text
  BY FormTyped, FieldsTyped
<1>2. \A j : SavedUpTo(f, j) = Layers(s, j)
  BY DEF SavedUpTo, Layers
<1> HIDE DEF s
<1>3. k - 1 \in Nat /\ k - 1 < Len(s) /\ k - 1 <= Len(s) /\ (k - 1) + 1 = k /\ k \in 0..n /\ k - 1 \in 0..n
  BY <1>1 DEF Parts
<1>4. Layers(s, k - 1) \in Seq(Symbols(f))
  BY <1>1, <1>3, LayersTyped
<1>5. Layers(s, (k - 1) + 1) = Layers(s, k - 1) \o s[(k - 1) + 1]
  BY <1>1, <1>3, <1>4, LayersNext
<1>6. SavedUpTo(f, k) = SavedUpTo(f, k - 1) \o s[k]
  BY <1>2, <1>3, <1>5
<1>7. QED
  BY <1>1, <1>3, <1>6

LEMMA StoredTyped ==
  ASSUME NEW f \in Forms, f.multipart, NEW k \in Parts(f), NEW x \in 0..(TextLen(f, k) + 2)
  PROVE  /\ SavedUpTo(f, k - 1) \in Seq(Symbols(f))
         /\ Piece(f, TextAt(f, k), TextAt(f, k) + x) \in Seq(Symbols(f))
         /\ Len(Piece(f, TextAt(f, k), TextAt(f, k) + x)) = x
         /\ StoredOf(f, k, x) \in Seq(Symbols(f))
         /\ TextAt(f, k) \in Nat /\ TextAt(f, k) + x <= Len(Message(f))
<1> DEFINE T == TextAt(f, k)
           n == TextLen(f, k)
           M == Message(f)
           p == SavedUpTo(f, k - 1)
<1>1. p \in Seq(Symbols(f))
  BY SavedNext, SavedTyped
<1>2. n \in Nat /\ T \in Nat /\ T + x <= Len(M) /\ M \in Seq(Symbols(f)) /\ Len(M) \in Nat
  <2>1. k \in 1..(Len(f.parts) + 1)
    BY FormTyped DEF Parts
  <2>2. n \in Nat /\ PartAt(f, k) \in Nat
    BY <2>1, PartAtIs, PartTyped
  <2>3. T \in Nat /\ T = PartAt(f, k) + 10
    BY <2>2 DEF TextAt
  <2>4. PartAt(f, k + 1) = (T + n) + 2 /\ PartAt(f, k + 1) + 7 <= Len(M)
    BY Layout, MarkerBehind
  <2>5. M \in Seq(Symbols(f)) /\ Len(M) \in Nat
    BY EndLayout, LenProperties
  <2> HIDE DEF T, M, n
  <2>6. T + x <= Len(M)
    <3>1. x \in 0..(n + 2)
      BY DEF n
    <3>2. ((T + n) + 2) + 7 <= Len(M)
      BY <2>4
    <3>3. QED
      <4> DEFINE L == Len(M)
      <4>1. n \in Nat /\ T \in Nat /\ L \in Nat /\ ((T + n) + 2) + 7 <= L
        BY <2>2, <2>3, <2>5, <3>2
      <4> HIDE DEF L
      <4>2. T + x <= L
        BY <3>1, <4>1
      <4>3. QED
        BY <4>2 DEF L
  <2>7. QED
    BY <2>2, <2>3, <2>5, <2>6
<1> HIDE DEF T, M, n, p
<1>3. Piece(f, T, T + x) \in Seq(Symbols(f)) /\ Len(Piece(f, T, T + x)) = x
  <2>1. T + x \in Nat /\ T <= T + x /\ (T + x) - T = x
    BY <1>2 DEF n
  <2>2. SubSeq(M, T + 1, T + x) \in Seq(Symbols(f)) /\ Len(SubSeq(M, T + 1, T + x)) = (T + x) - T
    BY <1>2, <2>1, Cut
  <2>3. QED
    BY <2>1, <2>2 DEF Piece, M
<1>4. StoredOf(f, k, x) \in Seq(Symbols(f))
  <2> DEFINE q == IF f.parts[k].file THEN <<>> ELSE Piece(f, T, T + x)
  <2>1. q \in Seq(Symbols(f))
    BY <1>3, EmptySeq
  <2>2. StoredOf(f, k, x) = p \o q
    BY DEF StoredOf, T, p
  <2> HIDE DEF q
  <2>3. QED
    BY <1>1, <2>1, <2>2, ConcatProperties
<1>5. QED
  BY <1>1, <1>2, <1>3, <1>4 DEF T, M, n, p

LEMMA StoredStart ==
  ASSUME NEW f \in Forms, f.multipart, NEW k \in Parts(f)
  PROVE  StoredOf(f, k, 0) = SavedUpTo(f, k - 1)
<1>1. 0 \in 0..(TextLen(f, k) + 2)
  BY PartTyped
<1>2. SavedUpTo(f, k - 1) \in Seq(Symbols(f)) /\ Len(Piece(f, TextAt(f, k), TextAt(f, k) + 0)) = 0
      /\ Piece(f, TextAt(f, k), TextAt(f, k) + 0) \in Seq(Symbols(f))
  BY <1>1, StoredTyped
<1>3. Piece(f, TextAt(f, k), TextAt(f, k) + 0) = <<>>
  BY <1>2, EmptySeq
<1>4. SavedUpTo(f, k - 1) \o <<>> = SavedUpTo(f, k - 1)
  BY <1>2, ConcatEmptySeq
<1>5. QED
  BY <1>3, <1>4, Zenon DEF StoredOf

LEMMA StoredMore ==
  ASSUME NEW f \in Forms, f.multipart, NEW k \in Parts(f),
         NEW x \in Nat, NEW y \in Nat, x <= y, y <= TextLen(f, k) + 2
  PROVE  StoredOf(f, k, y) = IF f.parts[k].file THEN StoredOf(f, k, x)
                             ELSE StoredOf(f, k, x) \o Piece(f, TextAt(f, k) + x, TextAt(f, k) + y)
<1>1. x \in 0..(TextLen(f, k) + 2) /\ y \in 0..(TextLen(f, k) + 2)
  BY PartTyped
<1> DEFINE T == TextAt(f, k)
           M == Message(f)
           p == SavedUpTo(f, k - 1)
           u == Piece(f, T, T + x)
           v == Piece(f, T + x, T + y)
           w == Piece(f, T, T + y)
<1>2. p \in Seq(Symbols(f)) /\ T \in Nat /\ T + y <= Len(M) /\ T + x <= Len(M) /\ u \in Seq(Symbols(f))
  BY <1>1, StoredTyped
<1>3. M \in Seq(Symbols(f))
  BY EndLayout
<1> HIDE DEF T, M, p
<1>4. T + x \in Nat /\ T + y \in Nat /\ T <= T + x /\ T + x <= T + y
  BY <1>2
<1>5. u \o v = w
  BY <1>2, <1>3, <1>4, CutJoin DEF Piece, M
<1>6. v \in Seq(Symbols(f))
  BY <1>2, <1>3, <1>4, Cut DEF Piece, M
<1> HIDE DEF u, v, w
<1>7. (p \o u) \o v = p \o (u \o v)
  <2>1. Assoc(p, u, v)
    BY <1>2, <1>6, ConcatTwice
  <2>2. QED
    BY <2>1 DEF Assoc
<1>8. CASE f.parts[k].file
  BY <1>8 DEF StoredOf
<1>9. CASE ~f.parts[k].file
  <2>1. StoredOf(f, k, x) = p \o u /\ StoredOf(f, k, y) = p \o w
    BY <1>9 DEF StoredOf, u, w, p, T
  <2>2. StoredOf(f, k, y) = StoredOf(f, k, x) \o v
    BY <1>5, <1>7, <2>1, Zenon
  <2>3. QED
    BY <1>9, <2>2 DEF v, T
<1>10. QED
  BY <1>8, <1>9

LEMMA TextPiece ==
  ASSUME NEW f \in Forms, f.multipart, NEW k \in Parts(f)
  PROVE  Piece(f, TextAt(f, k), TextAt(f, k) + TextLen(f, k)) = f.parts[k].text
<1> DEFINE T == TextAt(f, k)
           n == TextLen(f, k)
           M == Message(f)
           text == f.parts[k].text
           u == SubSeq(M, T + 1, T + n)
<1>1. text \in Seq(Symbols(f)) /\ Len(text) = n /\ n \in Nat
  BY PartTyped DEF TextLen
<1>2. \A i \in 1..n : M[T + i] = text[i]
  BY Layout
<1>3. T \in Nat /\ T + n <= Len(M) /\ M \in Seq(Symbols(f))
  <2>1. n \in 0..(TextLen(f, k) + 2)
    BY <1>1
  <2>2. QED
    BY <2>1, StoredTyped, EndLayout
<1> HIDE DEF T, n, M, text
<1>4. u \in Seq(Symbols(f)) /\ Len(u) = n /\ \A i \in 1..n : u[i] = M[T + i]
  <2>1. T + n \in Nat /\ T <= T + n /\ (T + n) - T = n
    BY <1>1, <1>3
  <2>2. u \in Seq(Symbols(f)) /\ Len(u) = (T + n) - T /\ \A i \in 1..((T + n) - T) : u[i] = M[T + i]
    BY <1>3, <2>1, Cut
  <2>3. QED
    BY <2>1, <2>2
<1> HIDE DEF u
<1>5. u = text
  BY <1>1, <1>2, <1>4, SeqEqual
<1>6. QED
  BY <1>5 DEF u, T, n, M, text, Piece

LEMMA StoredAll ==
  ASSUME NEW f \in Forms, f.multipart, NEW k \in Parts(f)
  PROVE  StoredOf(f, k, TextLen(f, k)) = SavedUpTo(f, k)
<1>1. Piece(f, TextAt(f, k), TextAt(f, k) + TextLen(f, k)) = f.parts[k].text
  BY TextPiece
<1>2. SavedUpTo(f, k) = SavedUpTo(f, k - 1) \o (IF f.parts[k].file THEN <<>> ELSE f.parts[k].text)
  BY SavedNext
<1>3. QED
  BY <1>1, <1>2, Zenon DEF StoredOf
-----------------------------------------------------------------------------
\* What StoredIsPrefix asks of post_data.
Good(f, post) ==
  \E n \in 0..2 :
    /\ IsSuffix(SubSeq(CRLF, 1, n), post)
    /\ IsPrefix(SubSeq(post, 1, Len(post) - n), Saved(f))

LEMMA GoodIs ==
  ASSUME NEW f \in Forms, NEW p \in Seq(Symbols(f)), NEW q \in Seq(Symbols(f)), Saved(f) = p \o q,
         NEW n \in 0..2
  PROVE  Good(f, p \o SubSeq(CRLF, 1, n))
<1> DEFINE e == SubSeq(CRLF, 1, n)
           post == p \o e
<1>1. CRLF \in Seq(Symbols(f)) /\ Len(CRLF) = 2
  BY SymbolsHold DEF CRLF
<1>2. e \in Seq(Symbols(f)) /\ Len(e) = n
  <2>1. n \in Nat /\ n <= 2
    OBVIOUS
  <2>2. QED
    BY <1>1, <2>1, CutFront
<1> HIDE DEF e
<1>3. IsSuffix(e, post)
  BY <1>2, SuffixOfConcat
<1>4. Glued(Symbols(f), post, p, e)
  BY <1>2, Glue
<1>5. IsPrefix(p, post)
  BY <1>2, PrefixOfConcat
<1> HIDE DEF post
<1>6. Len(post) = Len(p) + n /\ Len(p) \in Nat
  BY <1>2, <1>4, LenProperties DEF Glued
<1>7. SubSeq(post, 1, Len(post) - n) = p
  <2>1. SubSeq(p, 1, Len(p)) = SubSeq(post, 1, Len(p))
    BY <1>5 DEF IsPrefix
  <2>2. SubSeq(p, 1, Len(p)) = p
    BY SubSeqFull
  <2>3. Len(post) - n = Len(p)
    BY <1>6
  <2>4. QED
    BY <2>1, <2>2, <2>3
<1>8. IsPrefix(p, Saved(f))
  BY PrefixOfConcat
<1>9. Good(f, post)
  BY <1>3, <1>7, <1>8, Zenon DEF Good, e
<1>10. QED
  BY <1>9 DEF post, e

LEMMA GoodPrefix ==
  ASSUME NEW f \in Forms, NEW p \in Seq(Symbols(f)), NEW q \in Seq(Symbols(f)), Saved(f) = p \o q
  PROVE  Good(f, p)
<1>1. 0 \in 0..2 /\ SubSeq(CRLF, 1, 0) = <<>>
  BY SubSeqEmpty
<1>2. p \o <<>> = p
  BY ConcatEmptySeq
<1>3. Good(f, p \o SubSeq(CRLF, 1, 0))
  BY <1>1, GoodIs
<1>4. QED
  BY <1>1, <1>2, <1>3

LEMMA GoodSaved ==
  ASSUME NEW f \in Forms, NEW k \in 0..Len(f.parts)
  PROVE  Good(f, SavedUpTo(f, k))
<1>1. PICK q \in Seq(Symbols(f)) : Saved(f) = SavedUpTo(f, k) \o q
  BY SavedTyped
<1>2. SavedUpTo(f, k) \in Seq(Symbols(f))
  BY SavedTyped
<1>3. QED
  BY <1>1, <1>2, GoodPrefix

LEMMA MessageTyped ==
  ASSUME NEW f \in Forms
  PROVE  /\ Message(f) \in Seq(Symbols(f)) /\ Len(Message(f)) \in Nat
         /\ ~f.multipart => Saved(f) = Message(f)
<1>1. CASE f.multipart
  BY <1>1, EndLayout, LenProperties
<1>2. CASE ~f.multipart
  <2>1. 1 \in Parts(f) /\ Len(f.parts) = 1 /\ ~f.parts[1].file
    BY <1>2, FormTyped DEF Parts
  <2>2. Message(f) = f.parts[1].text /\ f.parts[1].text \in Seq(Symbols(f))
    BY <1>2, <2>1, PartTyped DEF Message
  <2>3. SavedUpTo(f, 1) = SavedUpTo(f, 1 - 1) \o f.parts[1].text
    BY <2>1, SavedNext
  <2>4. SavedUpTo(f, 0) = <<>> /\ SavedUpTo(f, 1) = Saved(f)
    <3>1. 1 \in 0..Len(f.parts)
      BY <2>1
    <3>2. QED
      BY <2>1, <3>1, SavedTyped
  <2>5. <<>> \o f.parts[1].text = f.parts[1].text
    BY <2>2, ConcatEmptySeq
  <2>6. 1 - 1 = 0
    OBVIOUS
  <2>7. Saved(f) = Message(f)
    BY <2>2, <2>3, <2>4, <2>5, <2>6
  <2>8. QED
    BY <2>2, <2>7, LenProperties
<1>3. QED
  BY <1>1, <1>2

LEMMA PieceTyped ==
  ASSUME NEW f \in Forms, NEW a \in Nat, NEW b \in Nat, a <= b, b <= Len(Message(f))
  PROVE  Piece(f, a, b) \in Seq(Symbols(f)) /\ Len(Piece(f, a, b)) = b - a
BY MessageTyped, Cut DEF Piece

LEMMA PieceJoin ==
  ASSUME NEW f \in Forms, NEW a \in Nat, NEW b \in Nat, NEW c \in Nat,
         a <= b, b <= c, c <= Len(Message(f))
  PROVE  Piece(f, a, b) \o Piece(f, b, c) = Piece(f, a, c)
BY MessageTyped, CutJoin DEF Piece

LEMMA GoodStored ==
  ASSUME NEW f \in Forms, f.multipart, NEW k \in Parts(f), NEW x \in 0..(TextLen(f, k) + 2)
  PROVE  Good(f, StoredOf(f, k, x))
<1> DEFINE n == TextLen(f, k)
           T == TextAt(f, k)
           M == Message(f)
<1>1. n \in Nat /\ x \in Nat /\ x <= n + 2 /\ n \in 0..(n + 2)
  BY PartTyped
<1>2. CASE f.parts[k].file
  <2>1. k - 1 \in 0..Len(f.parts)
    BY SavedNext
  <2>2. SavedUpTo(f, k - 1) \o <<>> = SavedUpTo(f, k - 1)
    BY <2>1, SavedTyped, ConcatEmptySeq
  <2>3. StoredOf(f, k, x) = SavedUpTo(f, k - 1)
    BY <1>2, <2>2 DEF StoredOf
  <2>4. QED
    BY <2>1, <2>3, GoodSaved
<1>3. CASE ~f.parts[k].file /\ x <= n
  <2> DEFINE p == StoredOf(f, k, x)
             v == Piece(f, T + x, T + n)
  <2>1. SavedUpTo(f, k) = p \o v
    <3>1. n <= n + 2
      BY <1>1
    <3>2. StoredOf(f, k, n) = p \o v
      BY <1>1, <1>3, <3>1, StoredMore
    <3>3. QED
      BY <3>2, StoredAll
  <2>2. p \in Seq(Symbols(f))
    BY StoredTyped
  <2>3. v \in Seq(Symbols(f))
    <3>1. T \in Nat /\ T + n <= Len(M) /\ M \in Seq(Symbols(f))
      BY <1>1, StoredTyped, EndLayout
    <3> HIDE DEF T, M, n
    <3>2. T + x \in Nat /\ T + n \in Nat /\ T + x <= T + n
      BY <1>1, <1>3, <3>1
    <3>3. T + n <= Len(Message(f))
      BY <3>1 DEF M
    <3>4. QED
      BY <3>2, <3>3, PieceTyped
  <2>4. PICK q \in Seq(Symbols(f)) : Saved(f) = SavedUpTo(f, k) \o q
    BY SavedNext, SavedTyped
  <2> HIDE DEF p, v
  <2>5. (p \o v) \o q = p \o (v \o q)
    <3>1. Assoc(p, v, q)
      BY <2>2, <2>3, ConcatTwice
    <3>2. QED
      BY <3>1 DEF Assoc
  <2>6. v \o q \in Seq(Symbols(f))
    BY <2>3, ConcatProperties
  <2>7. Saved(f) = p \o (v \o q)
    BY <2>1, <2>4, <2>5, Zenon
  <2>8. Good(f, p)
    BY <2>2, <2>6, <2>7, GoodPrefix
  <2>9. QED
    BY <2>8 DEF p
<1>4. CASE ~f.parts[k].file /\ ~(x <= n)
  <2> DEFINE p == SavedUpTo(f, k)
             v == Piece(f, T + n, T + x)
             d == x - n
             e == SubSeq(CRLF, 1, d)
  <2>1. StoredOf(f, k, x) = p \o v
    <3>1. n <= x
      BY <1>1, <1>4
    <3>2. StoredOf(f, k, x) = StoredOf(f, k, n) \o v
      BY <1>1, <1>4, <3>1, StoredMore
    <3>3. QED
      BY <3>2, StoredAll
  <2>2. T \in Nat /\ T + x <= Len(M) /\ M \in Seq(Symbols(f)) /\ M[(T + n) + 1] = "CR" /\ M[(T + n) + 2] = "LF"
    BY StoredTyped, EndLayout, Layout
  <2>3. d \in 1..2 /\ d \in 0..2 /\ (T + x) - (T + n) = d
    BY <1>1, <1>4, <2>2
  <2>4. v \in Seq(Symbols(f)) /\ Len(v) = d /\ \A i \in 1..d : v[i] = M[(T + n) + i]
    <3> HIDE DEF T, M, n, d
    <3>1. T + x \in Nat /\ T + n \in Nat /\ T + n <= T + x
      BY <1>1, <1>4, <2>2
    <3>11. M \in Seq(Symbols(f)) /\ T + x <= Len(M)
      BY <2>2
    <3> DEFINE u == SubSeq(M, (T + n) + 1, T + x)
    <3>2. u \in Seq(Symbols(f)) /\ Len(u) = (T + x) - (T + n) /\ \A i \in 1..((T + x) - (T + n)) : u[i] = M[(T + n) + i]
      BY <3>1, <3>11, Cut
    <3>3. u = v
      BY DEF Piece, M
    <3> HIDE DEF u, v
    <3>4. QED
      BY <2>3, <3>2, <3>3
  <2>5. e \in Seq(Symbols(f)) /\ Len(e) = d /\ \A i \in 1..d : e[i] = CRLF[i]
    <3> HIDE DEF d
    <3>1. CRLF \in Seq(Symbols(f)) /\ Len(CRLF) = 2
      BY SymbolsHold DEF CRLF
    <3>2. d \in Nat /\ d <= 2
      BY <2>3
    <3>3. QED
      BY <3>1, <3>2, CutFront
  <2>6. v = e
    <3>1. CRLF[1] = "CR" /\ CRLF[2] = "LF"
      BY DEF CRLF
    <3> HIDE DEF v, e, d, T, M, n
    <3>2. \A i \in 1..d : i = 1 \/ i = 2
      BY <2>3
    <3>3. \A i \in 1..d : v[i] = e[i]
      BY <2>2, <2>4, <2>5, <3>1, <3>2
    <3>4. QED
      BY <2>4, <2>5, <3>3, SeqEqual
  <2>7. PICK q \in Seq(Symbols(f)) : Saved(f) = p \o q
    BY SavedNext, SavedTyped
  <2>8. p \in Seq(Symbols(f))
    BY SavedNext, SavedTyped
  <2> HIDE DEF p, d
  <2>9. Good(f, p \o e)
    BY <2>3, <2>7, <2>8, GoodIs
  <2>10. QED
    BY <2>1, <2>6, <2>9, Zenon
<1>5. QED
  BY <1>2, <1>3, <1>4

LEMMA GoodPlain ==
  ASSUME NEW f \in Forms, ~f.multipart, NEW a \in Places(f)
  PROVE  Good(f, Piece(f, 0, a))
<1> DEFINE M == Message(f)
           L == Len(M)
<1>1. M \in Seq(Symbols(f)) /\ L \in Nat /\ Saved(f) = M /\ a \in Nat /\ a <= L /\ 0 <= a /\ L <= L
  BY MessageTyped DEF Places
<1>2. Piece(f, 0, a) \in Seq(Symbols(f)) /\ Piece(f, a, L) \in Seq(Symbols(f))
  BY <1>1, PieceTyped
<1>3. Piece(f, 0, a) \o Piece(f, a, L) = Piece(f, 0, L)
  BY <1>1, PieceJoin
<1>4. Piece(f, 0, L) = M
  <2>1. 0 + 1 = 1 /\ SubSeq(M, 1, L) = M
    BY <1>1, SubSeqFull
  <2>2. QED
    BY <2>1 DEF Piece
<1>5. QED
  BY <1>1, <1>2, <1>3, <1>4, GoodPrefix
-----------------------------------------------------------------------------
\* A place behind a place is behind every place in front of that one.
LEMMA Onward ==
  ASSUME NEW f \in Forms, NEW a \in Nat, NEW b \in Places(f), NEW c \in Places(f), a <= b, b <= c
  PROVE  a <= c /\ c \in Nat /\ c <= Len(Message(f))
<1> DEFINE L == Len(Message(f))
<1>1. L \in Nat
  BY MessageTyped
<1>2. b \in 0..L /\ c \in 0..L
  BY DEF Places, L
<1> HIDE DEF L
<1>3. a <= c /\ c \in Nat /\ c <= L
  BY <1>1, <1>2
<1>4. QED
  BY <1>3 DEF L
-----------------------------------------------------------------------------
\* A piece of a piece, and what is left of it.
Splits(f, a, c, j) ==
  /\ SubSeq(Piece(f, a, c), 1, j) = Piece(f, a, a + j)
  /\ SubSeq(Piece(f, a, c), j + 1, Len(Piece(f, a, c))) = Piece(f, a + j, c)

LEMMA PieceCut ==
  ASSUME NEW f \in Forms, NEW a \in Nat, NEW c \in Nat, a <= c, c <= Len(Message(f)), NEW j \in 0..(c - a)
  PROVE  Splits(f, a, c, j)
<1> DEFINE M == Message(f)
<1>1. M \in Seq(Symbols(f)) /\ Len(M) \in Nat
  BY MessageTyped
<1>2. Len(Piece(f, a, c)) = c - a
  BY PieceTyped
<1>3. j \in Nat /\ j <= c - a /\ c - a \in Nat /\ a + (c - a) = c /\ 0 + 1 = 1 /\ a + 0 + 1 = a + 1
  OBVIOUS
<1>4. SubSeq(SubSeq(M, a + 1, c), 0 + 1, j) = SubSeq(M, a + 0 + 1, a + j)
  <2>1. Inner(M, a, c, 0, j)
    BY <1>1, <1>3, CutCut
  <2>2. QED
    BY <2>1 DEF Inner
<1>5. SubSeq(SubSeq(M, a + 1, c), j + 1, c - a) = SubSeq(M, a + j + 1, a + (c - a))
  <2>1. Inner(M, a, c, j, c - a)
    BY <1>1, <1>3, CutCut
  <2>2. QED
    BY <2>1 DEF Inner
<1>6. SubSeq(SubSeq(M, a + 1, c), 1, j) = SubSeq(M, a + 1, a + j)
  BY <1>3, <1>4, Zenon
<1>7. SubSeq(SubSeq(M, a + 1, c), j + 1, c - a) = SubSeq(M, a + j + 1, c)
  BY <1>3, <1>5, Zenon
<1>8. QED
  BY <1>2, <1>6, <1>7, Zenon DEF Piece, M, Splits

\* Where a marker is found the text before it has been stored, unless the
\* program ends.
LEMMA UpToMarker ==
  ASSUME form \in Forms, form.multipart, NEW k \in Parts(form), NEW x \in 0..(TextLen(form, k) + 2),
         NEW c \in Nat, PartAt(form, k + 1) + 5 <= c, c <= Len(Message(form)),
         post_data = StoredOf(form, k, x),
         StoreUpTo(Piece(form, TextAt(form, k) + x, c), (TextLen(form, k) + 3) - x, form.parts[k].file),
         pc' # "terminated"
  PROVE  post_data' = SavedUpTo(form, k)
<1> DEFINE T == TextAt(form, k)
           n == TextLen(form, k)
           file == form.parts[k].file
           data == Piece(form, T + x, c)
           m == (n + 3) - x
<1>1. n \in Nat /\ T \in Nat /\ x \in 0..(n + 2) /\ PartAt(form, k + 1) = (T + n) + 2
  <2>1. n \in Nat
    BY PartTyped
  <2>2. T \in Nat
    BY StoredTyped
  <2>3. QED
    BY <2>1, <2>2, Layout
<1>2. /\ post_data' = IF file THEN post_data ELSE post_data \o SubSeq(data, 1, m - 3)
      /\ ~file => ~(m < 3)
  BY DEF StoreUpTo
<1>3. StoredOf(form, k, n) = SavedUpTo(form, k)
  BY StoredAll
<1>4. CASE file
  <2>1. StoredOf(form, k, x) = StoredOf(form, k, n)
    BY <1>4 DEF StoredOf
  <2>2. QED
    BY <1>2, <1>3, <1>4, <2>1
<1>5. CASE ~file
  <2> HIDE DEF n, T, data, file
  <2>1. x <= n /\ m - 3 = n - x /\ x \in Nat
    <3>1. ~(m < 3)
      BY <1>2, <1>5
    <3>2. QED
      BY <1>1, <3>1
  <2>2. SubSeq(data, 1, n - x) = Piece(form, T + x, T + n)
    <3>1. T + x \in Nat /\ T + x <= c /\ n - x \in 0..(c - (T + x)) /\ (T + x) + (n - x) = T + n
      BY <1>1, <2>1
    <3>2. SubSeq(Piece(form, T + x, c), 1, n - x) = Piece(form, T + x, (T + x) + (n - x))
      <4>1. Splits(form, T + x, c, n - x)
        BY <3>1, PieceCut
      <4>2. QED
        BY <4>1 DEF Splits
    <3>3. QED
      BY <3>1, <3>2 DEF data
  <2>3. StoredOf(form, k, n) = StoredOf(form, k, x) \o Piece(form, T + x, T + n)
    <3>1. n <= TextLen(form, k) + 2 /\ n \in Nat
      BY <1>1 DEF n
    <3>2. QED
      BY <1>5, <2>1, <3>1, StoredMore DEF file, T
  <2>4. post_data' = post_data \o SubSeq(data, 1, n - x)
    BY <1>2, <1>5, <2>1
  <2>5. QED
    BY <1>3, <2>2, <2>3, <2>4
<1>6. QED
  BY <1>4, <1>5

\* What is done with contents that are a piece of the message.
LEMMA ContentStep ==
  ASSUME form \in Forms, form.multipart, form' = form,
         NEW k \in Parts(form), NEW x \in 0..(TextLen(form, k) + 2), NEW c \in Places(form),
         TextAt(form, k) + x <= c, NEW whole, NEW file, file = form.parts[k].file,
         rest' = Piece(form, c, Len(Message(form))), accident = "none",
         post_data = StoredOf(form, k, x), isFile' = file,
         Content(whole, Piece(form, TextAt(form, k) + x, c), file),
         accident' # "unmoved", pc' # "terminated"
  PROVE  InFind' \/ InContent' \/ InTail'
<1> DEFINE L == Len(Message(form))
           T == TextAt(form, k)
           n == TextLen(form, k)
           N == Len(form.parts)
           Q == PartAt(form, k + 1)
           a == T + x
           data == Piece(form, a, c)
           s == memmem(data, boundry_start)
           e == memmem(data, boundry_end)
           m == (n + 3) - x
<1>1. n \in Nat /\ T \in Nat /\ x \in 0..(n + 2) /\ Q = (T + n) + 2 /\ N \in Nat /\ k \in 1..N
  <2>1. n \in Nat /\ N \in Nat
    BY PartTyped, FormTyped
  <2>2. T \in Nat
    BY StoredTyped
  <2>3. QED
    BY <2>1, <2>2, Layout DEF Parts
<1>2. L \in Nat /\ c \in Nat /\ c <= L /\ Q \in Nat /\ Q + 7 <= L /\ (k = N => L = Q + 7)
  BY MessageTyped, MarkerBehind DEF Places
<1>3. /\ s # 0 => s = m /\ k < N /\ Q + 5 <= c
      /\ e # 0 /\ s = 0 => e = m /\ k = N /\ Q + 5 <= c
      /\ s = 0 /\ e = 0 => c < Q + 5
  BY <1>2, FirstMarker DEF boundry_start, boundry_end
<1>4. a \in Nat /\ a <= c
  BY <1>1
<1>5. data \in Seq(Symbols(form)) /\ Len(data) = c - a
  BY <1>2, <1>4, PieceTyped
<1>6. Kept = 4
  BY KeptIs
<1>7. Content(whole, data, file)
  OBVIOUS
<1>8. rest' = Piece(form', c, Len(Message(form'))) /\ c \in Places(form') /\ form'.multipart
  BY <1>2
<1>9. StoreUpTo(data, m, file) /\ Q + 5 <= c => post_data' = SavedUpTo(form, k)
  BY <1>2, UpToMarker
<1> HIDE DEF s, e, L, T, n, N, Q, data, m, a
\* The next part.
<1>10. CASE /\ s # 0 /\ StoreUpTo(data, s, file)
            /\ bss' = "find" /\ buf' = SubSeq(data, s, Len(data))
            /\ UNCHANGED accident
  <2>1. s = m /\ k < N /\ Q + 5 <= c
    BY <1>3, <1>10
  <2>2. post_data' = SavedUpTo(form, k)
    BY <1>9, <1>10, <2>1
  <2>3. buf' = Piece(form, Q, c)
    <3>1. (n + 2) - x \in 0..(c - a) /\ ((n + 2) - x) + 1 = m /\ a + ((n + 2) - x) = Q
      <4>1. /\ n \in Nat /\ T \in Nat /\ x \in Nat /\ x <= n + 2 /\ Q = (T + n) + 2 /\ c \in Nat /\ Q + 5 <= c
            /\ a = T + x /\ m = (n + 3) - x
        BY <1>1, <1>2, <2>1 DEF a, m
      <4>2. (n + 2) - x \in Nat /\ ((n + 2) - x) + 1 = m /\ a + ((n + 2) - x) = Q
        BY <4>1
      <4>3. (n + 2) - x <= c - a /\ c - a \in Int
        BY <4>1
      <4>4. QED
        BY <4>2, <4>3
    <3>2. SubSeq(Piece(form, a, c), ((n + 2) - x) + 1, Len(Piece(form, a, c))) = Piece(form, a + ((n + 2) - x), c)
      <4>1. Splits(form, a, c, (n + 2) - x)
        BY <1>2, <1>4, <3>1, PieceCut DEF L
      <4>2. QED
        BY <4>1 DEF L, Splits
    <3>3. SubSeq(data, m, Len(data)) = Piece(form, Q, c)
      BY <3>1, <3>2 DEF data
    <3>4. QED
      BY <1>10, <2>1, <3>3
  <2>4. k + 1 \in 1..(N + 1) /\ (k + 1) - 1 = k /\ Q <= c
    BY <1>1, <1>2, <2>1
  <2>5. InFind'
    <3>1. bss' = "find" /\ accident' = "none"
      BY <1>10
    <3>2. Holds(PartAt(form, k + 1), c)'
      BY <1>8, <2>3, <2>4 DEF Holds, Q
    <3>3. post_data' = SavedUpTo(form', (k + 1) - 1)
      BY <2>2, <2>4
    <3>4. \E k_1 \in 1..(Len(form'.parts) + 1), b \in Places(form') :
            Holds(PartAt(form, k_1), b)' /\ post_data' = SavedUpTo(form', k_1 - 1)
      <4>1. k + 1 \in 1..(Len(form'.parts) + 1)
        BY <2>4 DEF N
      <4> HIDE DEF Holds
      <4>2. QED
        BY <1>8, <3>2, <3>3, <4>1, Zenon
    <3>5. QED
      BY <1>8, <3>1, <3>4 DEF InFind
  <2>6. QED
    BY <2>5
\* The end.
<1>11. CASE /\ s = 0 /\ e # 0 /\ StoreUpTo(data, e, file)
            /\ bss' = "content" /\ AfterEnd(data)
            /\ Note("late", rest' # <<>>)
  <2>1. e = m /\ k = N /\ Q + 5 <= c
    BY <1>3, <1>11
  <2>2. post_data' = SavedUpTo(form, k)
    BY <1>9, <1>11, <2>1
  <2>3. post_data' = Saved(form')
    <3>1. k \in 0..Len(form.parts) /\ k = Len(form.parts)
      BY <1>1, <2>1 DEF N
    <3>2. SavedUpTo(form, k) = Saved(form)
      BY <3>1, SavedTyped
    <3>3. QED
      BY <2>2, <3>2
  <2>4. buf' = <<>> /\ Len(rest') = L - c
    <3>1. buf' = <<>>
      BY <1>11 DEF AfterEnd
    <3>2. Len(rest') = L - c
      <4>1. c \in Nat /\ Len(Message(form)) \in Nat /\ c <= Len(Message(form)) /\ Len(Message(form)) <= Len(Message(form))
        BY <1>2 DEF L
      <4>2. Len(Piece(form, c, Len(Message(form)))) = Len(Message(form)) - c
        BY <4>1, PieceTyped
      <4>3. QED
        BY <4>2 DEF L
    <3>3. QED
      BY <3>1, <3>2
  <2>5. Len(buf') + Len(rest') <= 2
    BY <1>2, <2>1, <2>4
  <2>6. QED
    BY <1>8, <1>11, <2>3, <2>5 DEF InTail
\* No marker so far.
<1>12. ASSUME s = 0, e = 0, bss' = "content", accident' = "none", NEW y \in Nat, x <= y, T + y <= c, y <= n + 2,
              post_data' = StoredOf(form, k, y), buf' = Piece(form, T + y, c)
       PROVE  InContent'
  <2>1. Holds(TextAt(form, k) + y, c)'
    BY <1>8, <1>12 DEF Holds, T
  <2>2. /\ k \in Parts(form') /\ y \in 0..(TextLen(form', k) + 2)
        /\ isFile' = form'.parts[k].file /\ post_data' = StoredOf(form', k, y)
    BY <1>1, <1>12 DEF n
  <2>3. \E k_1 \in Parts(form'), b \in Places(form') : \E y_1 \in 0..(TextLen(form', k_1) + 2) :
          /\ Holds(TextAt(form, k_1) + y_1, b)'
          /\ isFile' = form'.parts[k_1].file
          /\ post_data' = StoredOf(form', k_1, y_1)
    <3> HIDE DEF Holds
    <3>1. QED
      BY <1>8, <2>1, <2>2, Zenon
  <2>4. QED
    BY <1>8, <1>12, <2>3 DEF InContent
<1>13. CASE /\ s = 0 /\ e = 0 /\ Len(data) > Kept
            /\ post_data' = IF file THEN post_data ELSE post_data \o SubSeq(data, 1, Len(data) - Kept)
            /\ bss' = "content" /\ buf' = SubSeq(data, Len(data) - Kept + 1, Len(data))
            /\ UNCHANGED <<pc, accident>>
  <2> DEFINE y == (c - 4) - T
  <2>1. c < Q + 5 /\ c - a > 4
    BY <1>3, <1>5, <1>6, <1>13
  <2>2. y \in Nat /\ x <= y /\ T + y <= c /\ y <= n + 2 /\ x \in Nat
        /\ (c - a) - 4 \in 0..(c - a) /\ a + ((c - a) - 4) = T + y
    BY <1>1, <1>2, <1>4, <2>1 DEF a
  <2>3. /\ SubSeq(data, 1, (c - a) - 4) = Piece(form, a, T + y)
        /\ SubSeq(data, ((c - a) - 4) + 1, c - a) = Piece(form, T + y, c)
    <3>1. /\ SubSeq(Piece(form, a, c), 1, (c - a) - 4) = Piece(form, a, a + ((c - a) - 4))
          /\ SubSeq(Piece(form, a, c), ((c - a) - 4) + 1, Len(Piece(form, a, c))) = Piece(form, a + ((c - a) - 4), c)
      <4>1. Splits(form, a, c, (c - a) - 4)
        BY <1>2, <1>4, <2>2, PieceCut DEF L
      <4>2. QED
        BY <4>1 DEF L, Splits
    <3> HIDE DEF y
    <3>2. QED
      BY <1>5, <2>2, <3>1 DEF data
  <2>4. StoredOf(form, k, y) = IF file THEN StoredOf(form, k, x) ELSE StoredOf(form, k, x) \o Piece(form, T + x, T + y)
    <3>1. y <= TextLen(form, k) + 2
      BY <2>2 DEF n
    <3> HIDE DEF y
    <3>2. QED
      BY <2>2, <3>1, StoredMore DEF T
  <2> HIDE DEF y
  <2>5. post_data' = StoredOf(form, k, y)
    BY <1>5, <1>6, <1>13, <2>3, <2>4 DEF a
  <2>6. buf' = Piece(form, T + y, c)
    BY <1>5, <1>6, <1>13, <2>3
  <2>7. QED
    BY <1>12, <1>13, <2>2, <2>5, <2>6
<1>14. CASE /\ s = 0 /\ e = 0 /\ Len(data) <= Kept
            /\ bss' = "content" /\ buf' = SubSeq(whole, 1, Len(data))
            /\ Note("unmoved", buf' # data)
            /\ UNCHANGED <<pc, post_data>>
  <2>1. buf' = data /\ accident' = "none"
    BY <1>14 DEF Note
  <2>2. QED
    <3>1. x \in Nat /\ x <= x /\ T + x <= c /\ x <= n + 2
      BY <1>1, <1>4 DEF a
    <3>2. buf' = Piece(form, T + x, c) /\ post_data' = StoredOf(form, k, x)
      BY <1>14, <2>1 DEF data, a
    <3>3. QED
      BY <1>12, <1>14, <2>1, <3>1, <3>2
<1>15. QED
  <2>1. \/ /\ s # 0 /\ StoreUpTo(data, s, file)
           /\ bss' = "find" /\ buf' = SubSeq(data, s, Len(data))
           /\ UNCHANGED accident
        \/ /\ s = 0 /\ e # 0 /\ StoreUpTo(data, e, file)
           /\ bss' = "content" /\ AfterEnd(data)
           /\ Note("late", rest' # <<>>)
        \/ /\ s = 0 /\ e = 0 /\ Len(data) > Kept
           /\ post_data' = IF file THEN post_data ELSE post_data \o SubSeq(data, 1, Len(data) - Kept)
           /\ bss' = "content" /\ buf' = SubSeq(data, Len(data) - Kept + 1, Len(data))
           /\ UNCHANGED <<pc, accident>>
        \/ /\ s = 0 /\ e = 0 /\ Len(data) <= Kept
           /\ bss' = "content" /\ buf' = SubSeq(whole, 1, Len(data))
           /\ Note("unmoved", buf' # data)
           /\ UNCHANGED <<pc, post_data>>
    BY <1>7, Zenon DEF Content, s, e
  <2>2. QED
    BY <1>10, <1>11, <1>13, <1>14, <2>1
-----------------------------------------------------------------------------
\* What recv brings is the next piece of the message.
LEMMA Received ==
  ASSUME TInv, NEW piece \in Pieces, Recv(piece), NEW b \in Places(form),
         rest = Piece(form, b, Len(Message(form)))
  PROVE  /\ form' = form /\ closed' = closed /\ pc = "reading"
         /\ \E c \in Places(form) :
              b <= c /\ piece = Piece(form, b, c) /\ rest' = Piece(form, c, Len(Message(form)))
<1> DEFINE L == Len(Message(form))
<1>1. form' = form /\ closed' = closed /\ pc = "reading" /\ rest' = SubSeq(rest, Len(piece) + 1, Len(rest))
  BY DEF Recv, Looping
<1>2. form \in Forms
  BY DEF TInv
<1>3. b \in Nat /\ L \in Nat /\ b <= L
  BY <1>2, MessageTyped DEF Places
<1>4. rest \in Seq(Symbols(form)) /\ Len(rest) = L - b
  <2>1. L <= L
    BY <1>3
  <2>2. QED
    BY <1>2, <1>3, <2>1, PieceTyped
<1>5. \E j \in 0..(L - b) : piece = SubSeq(rest, 1, j)
  <2>1. CASE rest = <<>>
    <3>1. piece = <<>>
      BY <2>1 DEF Pieces
    <3>2. SubSeq(rest, 1, 0) = <<>> /\ 0 \in 0..(L - b)
      BY <1>3, SubSeqEmpty
    <3>3. QED
      BY <3>1, <3>2
  <2>2. CASE rest # <<>>
    <3>1. PICK j \in 1..(IF Len(rest) < BufSize THEN Len(rest) ELSE BufSize) : piece = SubSeq(rest, 1, j)
      BY <2>2 DEF Pieces
    <3>2. j \in 0..(L - b)
      <4> HIDE DEF L
      <4>1. QED
        BY <1>3, <1>4, <3>1, BufferAssumption
    <3>3. QED
      BY <3>1, <3>2
  <2>3. QED
    BY <2>1, <2>2
<1>6. PICK j \in 0..(L - b) : piece = SubSeq(rest, 1, j)
  BY <1>5
<1>7. /\ SubSeq(Piece(form, b, L), 1, j) = Piece(form, b, b + j)
      /\ SubSeq(Piece(form, b, L), j + 1, Len(Piece(form, b, L))) = Piece(form, b + j, L)
  <2>1. L <= L
    BY <1>3
  <2>2. Splits(form, b, L, j)
    BY <1>2, <1>3, <1>6, <2>1, PieceCut
  <2>3. QED
    BY <2>2 DEF Splits
<1> HIDE DEF L
<1>8. b + j \in 0..L /\ b <= b + j /\ b + j \in Nat /\ (b + j) - b = j
  BY <1>3, <1>6
<1>9. piece = Piece(form, b, b + j)
  BY <1>6, <1>7 DEF L
<1>10. Len(piece) = j
  <2>1. b + j <= Len(Message(form))
    BY <1>3, <1>6, <1>8 DEF L
  <2>2. Len(Piece(form, b, b + j)) = (b + j) - b
    BY <1>2, <1>3, <1>8, <2>1, PieceTyped
  <2>3. QED
    BY <1>8, <1>9, <2>2
<1>11. rest' = Piece(form, b + j, L)
  BY <1>1, <1>7, <1>10 DEF L
<1>12. QED
  BY <1>1, <1>8, <1>9, <1>11 DEF L, Places

LEMMA ReceivedTyped ==
  ASSUME TInv, NEW piece \in Pieces, Recv(piece)
  PROVE  /\ form \in Forms /\ form' = form /\ closed' \in BOOLEAN /\ pc = "reading"
         /\ buf \o piece \in Seq(Symbols(form)) /\ Len(buf \o piece) = Len(buf) + Len(piece)
         /\ Len(buf) \in Nat /\ Len(piece) \in Nat /\ Len(post_data) \in Nat /\ Len(Message(form)) \in Nat
         /\ Len(buf) + Len(piece) <= 2 * BufSize /\ BufSize \in Nat
         /\ Len(rest) \in Nat /\ Len(rest') \in Nat /\ Len(piece) + Len(rest') = Len(rest)
         /\ Len(post_data) + Len(buf) + Len(rest) <= Len(Message(form))
         /\ \E c \in Places(form') : rest' = Piece(form', c, Len(Message(form')))
<1>1. form \in Forms /\ closed \in BOOLEAN /\ buf \in Seq(Symbols(form)) /\ post_data \in Seq(Symbols(form))
      /\ Len(post_data) + Len(buf) + Len(rest) <= Len(Message(form))
  BY DEF TInv
<1>2. PICK b \in Places(form) : rest = Piece(form, b, Len(Message(form)))
  BY DEF TInv
<1>3. /\ form' = form /\ closed' = closed /\ pc = "reading"
      /\ \E c \in Places(form) :
           b <= c /\ piece = Piece(form, b, c) /\ rest' = Piece(form, c, Len(Message(form)))
  BY <1>2, Received
<1>4. PICK c \in Places(form) :
           b <= c /\ piece = Piece(form, b, c) /\ rest' = Piece(form, c, Len(Message(form)))
  BY <1>3
<1> DEFINE L == Len(Message(form))
<1>5. b \in Nat /\ c \in Nat /\ L \in Nat /\ b <= L /\ c <= L /\ L <= L
  BY <1>1, MessageTyped DEF Places
<1>6. piece \in Seq(Symbols(form)) /\ Len(piece) = c - b
  BY <1>1, <1>4, <1>5, PieceTyped
<1>7. Len(rest) = L - b
  BY <1>1, <1>2, <1>5, PieceTyped
<1>8. Len(rest') = L - c
  BY <1>1, <1>4, <1>5, PieceTyped
<1>9. buf \o piece \in Seq(Symbols(form)) /\ Len(buf \o piece) = Len(buf) + Len(piece)
  <2>1. buf \in Seq(Symbols(form)) /\ piece \in Seq(Symbols(form))
    BY <1>1, <1>6
  <2>2. QED
    BY <2>1, ConcatProperties
<1>10. Len(buf) \in Nat /\ Len(post_data) \in Nat
  BY <1>1, LenProperties
<1>11. Len(buf) + Len(piece) <= 2 * BufSize
  BY DEF Recv
<1> HIDE DEF L
<1>12. Len(piece) \in Nat /\ Len(rest) \in Nat /\ Len(rest') \in Nat /\ Len(piece) + Len(rest') = Len(rest)
  BY <1>4, <1>5, <1>6, <1>7, <1>8
<1>13. closed' \in BOOLEAN
  BY <1>1, <1>3
<1>14. \E d \in Places(form') : rest' = Piece(form', d, Len(Message(form')))
  BY <1>3, <1>4
<1>15. QED
  BY <1>1, <1>3, <1>5, <1>9, <1>10, <1>11, <1>12, <1>13, <1>14, BufferAssumption DEF L

\* What a marker at m leads to.
LEMMA StoreUpToTyped ==
  ASSUME NEW S, NEW data \in Seq(S), post_data \in Seq(S), NEW m \in 1..Len(data), NEW file,
         StoreUpTo(data, m, file)
  PROVE  /\ post_data' \in Seq(S) /\ Len(post_data') <= Len(post_data) + (m - 1)
         /\ pc' \in {"reading", "terminated"}
         /\ pc' = "terminated" => post_data' = post_data
<1> DEFINE q == SubSeq(data, 1, m - 3)
<1>1. Len(data) \in Nat /\ Len(post_data) \in Nat
  BY LenProperties
<1>2. /\ post_data' = IF file THEN post_data ELSE post_data \o q
      /\ pc' = IF ~file /\ m < 3 THEN "terminated" ELSE "reading"
  BY DEF StoreUpTo
<1>3. q \in Seq(S) /\ Len(q) \in Nat /\ Len(q) <= m - 1 /\ (m < 3 => q = <<>>)
  <2>1. CASE m < 3
    <3>1. m - 3 < 1 /\ m - 3 \in Int
      BY <1>1, <2>1
    <3>2. q = <<>>
      BY <3>1, SubSeqEmpty
    <3>3. q \in Seq(S) /\ Len(q) = 0
      BY <3>2, EmptySeq
    <3> HIDE DEF q
    <3>4. QED
      BY <1>1, <2>1, <3>2, <3>3
  <2>2. CASE ~(m < 3)
    <3>1. m - 3 \in Nat /\ m - 3 <= Len(data)
      BY <1>1, <2>2
    <3>2. q \in Seq(S) /\ Len(q) = m - 3
      BY <3>1, CutFront
    <3> HIDE DEF q
    <3>3. QED
      BY <1>1, <2>2, <3>1, <3>2
  <2>3. QED
    BY <2>1, <2>2
<1> HIDE DEF q
<1>4. post_data \o q \in Seq(S) /\ Len(post_data \o q) = Len(post_data) + Len(q)
  BY <1>3, ConcatProperties
<1>5. post_data' \in Seq(S)
  BY <1>2, <1>4
<1>6. Len(post_data') <= Len(post_data) + (m - 1)
  <2>1. CASE file
    BY <1>1, <1>2, <2>1
  <2>2. CASE ~file
    <3>1. Len(post_data') = Len(post_data) + Len(q)
      BY <1>2, <1>4, <2>2
    <3>2. QED
      BY <1>1, <1>3, <3>1
  <2>3. QED
    BY <2>1, <2>2
<1>7. pc' \in {"reading", "terminated"}
  BY <1>2
<1>8. pc' = "terminated" => post_data' = post_data
  <2>1. post_data \o <<>> = post_data
    BY ConcatEmptySeq
  <2>2. QED
    BY <1>2, <1>3, <2>1
<1>9. QED
  BY <1>5, <1>6, <1>7, <1>8
LEMMA ContentTyped ==
  ASSUME form \in Forms, accident \in {"none", "short", "late", "unmoved"}, pc = "reading", form' = form,
         post_data \in Seq(Symbols(form)),
         NEW whole \in Seq(Symbols(form)), NEW data \in Seq(Symbols(form)), NEW file,
         Len(data) <= Len(whole), Len(data) <= 2 * BufSize,
         Len(rest') \in Nat, Len(post_data) + Len(data) + Len(rest') <= Len(Message(form)),
         Content(whole, data, file)
  PROVE  /\ buf' \in Seq(Symbols(form')) /\ Len(buf') <= 2 * BufSize
         /\ post_data' \in Seq(Symbols(form'))
         /\ Len(post_data') + Len(buf') + Len(rest') <= Len(Message(form'))
         /\ bss' \in {"find", "content"} /\ pc' \in {"reading", "terminated"}
         /\ accident' \in {"none", "short", "late", "unmoved"}
         /\ accident' # "unmoved" => accident # "unmoved"
         /\ pc' = "terminated" => post_data' = post_data
<1> DEFINE Sy == Symbols(form)
           L == Len(Message(form))
           s == memmem(data, boundry_start)
           e == memmem(data, boundry_end)
           d == Len(data)
           r == Len(rest')
<1>1. d \in Nat /\ Len(whole) \in Nat /\ Len(post_data) \in Nat /\ L \in Nat /\ r \in Nat /\ BufSize \in Nat
  BY LenProperties, MessageTyped, BufferAssumption
<1>2. (s # 0 => s \in 1..d) /\ (e # 0 => e \in 1..d)
  <2>1. Len(boundry_start) \in Nat /\ Len(boundry_end) \in Nat /\ Len(boundry_start) >= 1 /\ Len(boundry_end) >= 1
    <3>1. CASE form.multipart
      <4>1. boundry_start = <<"-", "-", "B", "CR", "LF">> /\ boundry_end = <<"-", "-", "B", "-", "-">>
        BY <3>1, Markers DEF boundry_start, boundry_end
      <4>2. Len(boundry_start) = 5 /\ Len(boundry_end) = 5
        BY <4>1
      <4>3. QED
        BY <4>2
    <3>2. CASE ~form.multipart
      <4>1. boundry_start = <<"-", "-", "CR", "LF">> /\ boundry_end = <<"-", "-", "-", "-">>
        BY <3>2, Markers DEF boundry_start, boundry_end
      <4>2. Len(boundry_start) = 4 /\ Len(boundry_end) = 4
        BY <4>1
      <4>3. QED
        BY <4>2
    <3>3. QED
      BY <3>1, <3>2
  <2>2. ASSUME NEW t, Len(t) \in Nat, Len(t) >= 1, memmem(data, t) # 0 PROVE memmem(data, t) \in 1..d
    <3> DEFINE m == memmem(data, t)
    <3>1. Hit(data, t, m)
      BY <1>1, <2>2, FirstHit
    <3>2. m \in 1..(d - Len(t) + 1)
      BY <3>1 DEF Hit
    <3> HIDE DEF m, d
    <3>3. m \in 1..d
      BY <1>1, <2>2, <3>2
    <3>4. QED
      BY <3>3 DEF m
  <2>3. QED
    BY <2>1, <2>2
<1>3. Kept \in Nat
  BY KeptIs
<1>4. \/ /\ s # 0 /\ StoreUpTo(data, s, file)
         /\ bss' = "find" /\ buf' = SubSeq(data, s, Len(data))
         /\ UNCHANGED accident
      \/ /\ s = 0 /\ e # 0 /\ StoreUpTo(data, e, file)
         /\ bss' = "content" /\ AfterEnd(data)
         /\ Note("late", rest' # <<>>)
      \/ /\ s = 0 /\ e = 0 /\ Len(data) > Kept
         /\ post_data' = IF file THEN post_data ELSE post_data \o SubSeq(data, 1, Len(data) - Kept)
         /\ bss' = "content" /\ buf' = SubSeq(data, Len(data) - Kept + 1, Len(data))
         /\ UNCHANGED <<pc, accident>>
      \/ /\ s = 0 /\ e = 0 /\ Len(data) <= Kept
         /\ bss' = "content" /\ buf' = SubSeq(whole, 1, Len(data))
         /\ Note("unmoved", buf' # data)
         /\ UNCHANGED <<pc, post_data>>
  BY Zenon DEF Content
<1>5. Symbols(form') = Sy /\ Len(Message(form')) = L
  OBVIOUS
<1>6. Len(post_data) + d + r <= L /\ d <= 2 * BufSize
  OBVIOUS
<1> HIDE DEF Sy, L, s, e, d, r
\* What the four cases have in common.
<1>7. ASSUME buf' \in Seq(Sy), Len(buf') <= d, post_data' \in Seq(Sy), Len(post_data') + Len(buf') <= Len(post_data) + d
      PROVE  /\ buf' \in Seq(Symbols(form')) /\ Len(buf') <= 2 * BufSize
             /\ post_data' \in Seq(Symbols(form'))
             /\ Len(post_data') + Len(buf') + Len(rest') <= Len(Message(form'))
  <2>1. Len(buf') \in Nat /\ Len(post_data') \in Nat
    BY <1>7, LenProperties
  <2>2. Len(buf') <= 2 * BufSize /\ Len(post_data') + Len(buf') + r <= L
    BY <1>1, <1>6, <1>7, <2>1
  <2>3. QED
    BY <1>5, <1>7, <2>2 DEF r
<1>8. CASE /\ s # 0 /\ StoreUpTo(data, s, file)
           /\ bss' = "find" /\ buf' = SubSeq(data, s, Len(data))
           /\ UNCHANGED accident
  <2>1. s \in 1..d /\ s \in 1..Len(data)
    BY <1>2, <1>8 DEF d
  <2>2. /\ post_data' \in Seq(Sy) /\ Len(post_data') <= Len(post_data) + (s - 1)
        /\ pc' \in {"reading", "terminated"}
        /\ pc' = "terminated" => post_data' = post_data
    BY <1>8, <2>1, StoreUpToTyped DEF Sy
  <2>3. buf' \in Seq(Sy) /\ Len(buf') = d - (s - 1)
    <3>1. s - 1 \in Nat /\ s - 1 <= d /\ (s - 1) + 1 = s /\ d <= d
      BY <1>1, <2>1
    <3>2. SubSeq(data, (s - 1) + 1, d) \in Seq(Sy) /\ Len(SubSeq(data, (s - 1) + 1, d)) = d - (s - 1)
      BY <1>1, <3>1, Cut DEF Sy, d
    <3>3. buf' = SubSeq(data, (s - 1) + 1, d)
      BY <1>8, <3>1 DEF d
    <3>4. QED
      BY <3>2, <3>3
  <2>4. Len(buf') <= d /\ Len(post_data') + Len(buf') <= Len(post_data) + d
    <3>1. Len(post_data') \in Nat
      BY <2>2, LenProperties
    <3>2. QED
      BY <1>1, <2>1, <2>2, <2>3, <3>1
  <2>5. QED
    BY <1>7, <1>8, <2>2, <2>3, <2>4
<1>9. CASE /\ s = 0 /\ e # 0 /\ StoreUpTo(data, e, file)
           /\ bss' = "content" /\ AfterEnd(data)
           /\ Note("late", rest' # <<>>)
  <2>1. e \in 1..d /\ e \in 1..Len(data)
    BY <1>2, <1>9 DEF d
  <2>2. /\ post_data' \in Seq(Sy) /\ Len(post_data') <= Len(post_data) + (e - 1)
        /\ pc' \in {"reading", "terminated"}
        /\ pc' = "terminated" => post_data' = post_data
    BY <1>9, <2>1, StoreUpToTyped DEF Sy
  <2>3. buf' \in Seq(Sy) /\ Len(buf') = 0
    BY <1>9, EmptySeq DEF AfterEnd
  <2>4. Len(buf') <= d /\ Len(post_data') + Len(buf') <= Len(post_data) + d
    <3>1. Len(post_data') \in Nat
      BY <2>2, LenProperties
    <3>2. QED
      BY <1>1, <2>1, <2>2, <2>3, <3>1
  <2>5. accident' \in {"none", "short", "late", "unmoved"} /\ (accident' # "unmoved" => accident # "unmoved")
    BY <1>9 DEF Note
  <2>6. QED
    BY <1>7, <1>9, <2>2, <2>3, <2>4, <2>5
<1>10. CASE /\ s = 0 /\ e = 0 /\ Len(data) > Kept
            /\ post_data' = IF file THEN post_data ELSE post_data \o SubSeq(data, 1, Len(data) - Kept)
            /\ bss' = "content" /\ buf' = SubSeq(data, Len(data) - Kept + 1, Len(data))
            /\ UNCHANGED <<pc, accident>>
  <2> DEFINE j == d - Kept
             q == SubSeq(data, 1, j)
  <2>1. j \in Nat /\ j <= d /\ d <= d /\ j <= Len(data)
    BY <1>1, <1>3, <1>10 DEF d
  <2>2. q \in Seq(Sy) /\ Len(q) = j
    BY <2>1, CutFront DEF Sy
  <2>3. buf' \in Seq(Sy) /\ Len(buf') = d - j
    <3>1. buf' = SubSeq(data, j + 1, d)
      BY <1>10 DEF d
    <3> HIDE DEF j
    <3>2. SubSeq(data, j + 1, d) \in Seq(Sy) /\ Len(SubSeq(data, j + 1, d)) = d - j
      BY <1>1, <2>1, Cut DEF Sy, d
    <3>3. QED
      BY <3>1, <3>2
  <2>4. post_data' \in Seq(Sy) /\ Len(post_data') <= Len(post_data) + j
    <3>1. post_data' = IF file THEN post_data ELSE post_data \o q
      BY <1>10 DEF d
    <3> HIDE DEF q, j
    <3>2. post_data \o q \in Seq(Sy) /\ Len(post_data \o q) = Len(post_data) + j
      BY <2>2, ConcatProperties DEF Sy
    <3>3. post_data \in Seq(Sy) /\ Len(post_data) <= Len(post_data) + j
      BY <1>1, <2>1 DEF Sy
    <3>4. CASE file
      BY <3>1, <3>3, <3>4
    <3>5. CASE ~file
      <4>1. post_data' = post_data \o q
        BY <3>1, <3>5
      <4>2. Len(post_data) + j <= Len(post_data) + j
        BY <1>1, <2>1
      <4>3. QED
        BY <3>2, <4>1, <4>2
    <3>6. QED
      BY <3>4, <3>5
  <2> HIDE DEF j
  <2>5. Len(buf') <= d /\ Len(post_data') + Len(buf') <= Len(post_data) + d
    <3>1. Len(post_data') \in Nat
      BY <2>4, LenProperties
    <3>2. QED
      BY <1>1, <2>1, <2>3, <2>4, <3>1
  <2>6. QED
    BY <1>7, <1>10, <2>3, <2>4, <2>5
<1>11. CASE /\ s = 0 /\ e = 0 /\ Len(data) <= Kept
            /\ bss' = "content" /\ buf' = SubSeq(whole, 1, Len(data))
            /\ Note("unmoved", buf' # data)
            /\ UNCHANGED <<pc, post_data>>
  <2>1. buf' \in Seq(Sy) /\ Len(buf') = d
    <3>1. buf' = SubSeq(whole, 1, d)
      BY <1>11 DEF d
    <3>2. d <= Len(whole)
      BY DEF d
    <3>3. QED
      BY <1>1, <3>1, <3>2, CutFront DEF Sy
  <2>2. Len(buf') <= d /\ Len(post_data') + Len(buf') <= Len(post_data) + d
    BY <1>1, <1>11, <2>1
  <2>3. accident' \in {"none", "short", "late", "unmoved"} /\ (accident' # "unmoved" => accident # "unmoved")
    BY <1>11 DEF Note
  <2>4. post_data' \in Seq(Sy) /\ pc' \in {"reading", "terminated"}
    BY <1>11 DEF Sy
  <2>5. QED
    BY <1>7, <1>11, <2>1, <2>2, <2>3, <2>4
<1>12. QED
  BY <1>4, <1>8, <1>9, <1>10, <1>11
-----------------------------------------------------------------------------
\* Wherever the body is, what is stored is a beginning of what belongs there.
LEMMA StoredSome ==
  form \in Forms /\ (InText \/ InFind \/ InContent \/ InTail) => Good(form, post_data)
<1> SUFFICES ASSUME form \in Forms, InText \/ InFind \/ InContent \/ InTail
             PROVE  Good(form, post_data)
  OBVIOUS
<1>1. CASE InText
  BY <1>1, GoodPlain DEF InText
<1>2. CASE InFind
  <2>1. PICK k \in 1..(Len(form.parts) + 1) : post_data = SavedUpTo(form, k - 1)
    BY <1>2 DEF InFind
  <2>2. k - 1 \in 0..Len(form.parts)
    BY <2>1, FormTyped
  <2>3. QED
    BY <2>1, <2>2, GoodSaved
<1>3. CASE InContent
  <2>1. form.multipart
    BY <1>3 DEF InContent
  <2>2. PICK k \in Parts(form) : \E x \in 0..(TextLen(form, k) + 2) : post_data = StoredOf(form, k, x)
    BY <1>3 DEF InContent
  <2>3. QED
    BY <2>1, <2>2, GoodStored
<1>4. CASE InTail
  <2>1. post_data = Saved(form)
    BY <1>4 DEF InTail
  <2>2. Len(form.parts) \in 0..Len(form.parts)
    BY FormTyped
  <2>3. SavedUpTo(form, Len(form.parts)) = Saved(form)
    BY <2>2, SavedTyped
  <2>4. QED
    BY <2>1, <2>2, <2>3, GoodSaved
<1>5. QED
  BY <1>1, <1>2, <1>3, <1>4

LEMMA StoredSomeNext ==
  (form \in Forms)' /\ (InText' \/ InFind' \/ InContent' \/ InTail') => Good(form, post_data)'
BY StoredSome, PTL

\* A step keeps StoredIsPrefix if it progresses or stores nothing.
LEMMA PrefixKept ==
  ASSUME StoredIsPrefix, form \in Forms, form' = form,
         accident' # "unmoved" => accident # "unmoved",
         pc' = "terminated" => post_data' = post_data,
         Progress'
  PROVE  StoredIsPrefix'
<1> SUFFICES ASSUME accident' # "unmoved" PROVE Good(form, post_data)'
  BY DEF StoredIsPrefix, Good
<1>1. CASE pc' = "terminated"
  BY <1>1 DEF StoredIsPrefix, Good
<1>2. CASE pc' # "terminated"
  <2>1. InText' \/ InFind' \/ InContent' \/ InTail'
    BY <1>2 DEF Progress
  <2>2. QED
    BY <2>1, StoredSomeNext
<1>3. QED
  BY <1>1, <1>2
-----------------------------------------------------------------------------
\* The bytes at hand: the buffer and behind it the next piece.
Reaches(piece, a, b) ==
  \E c \in Places(form) :
    /\ a <= b /\ b <= c /\ buf = Piece(form, a, b) /\ Len(buf) = b - a
    /\ buf \o piece = Piece(form, a, c) /\ Len(buf \o piece) = c - a
    /\ rest' = Piece(form, c, Len(Message(form)))

LEMMA AtHand ==
  ASSUME TInv, NEW piece \in Pieces, Recv(piece), NEW a \in Nat, NEW b \in Places(form), Holds(a, b)
  PROVE  Reaches(piece, a, b)
<1>1. /\ a <= b /\ buf = Piece(form, a, b) /\ rest = Piece(form, b, Len(Message(form)))
  BY DEF Holds
<1>2. PICK c \in Places(form) :
           b <= c /\ piece = Piece(form, b, c) /\ rest' = Piece(form, c, Len(Message(form)))
  BY <1>1, Received
<1>3. form \in Forms
  BY DEF TInv
<1>4. b \in Nat /\ c \in Nat /\ b <= Len(Message(form)) /\ c <= Len(Message(form)) /\ a <= c
  BY <1>1, <1>2, <1>3, MessageTyped DEF Places
<1>5. Piece(form, a, b) \o Piece(form, b, c) = Piece(form, a, c)
  BY <1>1, <1>2, <1>3, <1>4, PieceJoin
<1>6. Len(Piece(form, a, b)) = b - a /\ Len(Piece(form, a, c)) = c - a
  BY <1>1, <1>3, <1>4, PieceTyped
<1>7. QED
  BY <1>1, <1>2, <1>5, <1>6 DEF Reaches

\* Progress of a step that leaves its case alone.
LEMMA FindAgain ==
  ASSUME form \in Forms, form' = form, form.multipart, bss' = "find", accident' = "none",
         NEW k \in 1..(Len(form.parts) + 1), NEW b \in Places(form), PartAt(form, k) <= b,
         buf' = Piece(form, PartAt(form, k), b), rest' = Piece(form, b, Len(Message(form))),
         post_data' = SavedUpTo(form, k - 1)
  PROVE  InFind'
<1>1. Holds(PartAt(form, k), b)'
  BY DEF Holds
<1>2. k \in 1..(Len(form'.parts) + 1) /\ b \in Places(form') /\ post_data' = SavedUpTo(form', k - 1)
  OBVIOUS
<1>3. \E k_1 \in 1..(Len(form'.parts) + 1), b_1 \in Places(form') :
        Holds(PartAt(form, k_1), b_1)' /\ post_data' = SavedUpTo(form', k_1 - 1)
  <2> HIDE DEF Holds
  <2>1. QED
    BY <1>1, <1>2, Zenon
<1>4. form'.multipart
  OBVIOUS
<1>5. QED
  BY <1>3, <1>4 DEF InFind

LEMMA TextAgain ==
  ASSUME form \in Forms, form' = form, ~form.multipart, bss' = "find",
         NEW a \in Places(form), NEW b \in Places(form), a <= b,
         buf' = Piece(form, a, b), rest' = Piece(form, b, Len(Message(form))),
         post_data' = Piece(form, 0, a)
  PROVE  InText'
<1>1. Holds(a, b)'
  BY DEF Holds
<1>2. a \in Places(form') /\ b \in Places(form') /\ post_data' = Piece(form', 0, a)
  OBVIOUS
<1>3. \E a_1, b_1 \in Places(form') : Holds(a_1, b_1)' /\ post_data' = Piece(form', 0, a_1)
  <2> HIDE DEF Holds
  <2>1. QED
    BY <1>1, <1>2, Zenon
<1>4. ~form'.multipart
  OBVIOUS
<1>5. QED
  BY <1>3, <1>4 DEF InText

\* Before a part or the end marker: long enough means a part, and its marker
\* and its headers are there.
LEMMA LongMeansPart ==
  ASSUME form \in Forms, form.multipart, NEW k \in 1..(Len(form.parts) + 1), NEW c \in Places(form),
         PartAt(form, k) <= c, Long(Piece(form, PartAt(form, k), c))
  PROVE  k \in Parts(form) /\ PartAt(form, k) + 9 < c /\ AtStart(Piece(form, PartAt(form, k), c))
<1> DEFINE P == PartAt(form, k)
           L == Len(Message(form))
           N == Len(form.parts)
<1>1. P \in Nat /\ N \in Nat /\ L \in Nat /\ c \in Nat /\ c <= L
  BY PartAtIs, FormTyped, MessageTyped DEF Places
<1>2. Len(Piece(form, P, c)) = c - P
  BY <1>1, PieceTyped
<1>3. Len(boundry_start) = 5
  BY FormSymbols DEF boundry_start
<1>4. P + 9 < c
  BY <1>1, <1>2, <1>3 DEF Long
<1>5. k # N + 1
  <2>1. L = PartAt(form, N + 1) + 7
    BY EndLayout
  <2> HIDE DEF L, N, P
  <2>2. ASSUME k = N + 1 PROVE FALSE
    <3>1. L = P + 7
      BY <2>1, <2>2 DEF P
    <3>2. QED
      BY <1>1, <1>4, <3>1
  <2>3. QED
    BY <2>2
<1>6. k \in Parts(form)
  BY <1>1, <1>5 DEF Parts
<1>7. IsPrefix(Start(form), Piece(form, P, c))
  BY <1>1, <1>4, <1>6, HeadersAt
<1>8. QED
  BY <1>4, <1>6, <1>7 DEF AtStart, boundry_start
-----------------------------------------------------------------------------
LEMMA KeepReadingStep ==
  ASSUME TInv, Progress, NEW piece \in Pieces, KeepReading(piece)
  PROVE  /\ TInv' /\ Progress' /\ form \in Forms /\ form' = form
         /\ accident' # "unmoved" => accident # "unmoved"
         /\ pc' = "terminated" => post_data' = post_data
<1> DEFINE data == buf \o piece
<1>0. /\ bss = "find" /\ Recv(piece) /\ buf' = data /\ isFile' = FALSE
      /\ accident' = (IF ~form.multipart /\ accident = "none" THEN "short" ELSE accident)
      /\ bss' = bss /\ post_data' = post_data /\ pc' = pc
  BY DEF KeepReading, Note
<1>1. /\ form \in Forms /\ form' = form /\ closed' \in BOOLEAN /\ pc = "reading"
      /\ data \in Seq(Symbols(form)) /\ Len(data) = Len(buf) + Len(piece)
      /\ Len(buf) \in Nat /\ Len(piece) \in Nat /\ Len(post_data) \in Nat /\ Len(Message(form)) \in Nat
      /\ Len(buf) + Len(piece) <= 2 * BufSize /\ BufSize \in Nat
      /\ Len(rest) \in Nat /\ Len(rest') \in Nat /\ Len(piece) + Len(rest') = Len(rest)
      /\ Len(post_data) + Len(buf) + Len(rest) <= Len(Message(form))
      /\ \E c \in Places(form') : rest' = Piece(form', c, Len(Message(form')))
  BY <1>0, ReceivedTyped
<1>2. accident' \in {"none", "short", "late", "unmoved"} /\ (accident' # "unmoved" => accident # "unmoved")
  BY <1>0 DEF TInv
<1> HIDE DEF data
<1>3. TInv'
  <2>1. Len(buf') <= 2 * BufSize /\ Len(post_data') + Len(buf') + Len(rest') <= Len(Message(form'))
    <3>1. Len(post_data) + Len(data) + Len(rest') <= Len(Message(form)) /\ Len(data) <= 2 * BufSize
      BY <1>1
    <3>2. QED
      BY <1>0, <1>1, <3>1
  <2>2. buf' \in Seq(Symbols(form')) /\ post_data' \in Seq(Symbols(form'))
    BY <1>0, <1>1 DEF TInv
  <2>3. form' \in Forms /\ bss' \in {"find", "content"} /\ isFile' \in BOOLEAN /\ pc' = "reading"
    BY <1>0, <1>1
  <2>4. QED
    BY <1>1, <1>2, <2>1, <2>2, <2>3 DEF TInv
<1>4. ASSUME accident' # "unmoved" PROVE InText' \/ InFind'
  <2>1. InText \/ InFind
    BY <1>0, <1>1, <1>2, <1>4 DEF Progress, InContent, InTail
  <2>2. CASE InText
    <3>1. PICK a \in Places(form), b \in Places(form) : Holds(a, b) /\ post_data = Piece(form, 0, a)
      BY <2>2 DEF InText
    <3>2. a \in Nat
      BY DEF Places
    <3>3. PICK c \in Places(form) :
            a <= b /\ b <= c /\ data = Piece(form, a, c) /\ rest' = Piece(form, c, Len(Message(form)))
      <4>1. Reaches(piece, a, b)
        BY <1>0, <3>1, <3>2, AtHand
      <4>2. QED
        BY <4>1 DEF data, Reaches
    <3>4. a <= c
      <4>1. form \in Forms /\ a \in Nat
        BY <1>1, <3>2
      <4>2. QED
        BY <3>3, <4>1, Onward
    <3>5. QED
      BY <1>0, <1>1, <2>2, <3>1, <3>3, <3>4, TextAgain DEF InText
  <2>3. CASE InFind
    <3>1. PICK k \in 1..(Len(form.parts) + 1), b \in Places(form) :
            Holds(PartAt(form, k), b) /\ post_data = SavedUpTo(form, k - 1)
      BY <2>3 DEF InFind
    <3>2. form.multipart /\ accident = "none"
      BY <2>3 DEF InFind
    <3>3. PartAt(form, k) \in Nat
      BY <1>1, <3>2, PartAtIs
    <3>4. PICK c \in Places(form) :
            /\ PartAt(form, k) <= b /\ b <= c /\ data = Piece(form, PartAt(form, k), c)
            /\ rest' = Piece(form, c, Len(Message(form)))
      <4>1. Reaches(piece, PartAt(form, k), b)
        BY <1>0, <3>1, <3>3, AtHand
      <4>2. QED
        BY <4>1 DEF data, Reaches
    <3>5. PartAt(form, k) <= c
      <4>1. form \in Forms /\ PartAt(form, k) \in Nat
        BY <1>1, <3>3
      <4>2. QED
        BY <3>1, <3>4, <4>1, Onward
    <3>6. accident' = "none" /\ bss' = "find"
      BY <1>0, <3>2
    <3>7. QED
      BY <1>0, <1>1, <3>1, <3>2, <3>4, <3>5, <3>6, FindAgain
  <2>4. QED
    BY <2>1, <2>2, <2>3
<1>5. QED
  BY <1>0, <1>1, <1>2, <1>3, <1>4 DEF Progress

LEMMA StoreRawStep ==
  ASSUME TInv, Progress, NEW piece \in Pieces, StoreRaw(piece)
  PROVE  /\ TInv' /\ Progress' /\ form \in Forms /\ form' = form
         /\ accident' # "unmoved" => accident # "unmoved"
         /\ pc' = "terminated" => post_data' = post_data
<1> DEFINE data == buf \o piece
<1>0. /\ bss = "find" /\ Recv(piece) /\ isFile' = FALSE
      /\ Long(data) /\ ~AtStart(data) /\ Len(piece) = Len(data)
      /\ post_data' = post_data \o data
      /\ buf' = buf /\ bss' = bss /\ pc' = pc /\ accident' = accident
  BY DEF StoreRaw
<1>1. /\ form \in Forms /\ form' = form /\ closed' \in BOOLEAN /\ pc = "reading"
      /\ data \in Seq(Symbols(form)) /\ Len(data) = Len(buf) + Len(piece)
      /\ Len(buf) \in Nat /\ Len(piece) \in Nat /\ Len(post_data) \in Nat /\ Len(Message(form)) \in Nat
      /\ Len(buf) + Len(piece) <= 2 * BufSize /\ BufSize \in Nat
      /\ Len(rest) \in Nat /\ Len(rest') \in Nat /\ Len(piece) + Len(rest') = Len(rest)
      /\ Len(post_data) + Len(buf) + Len(rest) <= Len(Message(form))
      /\ \E c \in Places(form') : rest' = Piece(form', c, Len(Message(form')))
  BY <1>0, ReceivedTyped
<1> HIDE DEF data
<1>2. Len(buf) = 0
  BY <1>0, <1>1
<1>3. TInv'
  <2>1. post_data \in Seq(Symbols(form)) /\ buf \in Seq(Symbols(form))
    BY DEF TInv
  <2>2. post_data' \in Seq(Symbols(form)) /\ Len(post_data') = Len(post_data) + Len(data)
    <3>1. data \in Seq(Symbols(form)) /\ post_data' = post_data \o data
      BY <1>0, <1>1
    <3>2. post_data \o data \in Seq(Symbols(form)) /\ Len(post_data \o data) = Len(post_data) + Len(data)
      BY <2>1, <3>1, ConcatProperties
    <3>3. QED
      BY <3>1, <3>2
  <2>3. Len(buf') <= 2 * BufSize /\ Len(post_data') + Len(buf') + Len(rest') <= Len(Message(form'))
    <3>1. Len(buf) <= 2 * BufSize /\ (Len(post_data) + Len(data)) + Len(buf) + Len(rest') <= Len(Message(form))
      BY <1>1, <1>2
    <3>2. QED
      BY <1>0, <1>1, <2>2, <3>1
  <2>4. form' \in Forms /\ bss' \in {"find", "content"} /\ isFile' \in BOOLEAN /\ pc' = "reading"
        /\ accident' \in {"none", "short", "late", "unmoved"}
    BY <1>0, <1>1 DEF TInv
  <2>5. QED
    BY <1>0, <1>1, <2>1, <2>2, <2>3, <2>4 DEF TInv
<1>4. ASSUME accident' # "unmoved" PROVE InText'
  <2>1. InText \/ InFind
    BY <1>0, <1>1, <1>4 DEF Progress, InContent, InTail
  <2>2. CASE InText
    <3>1. PICK a \in Places(form), b \in Places(form) : Holds(a, b) /\ post_data = Piece(form, 0, a)
      BY <2>2 DEF InText
    <3>2. a \in Nat /\ a <= Len(Message(form))
      BY <1>1 DEF Places
    <3>3. PICK c \in Places(form) :
            /\ a <= b /\ b <= c /\ data = Piece(form, a, c) /\ rest' = Piece(form, c, Len(Message(form)))
            /\ Len(buf) = b - a
      <4>1. \E c \in Places(form) :
              /\ a <= b /\ b <= c /\ buf = Piece(form, a, b) /\ Len(buf) = b - a
              /\ data = Piece(form, a, c) /\ Len(data) = c - a
              /\ rest' = Piece(form, c, Len(Message(form)))
        <5>1. Recv(piece) /\ Holds(a, b)
          BY <1>0, <3>1
        <5>2. Reaches(piece, a, b)
          BY <3>2, <5>1, AtHand
        <5>3. QED
          BY <5>2 DEF data, Reaches
      <4>2. QED
        BY <4>1
    <3>4. b = a /\ a <= c /\ c \in Nat /\ c <= Len(Message(form)) /\ c <= c /\ 0 <= a
      BY <1>1, <1>2, <3>2, <3>3 DEF Places
    <3>5. post_data' = Piece(form, 0, c)
      <4>1. Piece(form, 0, a) \o Piece(form, a, c) = Piece(form, 0, c)
        <5>1. 0 \in Nat /\ 0 <= a /\ form \in Forms
          BY <1>1, <3>2
        <5>2. QED
          BY <3>2, <3>4, <5>1, PieceJoin
      <4>2. QED
        BY <1>0, <3>1, <3>3, <4>1
    <3>6. buf' = Piece(form, c, c)
      <4>1. c < c + 1
        BY <3>4
      <4>2. SubSeq(Message(form), c + 1, c) = <<>>
        BY <3>4, <4>1, SubSeqEmpty
      <4>3. buf = <<>>
        BY <1>2, EmptySeq DEF TInv
      <4>4. QED
        BY <1>0, <4>2, <4>3 DEF Piece
    <3>7. QED
      BY <1>0, <1>1, <2>2, <3>3, <3>4, <3>5, <3>6, TextAgain DEF InText
  <2>3. CASE InFind
    <3>1. PICK k \in 1..(Len(form.parts) + 1), b \in Places(form) :
            Holds(PartAt(form, k), b) /\ post_data = SavedUpTo(form, k - 1)
      BY <2>3 DEF InFind
    <3>2. form.multipart
      BY <2>3 DEF InFind
    <3>3. PartAt(form, k) \in Nat
      BY <1>1, <3>2, PartAtIs
    <3>4. PICK c \in Places(form) :
            PartAt(form, k) <= b /\ b <= c /\ data = Piece(form, PartAt(form, k), c)
      <4>1. Reaches(piece, PartAt(form, k), b)
        BY <1>0, <3>1, <3>3, AtHand
      <4>2. QED
        BY <4>1 DEF data, Reaches
    <3>5. PartAt(form, k) <= c
      <4>1. form \in Forms /\ PartAt(form, k) \in Nat
        BY <1>1, <3>3
      <4>2. QED
        BY <3>1, <3>4, <4>1, Onward
    <3>6. AtStart(data)
      BY <1>0, <1>1, <3>2, <3>4, <3>5, LongMeansPart
    <3>7. QED
      BY <1>0, <3>6
  <2>4. QED
    BY <2>1, <2>2, <2>3
<1>5. QED
  BY <1>0, <1>1, <1>3, <1>4 DEF Progress
\* What follows the headers is at hand too, and shorter.
LEMMA BehindHeaders ==
  ASSUME form \in Forms, NEW data \in Seq(Symbols(form)), AtStart(data),
         memmem(Headers(data), HeadersEnd) # 0
  PROVE  LET contents == SubSeq(Headers(data), memmem(Headers(data), HeadersEnd) + 4, Len(Headers(data)))
         IN contents \in Seq(Symbols(form)) /\ Len(contents) <= Len(data)
<1> DEFINE n == Len(boundry_start)
           d == Len(data)
           heads == Headers(data)
           h == memmem(heads, HeadersEnd)
           contents == SubSeq(heads, h + 4, Len(heads))
<1>1. n \in Nat
  <2>1. boundry_start = <<"-", "-", "B", "CR", "LF">> \/ boundry_start = <<"-", "-", "CR", "LF">>
    BY Markers, FormTyped DEF boundry_start
  <2>2. QED
    BY <2>1
<1>2. d \in Nat /\ n + 4 < d
  BY LenProperties DEF AtStart, Long
<1>3. n <= d /\ d <= d
  <2> HIDE DEF n, d
  <2>1. QED
    BY <1>1, <1>2
<1>4. heads \in Seq(Symbols(form)) /\ Len(heads) = d - n
  BY <1>1, <1>2, <1>3, Cut DEF Headers
<1> HIDE DEF n, d, heads
<1>5. Len(HeadersEnd) = 4
  <2>1. HeadersEnd = <<"CR", "LF", "CR", "LF">>
    BY Tuple22 DEF HeadersEnd, CRLF
  <2>2. QED
    BY <2>1
<1>6. Len(heads) \in Nat
  BY <1>4, LenProperties
<1>7. h # 0
  BY DEF heads
<1>8. h \in Nat /\ Hit(heads, HeadersEnd, h)
  BY <1>5, <1>6, <1>7, FirstHit
<1> HIDE DEF h
<1>9. h \in 1..(Len(heads) - 4 + 1)
  BY <1>5, <1>8 DEF Hit
<1>10. h + 3 \in Nat /\ h + 3 <= Len(heads) /\ (h + 3) + 1 = h + 4 /\ Len(heads) <= Len(heads)
  BY <1>6, <1>8, <1>9
<1>11. SubSeq(heads, (h + 3) + 1, Len(heads)) \in Seq(Symbols(form))
       /\ Len(SubSeq(heads, (h + 3) + 1, Len(heads))) = Len(heads) - (h + 3)
  BY <1>4, <1>6, <1>10, Cut
<1>12. contents \in Seq(Symbols(form)) /\ Len(contents) = Len(heads) - (h + 3)
  BY <1>10, <1>11
<1> HIDE DEF contents
<1>13. Len(contents) <= d
  BY <1>1, <1>2, <1>4, <1>8, <1>12
<1>14. QED
  BY <1>12, <1>13 DEF contents, h, heads, d

LEMMA BeginPartStep ==
  ASSUME TInv, Progress, NEW piece \in Pieces, BeginPart(piece)
  PROVE  /\ TInv' /\ Progress' /\ form \in Forms /\ form' = form
         /\ accident' # "unmoved" => accident # "unmoved"
         /\ pc' = "terminated" => post_data' = post_data
<1> DEFINE data == buf \o piece
           h == memmem(Headers(data), HeadersEnd)
           contents == SubSeq(Headers(data), h + 4, Len(Headers(data)))
<1>0. /\ bss = "find" /\ Recv(piece) /\ AtStart(data) /\ h # 0
      /\ isFile' = (memmem(SubSeq(Headers(data), 1, h - 1), <<"filename">>) # 0)
      /\ Content(data, contents, isFile')
  BY Zenon DEF BeginPart
<1>1. /\ form \in Forms /\ form' = form /\ closed' \in BOOLEAN /\ pc = "reading"
      /\ data \in Seq(Symbols(form)) /\ Len(data) = Len(buf) + Len(piece)
      /\ Len(buf) \in Nat /\ Len(piece) \in Nat /\ Len(post_data) \in Nat /\ Len(Message(form)) \in Nat
      /\ Len(buf) + Len(piece) <= 2 * BufSize /\ BufSize \in Nat
      /\ Len(rest) \in Nat /\ Len(rest') \in Nat /\ Len(piece) + Len(rest') = Len(rest)
      /\ Len(post_data) + Len(buf) + Len(rest) <= Len(Message(form))
      /\ \E c \in Places(form') : rest' = Piece(form', c, Len(Message(form')))
  BY <1>0, ReceivedTyped
<1>2. contents \in Seq(Symbols(form)) /\ Len(contents) <= Len(data)
  BY <1>0, <1>1, BehindHeaders
<1>3. isFile' \in BOOLEAN
  BY <1>0, Zenon
<1> HIDE DEF data, h, contents
<1>4. Len(contents) <= 2 * BufSize /\ Len(post_data) + Len(contents) + Len(rest') <= Len(Message(form))
  <2>1. Len(contents) \in Nat
    BY <1>2, LenProperties
  <2>2. QED
    BY <1>1, <1>2, <2>1
<1>5. /\ buf' \in Seq(Symbols(form')) /\ Len(buf') <= 2 * BufSize
      /\ post_data' \in Seq(Symbols(form'))
      /\ Len(post_data') + Len(buf') + Len(rest') <= Len(Message(form'))
      /\ bss' \in {"find", "content"} /\ pc' \in {"reading", "terminated"}
      /\ accident' \in {"none", "short", "late", "unmoved"}
      /\ accident' # "unmoved" => accident # "unmoved"
      /\ pc' = "terminated" => post_data' = post_data
  <2>1. accident \in {"none", "short", "late", "unmoved"} /\ post_data \in Seq(Symbols(form))
    BY DEF TInv
  <2>2. form \in Forms /\ pc = "reading" /\ form' = form /\ data \in Seq(Symbols(form)) /\ Len(rest') \in Nat
    BY <1>1
  <2>3. Content(data, contents, isFile')
    BY <1>0
  <2>4. QED
    BY <1>2, <1>4, <2>1, <2>2, <2>3, ContentTyped
<1>6. TInv'
  <2>1. form' \in Forms
    BY <1>1
  <2>2. pc' \in {"reading"} \cup Outcome /\ (pc' = "returned" => rest' = <<>> /\ buf' = <<>>)
    BY <1>5 DEF Outcome
  <2>3. QED
    BY <1>1, <1>3, <1>5, <2>1, <2>2, Zenon DEF TInv
<1>7. ASSUME accident' # "unmoved", pc' # "terminated" PROVE InFind' \/ InContent' \/ InTail'
  <2>1. InText \/ InFind
    BY <1>0, <1>1, <1>5, <1>7 DEF Progress, InContent, InTail
  <2>2. CASE InText
    <3>1. PICK a \in Places(form), b \in Places(form) : Holds(a, b)
      BY <2>2 DEF InText
    <3>2. a \in Nat /\ Recv(piece) /\ form \in Forms
      BY <1>0, <1>1 DEF Places
    <3>3. PICK c \in Places(form) : a <= b /\ b <= c /\ data = Piece(form, a, c)
      <4>1. \E c \in Places(form) :
              /\ a <= b /\ b <= c /\ buf = Piece(form, a, b) /\ Len(buf) = b - a
              /\ data = Piece(form, a, c) /\ Len(data) = c - a
              /\ rest' = Piece(form, c, Len(Message(form)))
        <5>1. Reaches(piece, a, b)
          BY <3>1, <3>2, AtHand
        <5>2. QED
          BY <5>1 DEF data, Reaches
      <4>2. QED
        BY <4>1
    <3>4. a <= c /\ c \in Nat /\ c <= Len(Message(form)) /\ ~form.multipart
      BY <1>1, <2>2, <3>2, <3>3 DEF Places, InText
    <3>5. ~IsPrefix(Start(form), data)
      BY <3>2, <3>3, <3>4, NoPlainMarker
    <3>6. QED
      BY <1>0, <3>5 DEF AtStart, boundry_start
  <2>3. CASE InFind
    <3>1. PICK k \in 1..(Len(form.parts) + 1), b \in Places(form) :
            Holds(PartAt(form, k), b) /\ post_data = SavedUpTo(form, k - 1)
      BY <2>3 DEF InFind
    <3>2. form.multipart /\ accident = "none" /\ form \in Forms /\ Recv(piece) /\ form' = form
      BY <1>0, <1>1, <2>3 DEF InFind
    <3> DEFINE P == PartAt(form, k)
               T == TextAt(form, k)
    <3>3. P \in Nat
      BY <3>2, PartAtIs
    <3>4. PICK c \in Places(form) :
            /\ P <= b /\ b <= c /\ data = Piece(form, P, c)
            /\ rest' = Piece(form, c, Len(Message(form)))
      <4>1. Reaches(piece, P, b)
        BY <3>1, <3>2, <3>3, AtHand
      <4>2. QED
        BY <4>1 DEF data, Reaches
    <3>5. P <= c /\ c \in Nat /\ c <= Len(Message(form))
      <4>1. form \in Forms /\ P \in Nat
        BY <1>1, <3>3
      <4>2. QED
        BY <3>1, <3>4, <4>1, Onward
    <3>6. k \in Parts(form) /\ P + 9 < c
      <4>1. Long(data)
        BY <1>0 DEF AtStart
      <4>2. QED
        BY <3>2, <3>4, <3>5, <4>1, LongMeansPart
    <3>7. /\ h = 2 /\ contents = Piece(form, T, c)
          /\ memmem(SubSeq(Headers(data), 1, 1), <<"filename">>) # 0 <=> form.parts[k].file
      <4>1. /\ memmem(Headers(data), HeadersEnd) = 2
            /\ memmem(SubSeq(Headers(data), 1, 1), <<"filename">>) # 0 <=> form.parts[k].file
            /\ SubSeq(Headers(data), 6, Len(Headers(data))) = Piece(form, T, c)
        BY <3>2, <3>4, <3>5, <3>6, HeadersAt DEF Headers, boundry_start
      <4>2. h = 2
        BY <4>1 DEF h
      <4>3. 2 + 4 = 6
        OBVIOUS
      <4>4. contents = SubSeq(Headers(data), 6, Len(Headers(data)))
        BY <4>2, <4>3 DEF contents
      <4>5. QED
        BY <4>1, <4>2, <4>4
    <3>8. isFile' = form.parts[k].file
      <4>1. form.parts[k].file \in BOOLEAN
        BY <3>2, <3>6, PartTyped
      <4>2. 2 - 1 = 1
        OBVIOUS
      <4>3. isFile' = (memmem(SubSeq(Headers(data), 1, 1), <<"filename">>) # 0)
        BY <1>0, <3>7, <4>2, Zenon
      <4>4. QED
        BY <3>7, <4>1, <4>3, Zenon
    <3>9. 0 \in 0..(TextLen(form, k) + 2) /\ T + 0 = T /\ T + 0 <= c
      <4>1. TextLen(form, k) \in Nat
        BY <3>2, <3>6, PartTyped
      <4>2. T \in Nat /\ T <= c
        BY <3>3, <3>5, <3>6 DEF TextAt
      <4>3. QED
        BY <4>1, <4>2
    <3>10. post_data = StoredOf(form, k, 0)
      BY <3>1, <3>2, <3>6, StoredStart
    <3>11. Content(data, Piece(form, T + 0, c), isFile')
      BY <1>0, <3>7, <3>9
    <3> DEFINE file == isFile'
    <3>12. Content(data, Piece(form, TextAt(form, k) + 0, c), file) /\ file = form.parts[k].file /\ isFile' = file
           /\ TextAt(form, k) + 0 <= c
      BY <3>8, <3>9, <3>11, Zenon
    <3> HIDE DEF P, T, file
    <3>13. QED
      BY <1>7, <3>2, <3>4, <3>6, <3>9, <3>10, <3>12, ContentStep
  <2>4. QED
    BY <2>1, <2>2, <2>3
<1>8. QED
  BY <1>1, <1>5, <1>6, <1>7 DEF Progress

LEMMA ContinuePartStep ==
  ASSUME TInv, Progress, NEW piece \in Pieces, ContinuePart(piece)
  PROVE  /\ TInv' /\ Progress' /\ form \in Forms /\ form' = form
         /\ accident' # "unmoved" => accident # "unmoved"
         /\ pc' = "terminated" => post_data' = post_data
<1> DEFINE data == buf \o piece
<1>0. bss = "content" /\ Recv(piece) /\ Content(data, data, isFile) /\ isFile' = isFile
  BY Zenon DEF ContinuePart
<1>1. /\ form \in Forms /\ form' = form /\ closed' \in BOOLEAN /\ pc = "reading"
      /\ data \in Seq(Symbols(form)) /\ Len(data) = Len(buf) + Len(piece)
      /\ Len(buf) \in Nat /\ Len(piece) \in Nat /\ Len(post_data) \in Nat /\ Len(Message(form)) \in Nat
      /\ Len(buf) + Len(piece) <= 2 * BufSize /\ BufSize \in Nat
      /\ Len(rest) \in Nat /\ Len(rest') \in Nat /\ Len(piece) + Len(rest') = Len(rest)
      /\ Len(post_data) + Len(buf) + Len(rest) <= Len(Message(form))
      /\ \E c \in Places(form') : rest' = Piece(form', c, Len(Message(form')))
  BY <1>0, ReceivedTyped
<1> HIDE DEF data
<1>2. isFile' \in BOOLEAN
  BY <1>0, Zenon DEF TInv
<1>4. /\ Len(data) <= 2 * BufSize /\ Len(post_data) + Len(data) + Len(rest') <= Len(Message(form))
      /\ Len(data) \in Nat /\ Len(data) <= Len(data) /\ Len(data) + Len(rest') = Len(buf) + Len(rest)
  <2> DEFINE d == Len(data)
             u == Len(buf)
             v == Len(piece)
             w == Len(post_data)
             m == Len(Message(form))
             q == Len(rest)
             z == Len(rest')
  <2>1. /\ d = u + v /\ u \in Nat /\ v \in Nat /\ w \in Nat /\ m \in Nat /\ q \in Nat /\ z \in Nat
        /\ u + v <= 2 * BufSize /\ v + z = q /\ w + u + q <= m
    BY <1>1
  <2> HIDE DEF d, u, v, w, m, q, z
  <2>2. d <= 2 * BufSize /\ w + d + z <= m /\ d \in Nat /\ d <= d /\ d + z = u + q
    BY <2>1
  <2>3. QED
    BY <2>2 DEF d, u, v, w, m, q, z
<1>5. /\ buf' \in Seq(Symbols(form')) /\ Len(buf') <= 2 * BufSize
      /\ post_data' \in Seq(Symbols(form'))
      /\ Len(post_data') + Len(buf') + Len(rest') <= Len(Message(form'))
      /\ bss' \in {"find", "content"} /\ pc' \in {"reading", "terminated"}
      /\ accident' \in {"none", "short", "late", "unmoved"}
      /\ accident' # "unmoved" => accident # "unmoved"
      /\ pc' = "terminated" => post_data' = post_data
  <2>1. accident \in {"none", "short", "late", "unmoved"} /\ post_data \in Seq(Symbols(form))
    BY DEF TInv
  <2>2. form \in Forms /\ pc = "reading" /\ form' = form /\ data \in Seq(Symbols(form)) /\ Len(rest') \in Nat
    BY <1>1
  <2>3. Content(data, data, isFile)
    BY <1>0
  <2>4. QED
    BY <1>4, <2>1, <2>2, <2>3, ContentTyped
<1>6. TInv'
  <2>1. form' \in Forms
    BY <1>1
  <2>2. pc' \in {"reading"} \cup Outcome /\ (pc' = "returned" => rest' = <<>> /\ buf' = <<>>)
    BY <1>5 DEF Outcome
  <2>3. QED
    BY <1>1, <1>2, <1>5, <2>1, <2>2, Zenon DEF TInv
<1>7. ASSUME accident' # "unmoved", pc' # "terminated" PROVE InFind' \/ InContent' \/ InTail'
  <2>1. InContent \/ InTail
    BY <1>0, <1>1, <1>5, <1>7 DEF Progress, InText, InFind
  <2>2. CASE InContent
    <3>1. PICK k \in Parts(form), b \in Places(form) : \E x \in 0..(TextLen(form, k) + 2) :
            Holds(TextAt(form, k) + x, b) /\ isFile = form.parts[k].file /\ post_data = StoredOf(form, k, x)
      BY <2>2 DEF InContent
    <3>2. PICK x \in 0..(TextLen(form, k) + 2) :
            Holds(TextAt(form, k) + x, b) /\ isFile = form.parts[k].file /\ post_data = StoredOf(form, k, x)
      BY <3>1
    <3>3. form.multipart /\ accident = "none" /\ form \in Forms /\ form' = form /\ Recv(piece)
      BY <1>0, <1>1, <2>2 DEF InContent
    <3> DEFINE a == TextAt(form, k) + x
    <3>4. a \in Nat
      <4>1. TextAt(form, k) \in Nat /\ TextLen(form, k) \in Nat
        BY <3>3, StoredTyped, PartTyped
      <4>2. QED
        BY <3>2, <4>1
    <3> HIDE DEF a
    <3>5. \E c \in Places(form) :
            /\ a <= b /\ b <= c /\ buf = Piece(form, a, b) /\ Len(buf) = b - a
            /\ data = Piece(form, a, c) /\ Len(data) = c - a
            /\ rest' = Piece(form, c, Len(Message(form)))
      <4>1. Holds(a, b)
        BY <3>2 DEF a
      <4>2. Reaches(piece, a, b)
        BY <3>3, <3>4, <4>1, AtHand
      <4>3. QED
        BY <4>2 DEF data, Reaches
    <3>6. PICK c \in Places(form) :
            a <= b /\ b <= c /\ data = Piece(form, a, c) /\ rest' = Piece(form, c, Len(Message(form)))
      BY <3>5
    <3>7. a <= c
      <4>1. form \in Forms /\ a \in Nat
        BY <1>1, <3>4
      <4>2. QED
        BY <3>2, <3>6, <4>1, Onward
    <3> DEFINE file == isFile
    <3>8. Content(data, Piece(form, TextAt(form, k) + x, c), file) /\ file = form.parts[k].file /\ isFile' = file
          /\ TextAt(form, k) + x <= c
      BY <1>0, <3>2, <3>6, <3>7 DEF a
    <3> HIDE DEF file
    <3>9. QED
      BY <1>7, <3>2, <3>3, <3>6, <3>8, ContentStep
  <2>3. CASE InTail
    <3> DEFINE s == memmem(data, boundry_start)
               e == memmem(data, boundry_end)
    <3>1. form.multipart /\ Len(buf) + Len(rest) <= 2 /\ post_data = Saved(form)
      BY <2>3 DEF InTail
    <3>2. Len(data) <= 2 /\ Len(data) <= Kept
      <4>1. Kept = 4
        BY <1>1, <3>1, KeptIs
      <4>2. QED
        BY <1>1, <1>4, <3>1, <4>1
    <3>3. ASSUME NEW t, Len(t) = 5 PROVE memmem(data, t) = 0
      <4> DEFINE m == memmem(data, t)
      <4>1. ASSUME m # 0 PROVE FALSE
        <5>1. Len(t) \in Nat
          BY <3>3
        <5>2. Hit(data, t, m)
          BY <1>4, <4>1, <5>1, FirstHit
        <5>3. m \in 1..(Len(data) - 5 + 1)
          BY <3>3, <5>2 DEF Hit
        <5> HIDE DEF m
        <5>4. QED
          BY <1>4, <3>2, <5>3
      <4>2. QED
        BY <4>1
    <3>4. s = 0 /\ e = 0
      <4>1. Len(boundry_start) = 5 /\ Len(boundry_end) = 5
        BY <1>1, <3>1, FormSymbols DEF boundry_start, boundry_end
      <4>2. QED
        BY <3>3, <4>1
    <3>5. /\ bss' = "content" /\ buf' = SubSeq(data, 1, Len(data)) /\ post_data' = post_data
      <4> HIDE DEF s, e
      <4>1. \/ s # 0
            \/ e # 0
            \/ ~(Len(data) <= Kept) \/ Len(data) > Kept
            \/ /\ bss' = "content" /\ buf' = SubSeq(data, 1, Len(data))
               /\ UNCHANGED <<pc, post_data>>
        BY <1>0, Zenon DEF Content, s, e
      <4>2. Kept \in Nat
        BY <1>1, KeptIs
      <4>3. QED
        BY <1>4, <3>2, <3>4, <4>1, <4>2
    <3>6. buf' = data
      BY <1>1, <3>5, SubSeqFull
    <3>7. Len(buf') + Len(rest') <= 2
      BY <1>4, <3>1, <3>6
    <3>8. form'.multipart /\ post_data' = Saved(form')
      BY <1>1, <3>1, <3>5
    <3>9. QED
      BY <3>5, <3>7, <3>8 DEF InTail
  <2>4. QED
    BY <2>1, <2>2, <2>3
<1>8. QED
  BY <1>1, <1>5, <1>6, <1>7 DEF Progress
-----------------------------------------------------------------------------
LEMMA InitInv == Init => Inv
<1> SUFFICES ASSUME Init PROVE Inv
  OBVIOUS
<1> DEFINE L == Len(Message(form))
           M == Message(form)
<1>0. /\ form \in Forms /\ rest = M /\ closed = FALSE
      /\ buf = <<>> /\ bss = "find" /\ isFile = FALSE /\ post_data = <<>>
      /\ pc = "reading" /\ accident = "none"
  BY DEF Init
<1>1. M \in Seq(Symbols(form)) /\ L \in Nat
  BY <1>0, MessageTyped
<1>2. Piece(form, 0, L) = M /\ Piece(form, 0, 0) = <<>>
  <2>1. SubSeq(M, 1, L) = M
    BY <1>1, SubSeqFull
  <2>2. SubSeq(M, 1, 0) = <<>>
    BY SubSeqEmpty
  <2>3. 0 + 1 = 1
    OBVIOUS
  <2> HIDE DEF M
  <2>4. Piece(form, 0, L) = SubSeq(M, 0 + 1, L) /\ Piece(form, 0, 0) = SubSeq(M, 0 + 1, 0)
    BY DEF Piece, M
  <2>5. QED
    BY <2>1, <2>2, <2>3, <2>4
<1>3. 0 \in Places(form)
  BY <1>1 DEF Places
<1>4. TInv
  <2>1. \E b \in Places(form) : rest = Piece(form, b, Len(Message(form)))
    BY <1>0, <1>2, <1>3
  <2>2. <<>> \in Seq(Symbols(form)) /\ Len(<<>>) = 0
    BY EmptySeq
  <2>3. Len(buf) <= 2 * BufSize /\ Len(post_data) + Len(buf) + Len(rest) <= L
    <3>1. Len(buf) = 0 /\ Len(post_data) = 0 /\ Len(rest) = L
      BY <1>0, <2>2
    <3> HIDE DEF L
    <3>2. QED
      BY <1>1, <3>1, BufferAssumption
  <2>4. buf \in Seq(Symbols(form)) /\ post_data \in Seq(Symbols(form))
    BY <1>0, <2>2
  <2>5. QED
    BY <1>0, <2>1, <2>3, <2>4 DEF TInv
<1>5. CASE ~form.multipart
  <2>1. Holds(0, 0) /\ post_data = Piece(form, 0, 0)
    BY <1>0, <1>2 DEF Holds
  <2>2. InText
    BY <1>0, <1>3, <1>5, <2>1 DEF InText
  <2>3. QED
    BY <1>0, <1>4, <2>2, StoredSome DEF Inv, Progress, StoredIsPrefix, Good
<1>6. CASE form.multipart
  <2>1. Len(form.parts) \in Nat
    BY <1>0, FormTyped
  <2>2. 1 \in 1..(Len(form.parts) + 1) /\ 1 - 1 = 0 /\ 0 \in 0..Len(form.parts)
    BY <2>1
  <2>3. PartAt(form, 1) = 0
    <3>1. SubSeq(Laid(form), 1, 1 - 1) = <<>>
      BY <2>2, SubSeqEmpty
    <3>2. QED
      BY <3>1, FlattenEmpty, EmptySeq DEF PartAt
  <2>4. post_data = SavedUpTo(form, 1 - 1)
    BY <1>0, <2>2, SavedTyped
  <2>5. Holds(PartAt(form, 1), 0)
    BY <1>0, <1>2, <2>3 DEF Holds
  <2>6. InFind
    BY <1>0, <1>3, <1>6, <2>2, <2>4, <2>5 DEF InFind
  <2>7. QED
    BY <1>0, <1>4, <2>6, StoredSome DEF Inv, Progress, StoredIsPrefix, Good
<1>7. QED
  BY <1>5, <1>6

\* A step that only ends the loop or closes the connection.
LEMMA OnlyControl ==
  ASSUME Inv, form' = form, rest' = rest, buf' = buf, bss' = bss, isFile' = isFile,
         post_data' = post_data, accident' = accident, closed' \in BOOLEAN,
         pc' \in {"reading"} \cup Outcome, pc = "terminated" => pc' = "terminated",
         pc' = "returned" => rest = <<>> /\ buf = <<>>
  PROVE  Inv'
<1>1. TInv'
  BY Zenon DEF Inv, TInv
<1>2. /\ InText => InText'
      /\ InFind => InFind'
      /\ InContent => InContent'
      /\ InTail => InTail'
  <2>1. InText => InText'
    BY DEF InText, Holds
  <2>2. InFind => InFind'
    BY DEF InFind, Holds
  <2>3. InContent => InContent'
    BY DEF InContent, Holds
  <2>4. InTail => InTail'
    BY DEF InTail
  <2>5. QED
    BY <2>1, <2>2, <2>3, <2>4
<1>3. Progress'
  BY <1>2 DEF Inv, Progress
<1>4. StoredIsPrefix'
  BY DEF Inv, StoredIsPrefix
<1>5. QED
  BY <1>1, <1>3, <1>4 DEF Inv

LEMMA NextInv == Inv /\ [Next]_vars => Inv'
<1> SUFFICES ASSUME Inv, [Next]_vars PROVE Inv'
  OBVIOUS
<1> USE DEF Outcome
<1>0. TInv /\ Progress /\ StoredIsPrefix /\ closed \in BOOLEAN /\ pc \in {"reading"} \cup Outcome
      /\ (pc = "returned" => rest = <<>> /\ buf = <<>>)
  BY DEF Inv, TInv
<1>1. ASSUME /\ TInv' /\ Progress' /\ form \in Forms /\ form' = form
             /\ accident' # "unmoved" => accident # "unmoved"
             /\ pc' = "terminated" => post_data' = post_data
      PROVE  Inv'
  BY <1>0, <1>1, PrefixKept DEF Inv
<1>2. ASSUME NEW piece \in Pieces, KeepReading(piece) PROVE Inv'
  BY <1>0, <1>1, <1>2, KeepReadingStep
<1>3. ASSUME NEW piece \in Pieces, StoreRaw(piece) PROVE Inv'
  BY <1>0, <1>1, <1>3, StoreRawStep
<1>4. ASSUME NEW piece \in Pieces, BeginPart(piece) PROVE Inv'
  BY <1>0, <1>1, <1>4, BeginPartStep
<1>5. ASSUME NEW piece \in Pieces, ContinuePart(piece) PROVE Inv'
  BY <1>0, <1>1, <1>5, ContinuePartStep
<1>6. ASSUME NEW piece \in Pieces, Overrun(piece) PROVE Inv'
  BY <1>0, <1>6, OnlyControl DEF Overrun, Looping
<1>7. CASE Return
  BY <1>0, <1>7, OnlyControl DEF Return
<1>8. CASE RecvError
  BY <1>0, <1>8, OnlyControl DEF RecvError, Looping
<1>9. CASE PeerCloses
  BY <1>0, <1>9, OnlyControl DEF PeerCloses
<1>10. CASE UNCHANGED vars
  BY <1>0, <1>10, OnlyControl DEF vars
<1>11. QED
  BY <1>2, <1>3, <1>4, <1>5, <1>6, <1>7, <1>8, <1>9, <1>10 DEF Next, Iterate, EmptyRead, Done

\* The invariant the theorems below rest on: wherever the pieces were cut, the
\* buffer and the bytes still owed are an end of the message, and post_data
\* is what belongs there of all that lies before.
THEOREM Invariant == Spec => []Inv
<1>1. Safety => []Inv
  BY InitInv, NextInv, PTL DEF Safety
<1>2. QED
  BY <1>1, PTL DEF Spec

\* The variables keep their types, the bytes owed are an end of the message,
\* and no byte is taken twice: what is stored, buffered and owed is at most as
\* long as what was sent (get_content, the loop around recv).
THEOREM TypeCorrect == Spec => []TypeOK
<1>1. Inv => TypeOK
  <2> SUFFICES ASSUME Inv PROVE TypeOK
    OBVIOUS
  <2>1. TInv
    BY DEF Inv
  <2>2. PICK b \in Places(form) : rest = Piece(form, b, Len(Message(form)))
    BY <2>1 DEF TInv
  <2> DEFINE M == Message(form)
             L == Len(M)
  <2>3. form \in Forms /\ b \in Nat /\ L \in Nat /\ b <= L /\ M \in Seq(Symbols(form))
    BY <2>1, MessageTyped DEF TInv, Places
  <2> HIDE DEF L
  <2>4. 0 \in Nat /\ 0 <= b /\ L <= Len(Message(form)) /\ b <= Len(Message(form)) /\ L = Len(M)
    BY <2>3 DEF L
  <2>5. Piece(form, 0, b) \o Piece(form, b, L) = Piece(form, 0, L)
    <3>1. form \in Forms /\ 0 \in Nat /\ b \in Nat /\ L \in Nat /\ 0 <= b /\ b <= L /\ L <= Len(Message(form))
      BY <2>3, <2>4
    <3> HIDE DEF M
    <3>2. QED
      BY <3>1, PieceJoin
  <2>6. Piece(form, 0, L) = M
    <3>1. SubSeq(M, 1, Len(M)) = M
      BY <2>3, SubSeqFull
    <3>2. 0 + 1 = 1
      OBVIOUS
    <3> HIDE DEF M
    <3>3. Piece(form, 0, L) = SubSeq(M, 0 + 1, Len(M))
      BY <2>4 DEF Piece, M
    <3>4. QED
      BY <3>1, <3>2, <3>3
  <2>7. Piece(form, 0, b) \in Seq(Symbols(form)) /\ Piece(form, b, L) \in Seq(Symbols(form))
    BY <2>3, <2>4, PieceTyped
  <2>8. IsSuffix(rest, M)
    <3>1. IsSuffix(Piece(form, b, L), Piece(form, 0, b) \o Piece(form, b, L))
      BY <2>7, SuffixOfConcat
    <3>2. QED
      BY <2>2, <2>5, <2>6, <3>1 DEF L
  <2> HIDE DEF M
  <2>9. QED
    BY <2>1, <2>8, Zenon DEF TypeOK, TInv, M
<1>2. QED
  BY <1>1, Invariant, PTL

\* However a body is cut into pieces, and wherever recv fails or the peer
\* closes, get_content stores a beginning of what belongs into post_data,
\* and all of it when its loop ends by itself; the one cut excepted that the
\* model marks as unmoved.
THEOREM StoredRight == Spec => []StoredAsSent
<1>1. Inv => StoredAsSent
  <2> SUFFICES ASSUME Inv, pc = "returned", accident # "unmoved" PROVE post_data = Saved(form)
    BY DEF StoredAsSent, ReturnedIsWhole, Inv
  <2> DEFINE M == Message(form)
             L == Len(M)
  <2>1. form \in Forms /\ rest = <<>> /\ buf = <<>>
    BY DEF Inv, TInv
  <2>2. InText \/ InFind \/ InContent \/ InTail
    BY DEF Inv, Progress
  <2>3. L \in Nat /\ M \in Seq(Symbols(form))
    BY <2>1, MessageTyped
  <2>4. Len(buf) = 0 /\ Len(rest) = 0
    BY <2>1, EmptySeq
  \* Nothing is left, so the place is the end of the message.
  <2>5. ASSUME NEW a \in Nat, NEW b \in Places(form), Holds(a, b) PROVE a = L
    <3>1. b \in Nat /\ b <= L /\ a <= b /\ buf = Piece(form, a, b) /\ rest = Piece(form, b, L) /\ L <= L
      BY <2>3, <2>5 DEF Places, Holds
    <3>2. Len(Piece(form, a, b)) = b - a
      BY <2>1, <3>1, PieceTyped
    <3>3. Len(Piece(form, b, L)) = L - b
      BY <2>1, <2>3, <3>1, PieceTyped
    <3> HIDE DEF L
    <3>4. QED
      BY <2>3, <2>4, <3>1, <3>2, <3>3
  <2>6. CASE InText
    <3>1. PICK a \in Places(form), b \in Places(form) : Holds(a, b) /\ post_data = Piece(form, 0, a)
      BY <2>6 DEF InText
    <3>2. a \in Nat
      BY DEF Places
    <3>3. post_data = Piece(form, 0, L)
      BY <2>5, <3>1, <3>2
    <3>4. Piece(form, 0, L) = M
      <4>1. SubSeq(M, 1, L) = M
        BY <2>3, SubSeqFull
      <4>2. 0 + 1 = 1
        OBVIOUS
      <4> HIDE DEF M
      <4>3. Piece(form, 0, L) = SubSeq(M, 0 + 1, L)
        BY DEF Piece, M
      <4>4. QED
        BY <4>1, <4>2, <4>3
    <3>5. Saved(form) = M
      BY <2>1, <2>6, MessageTyped DEF InText
    <3>6. QED
      BY <3>3, <3>4, <3>5
  <2>7. CASE InFind
    <3>1. PICK k \in 1..(Len(form.parts) + 1), b \in Places(form) : Holds(PartAt(form, k), b)
      BY <2>7 DEF InFind
    <3>2. form.multipart
      BY <2>7 DEF InFind
    <3> DEFINE P == PartAt(form, k)
               Q == PartAt(form, Len(form.parts) + 1)
    <3>3. P \in Nat /\ P <= Q
      BY <2>1, <3>2, PartAtIs
    <3>4. Q \in Nat /\ L = Q + 7
      BY <2>1, <3>2, EndLayout
    <3>5. P = L
      BY <2>5, <3>1, <3>3
    <3> HIDE DEF P, Q, L
    <3>6. QED
      BY <3>3, <3>4, <3>5
  <2>8. CASE InContent
    <3>1. PICK k \in Parts(form), b \in Places(form) : \E x \in 0..(TextLen(form, k) + 2) : Holds(TextAt(form, k) + x, b)
      BY <2>8 DEF InContent
    <3>2. PICK x \in 0..(TextLen(form, k) + 2) : Holds(TextAt(form, k) + x, b)
      BY <3>1
    <3>3. form.multipart
      BY <2>8 DEF InContent
    <3> DEFINE T == TextAt(form, k)
               n == TextLen(form, k)
               Q == PartAt(form, k + 1)
    <3>4. T \in Nat /\ n \in Nat /\ x \in 0..(n + 2)
      BY <2>1, <3>2, <3>3, StoredTyped, PartTyped
    <3>5. Q = (T + n) + 2 /\ Q + 7 <= L
      BY <2>1, <3>3, Layout, MarkerBehind
    <3>6. T + x = L
      <4>1. T + x \in Nat
        <5> HIDE DEF T, n
        <5>1. QED
          BY <3>4
      <4>2. QED
        BY <2>5, <3>2, <4>1
    <3> HIDE DEF T, n, Q, L
    <3>7. QED
      BY <2>3, <3>4, <3>5, <3>6
  <2>9. CASE InTail
    BY <2>9 DEF InTail
  <2>10. QED
    BY <2>2, <2>6, <2>7, <2>8, <2>9
<1>2. QED
  BY <1>1, Invariant, PTL
=============================================================================
