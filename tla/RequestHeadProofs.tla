------------------------- MODULE RequestHeadProofs -------------------------
(***************************************************************************)
(* Proofs about RequestHead: for buffers of any size, any requests of the  *)
(* form that RequestAssumption gives them, connections that are lost after *)
(* any byte, and a Kill at any time.                                       *)
(***************************************************************************)
EXTENDS RequestHead, SequenceTheorems, FiniteSetTheorems, WellFoundedInduction, TLAPS

\* The first sequences of several, one behind another.
Layers(s, k) == FlattenSeq(SubSeq(s, 1, k))

\* The head as positions in the message: line i begins behind LineAt(r, i), and
\* the empty line that ends the head is the last one.
Lines(r)      == 1..(Len(Written(r)) + 1)
Line(r, i)    == IF i <= Len(Written(r)) THEN Written(r)[i] ELSE <<>>
Rows(r)       == [i \in Lines(r) |-> Line(r, i) \o r.eol]
LineAt(r, i)  == Len(Layers(Rows(r), i - 1))
LineEnd(r, i) == LineAt(r, i) + Len(Line(r, i))
NextAt(r, i)  == LineEnd(r, i) + Len(r.eol)
Piece(r, a, b) == SubSeq(Message(r), a + 1, b)

\* What the first line consists of.
PathText(r)  == FlattenSeq(r.path)
ParamText(p) == IF p.val = None THEN p.key ELSE p.key \o <<"=">> \o p.val
QueryParts(r) == [i \in DOMAIN r.query |->
                    (IF i = 1 THEN <<"?">> ELSE <<"&">>) \o ParamText(r.query[i])]
QueryText(r) == SubSeq(FlattenSeq(QueryParts(r)), 2, Len(FlattenSeq(QueryParts(r))))

\* What one call of get_line takes at most.
Full == LineSize - 1

\* get_line began behind place b of line i, after some full buffers of it.
Begins(i, b) == \E t \in Nat : b = LineAt(request, i) + t * Full /\ b <= LineEnd(request, i)

\* Where get_line is, with n bytes of the message that arrive: inside the line,
\* behind a carriage return, behind the line, or where the message was cut off.
InText(i, b, n) ==
  /\ c = Other
  /\ \E p \in b..n :
       /\ p <= LineEnd(request, i) /\ p - b <= Full
       /\ line = Piece(request, b, p) /\ rest = Piece(request, p, n)
AtCR(i, b, n) ==
  /\ c = "CR" /\ request.eol \in {<<"CR", "LF">>, <<"CR">>}
  /\ LineEnd(request, i) < n /\ LineEnd(request, i) - b < Full
  /\ line = Piece(request, b, LineEnd(request, i)) /\ rest = Piece(request, LineEnd(request, i) + 1, n)
AtLF(i, b, n) ==
  /\ c = "LF"
  /\ NextAt(request, i) <= n /\ LineEnd(request, i) - b < Full
  /\ line = Append(Piece(request, b, LineEnd(request, i)), "LF") /\ rest = Piece(request, NextAt(request, i), n)
AtCut(i, b) ==
  /\ c = "LF" /\ socket # "open" /\ rest = <<>>
  /\ \/ line = Append(Piece(request, b, LineEnd(request, i)), "LF")
     \/ \E p \in b..LineEnd(request, i) : p - b < Full /\ line = Piece(request, b, p)
Place(i, b, n) ==
  /\ n \in 0..Len(Message(request)) /\ (socket # "shut" => n = Len(Message(request)))
  /\ InText(i, b, n) \/ AtCR(i, b, n) \/ AtLF(i, b, n) \/ AtCut(i, b)

\* What is known of the head when all of its first k lines were read.
LineRead ==
  /\ method = <<request.method>> /\ url = urldecode(PathText(request))
  /\ query_string = QueryText(request)
AllRead(k) == LineRead /\ properties = RawHeaders(SubSeq(request.headers, 1, k - 1))

\* In line i, and how it came to that.
Whole(i) == \A j \in 1..(i - 1) : Len(Line(request, j)) % Full # 0
Settled(i, b) ==
  /\ Begins(i, b) /\ Whole(i)
  /\ pc = "request line" <=> i = 1 /\ b = 0
  /\ Fits(request) /\ i > 1 => AllRead(i - 1)
Within(i, b, n) == Settled(i, b) /\ Place(i, b, n)

\* Nothing comes any more.
Dry == socket # "open" /\ rest = <<>> /\ line = <<>> /\ c \in {Other, "LF"} /\ pc = "header"

Progress ==
  Parsing /\ ~accident =>
    \/ Dry
    \/ \E i \in Lines(request), n \in 0..Len(Message(request)) :
         \E b \in LineAt(request, i)..LineEnd(request, i) : Within(i, b, n)

\* What has been read is the beginning of what was sent.
LinePrefix ==
  \E x \in 0..Len(PathText(request)), y \in 0..Len(QueryText(request)) :
    /\ url = urldecode(SubSeq(PathText(request), 1, x))
    /\ query_string = SubSeq(QueryText(request), 1, y)
FieldsPrefix ==
  \/ properties = <<>>
  \/ \E n \in DOMAIN request.headers : \E m \in 0..Len(request.headers[n].val) :
       properties = RawHeaders([SubSeq(request.headers, 1, n) EXCEPT ![n].val = SubSeq(@, 1, m)])
Sent ==
  Fits(request) /\ ~accident /\ pc # "request line" =>
    /\ pc # "overrun" /\ LinePrefix /\ FieldsPrefix
    /\ socket = "open" /\ Served => AllRead(Len(Written(request)))

TInv ==
  /\ request \in Requests /\ rest \in Seq(Symbols) /\ line \in Seq(Symbols)
  /\ socket \in {"open", "nonblocking", "shut"}
  /\ c \in {"CR", "LF", Other} /\ pc \in Reading \cup Outcome /\ accident \in BOOLEAN
  /\ Len(line) <= Full /\ (c = "CR" => Len(line) < Full)
  /\ pc = "request line" => url = <<>> /\ query_string = <<>> /\ properties = <<>>
  /\ \A key \in DOMAIN properties : properties[key] \in Seq(Symbols)
  /\ accident => socket # "open"

IInv == TInv /\ Progress /\ Sent /\ HeadEndsAtEmptyLine
-----------------------------------------------------------------------------
(* Numbers and sequences. *)

\* Induction, for a set of numbers: every set of them has a smallest one.

LEMMA Smallest ==
  ASSUME NEW T \in SUBSET Nat, T # {}
  PROVE  \E x \in T : \A y \in T : x <= y
<1> DEFINE R == {ss \in Nat \X Nat : ss[1] < ss[2]}
<1>1. R = OpToRel(<, Nat)
  BY DEF OpToRel
<1>2. IsWellFoundedOn(R, Nat)
  BY <1>1, NatLessThanWellFounded
<1>3. PICK x \in T : \A y \in T : <<y, x>> \notin R
  <2> HIDE DEF R
  <2> QED
    BY <1>2, WFMin
<1>4. ASSUME NEW y \in T PROVE x <= y
  <2>1. x \in Nat /\ y \in Nat
    OBVIOUS
  <2>2. y < x => <<y, x>> \in R
    BY <2>1
  <2>3. QED
    BY <1>3, <2>1, <2>2
<1>5. QED
  BY <1>4

LEMMA Induction ==
  ASSUME NEW T, 0 \in T, \A n \in Nat : n \in T => n + 1 \in T
  PROVE  Nat \subseteq T
<1> SUFFICES ASSUME Nat \ T # {} PROVE FALSE
  OBVIOUS
<1>1. PICK x \in Nat \ T : \A y \in Nat \ T : x <= y
  BY Smallest
<1>2. x # 0 /\ x - 1 \in Nat /\ ~(x <= x - 1)
  BY <1>1
<1>3. x - 1 \in T
  BY <1>1, <1>2
<1>4. x - 1 + 1 = x
  OBVIOUS
<1>5. QED
  BY <1>1, <1>2, <1>3, <1>4

\* How FlattenSeq lays one sequence behind the other.

Flattens(f, m, s) == f = [i \in 1..m |-> IF i = 1 THEN s[i] ELSE f[i - 1] \o s[i]]

LEMMA FlattensExists == ASSUME NEW s, NEW m \in Nat PROVE \E f : Flattens(f, m, s)
<1> DEFINE T == {k \in Nat : \E f : Flattens(f, k, s)}
<1>1. 0 \in T
  <2>1. Flattens([i \in 1..0 |-> s[i]], 0, s)
    BY DEF Flattens
  <2>2. QED
    BY <2>1
<1>2. ASSUME NEW k \in Nat, k \in T PROVE k + 1 \in T
  <2>1. PICK f : Flattens(f, k, s)
    BY <1>2
  <2> DEFINE last == IF k + 1 = 1 THEN s[k + 1] ELSE f[k] \o s[k + 1]
             g == [i \in 1..(k + 1) |-> IF i <= k THEN f[i] ELSE last]
  <2>2. \A i \in 1..k : f[i] = IF i = 1 THEN s[i] ELSE f[i - 1] \o s[i]
    BY <2>1 DEF Flattens
  <2>3. ASSUME NEW i \in 1..(k + 1) PROVE g[i] = IF i = 1 THEN s[i] ELSE g[i - 1] \o s[i]
    <3>1. CASE i \in 1..k
      <4>1. g[i] = f[i] /\ (i # 1 => g[i - 1] = f[i - 1])
        BY <3>1
      <4>2. QED
        BY <2>2, <3>1, <4>1
    <3>2. CASE i = k + 1
      <4>1. g[i] = last /\ (i # 1 => g[i - 1] = f[k])
        BY <3>2
      <4>2. QED
        BY <3>2, <4>1
    <3>3. QED
      BY <3>1, <3>2
  <2>4. Flattens(g, k + 1, s)
    <3>1. g = [i \in 1..(k + 1) |-> g[i]]
      OBVIOUS
    <3> HIDE DEF g
    <3>2. QED
      BY <2>3, <3>1 DEF Flattens
  <2>5. QED
    BY <2>4
<1>3. Nat \subseteq T
  <2> HIDE DEF T
  <2> QED
    BY <1>1, <1>2, Induction
<1>4. QED
  BY <1>3

LEMMA FlattenSteps ==
  ASSUME NEW s, Len(s) \in Nat \ {0}
  PROVE  \E f : Flattens(f, Len(s), s) /\ FlattenSeq(s) = f[Len(s)]
<1> DEFINE f == CHOOSE g : Flattens(g, Len(s), s)
<1>1. Flattens(f, Len(s), s)
  BY FlattensExists, Zenon
<1>2. FlattenSeq(s) = f[Len(s)]
  BY DEF FlattenSeq, Flattens
<1>3. QED
  BY <1>1, <1>2

LEMMA FlattenAppend ==
  ASSUME NEW S, NEW z \in Seq(Seq(S)), NEW x \in Seq(S)
  PROVE  FlattenSeq(Append(z, x)) = IF z = <<>> THEN x ELSE FlattenSeq(z) \o x
<1> DEFINE d == Append(z, x)
           n == Len(z)
<1>1. /\ d \in Seq(Seq(S)) /\ Len(d) = n + 1 /\ n \in Nat /\ d[n + 1] = x /\ \A i \in 1..n : d[i] = z[i]
  BY AppendProperties, LenProperties
<1>2. z = <<>> <=> n = 0
  BY EmptySeq
<1> HIDE DEF d, n
<1>3. PICK f : Flattens(f, n + 1, d) /\ FlattenSeq(d) = f[n + 1]
  <2>1. Len(d) \in Nat \ {0}
    BY <1>1
  <2>2. \E f : Flattens(f, Len(d), d) /\ FlattenSeq(d) = f[Len(d)]
    BY <2>1, FlattenSteps
  <2>3. QED
    BY <1>1, <2>2
<1>4. f[1] = d[1] /\ \A i, j : i \in 2..(n + 1) /\ j = i - 1 => f[i] = f[j] \o d[i]
  <2>1. \A i \in 1..(n + 1) : f[i] = IF i = 1 THEN d[i] ELSE f[i - 1] \o d[i]
    BY <1>3 DEF Flattens
  <2>2. 1 \in 1..(n + 1) /\ \A i \in 2..(n + 1) : i \in 1..(n + 1) /\ i # 1
    BY <1>1
  <2>3. QED
    BY <2>1, <2>2
<1>5. CASE n = 0
  BY <1>1, <1>2, <1>3, <1>4, <1>5 DEF d
<1>6. CASE n # 0
  <2>1. PICK g : Flattens(g, n, z) /\ FlattenSeq(z) = g[n]
    BY <1>1, <1>6, FlattenSteps DEF n
  <2>2. g[1] = z[1] /\ \A i, j : i \in 2..n /\ j = i - 1 => g[i] = g[j] \o z[i]
    <3>1. \A i \in 1..n : g[i] = IF i = 1 THEN z[i] ELSE g[i - 1] \o z[i]
      BY <2>1 DEF Flattens
    <3>2. 1 \in 1..n /\ \A i \in 2..n : i \in 1..n /\ i # 1
      BY <1>1, <1>6
    <3>3. QED
      BY <3>1, <3>2
  <2> DEFINE T == {i \in Nat : i \in 1..n => f[i] = g[i]}
  <2>3. 0 \in T
    OBVIOUS
  <2>4. ASSUME NEW i \in Nat, i \in T PROVE i + 1 \in T
    <3> SUFFICES ASSUME i + 1 \in 1..n PROVE f[i + 1] = g[i + 1]
      OBVIOUS
    <3>1. i + 1 \in 1..(n + 1) /\ d[i + 1] = z[i + 1] /\ i = (i + 1) - 1
      BY <1>1
    <3>2. CASE i = 0
      BY <1>4, <2>2, <3>1, <3>2
    <3>3. CASE i # 0
      <4>1. f[i] = g[i] /\ i + 1 # 1
        BY <1>1, <2>4, <3>3
      <4>2. f[i + 1] = f[i] \o d[i + 1]
        <5>1. i + 1 \in 2..(n + 1)
          BY <3>1, <4>1
        <5>2. QED
          BY <1>4, <3>1, <5>1, Zenon
      <4>3. g[i + 1] = g[i] \o z[i + 1]
        <5>1. i + 1 \in 2..n
          BY <4>1
        <5>2. QED
          BY <2>2, <3>1, <5>1, Zenon
      <4>4. QED
        BY <3>1, <4>1, <4>2, <4>3
    <3>4. QED
      BY <3>2, <3>3
  <2>5. f[n] = g[n]
    <3>1. Nat \subseteq T
      <4> HIDE DEF T
      <4> QED
        BY <2>3, <2>4, Induction
    <3>2. QED
      BY <1>1, <1>6, <3>1
  <2>6. n + 1 \in 1..(n + 1) /\ n + 1 # 1 /\ n = (n + 1) - 1
    BY <1>1, <1>6
  <2>7. f[n + 1] = f[n] \o d[n + 1]
    <3>1. n + 1 \in 2..(n + 1)
      BY <1>1, <1>6
    <3>2. QED
      BY <1>4, <2>6, <3>1, Zenon
  <2>8. QED
    BY <1>1, <1>2, <1>3, <1>6, <2>1, <2>5, <2>7 DEF d
<1>7. QED
  BY <1>5, <1>6

LEMMA FlattenEmpty == FlattenSeq(<<>>) = <<>>
BY DEF FlattenSeq

LEMMA Cut ==
  ASSUME NEW S, NEW s \in Seq(S), NEW a \in Nat, NEW b \in Nat, a <= b, b <= Len(s)
  PROVE  /\ SubSeq(s, a + 1, b) \in Seq(S)
         /\ Len(SubSeq(s, a + 1, b)) = b - a
         /\ \A i \in 1..(b - a) : SubSeq(s, a + 1, b)[i] = s[a + i]
<1>1. Len(s) \in Nat /\ \A i \in (a + 1)..b : s[i] \in S
  BY LenProperties, ElementOfSeq
<1>2. /\ SubSeq(s, a + 1, b) \in Seq(S)
      /\ Len(SubSeq(s, a + 1, b)) = IF a + 1 <= b THEN b - (a + 1) + 1 ELSE 0
      /\ \A i \in 1..(b - (a + 1) + 1) : SubSeq(s, a + 1, b)[i] = s[(a + 1) + i - 1]
  BY <1>1, SubSeqProperties
<1>3. b - (a + 1) + 1 = b - a /\ (~(a + 1 <= b) => b - a = 0)
  OBVIOUS
<1>4. \A i \in 1..(b - a) : (a + 1) + i - 1 = a + i
  OBVIOUS
<1>5. QED
  BY <1>2, <1>3, <1>4

LEMMA CutFront ==
  ASSUME NEW S, NEW s \in Seq(S), NEW b \in Nat, b <= Len(s)
  PROVE  /\ SubSeq(s, 1, b) \in Seq(S)
         /\ Len(SubSeq(s, 1, b)) = b
         /\ \A i \in 1..b : SubSeq(s, 1, b)[i] = s[i]
<1>1. Len(s) \in Nat /\ \A i \in 1..b : s[i] \in S
  BY LenProperties, ElementOfSeq
<1>2. /\ SubSeq(s, 1, b) \in Seq(S)
      /\ Len(SubSeq(s, 1, b)) = IF 1 <= b THEN b - 1 + 1 ELSE 0
      /\ \A i \in 1..(b - 1 + 1) : SubSeq(s, 1, b)[i] = s[1 + i - 1]
  BY <1>1, SubSeqProperties
<1>3. b - 1 + 1 = b /\ (~(1 <= b) => b = 0) /\ \A i \in 1..b : 1 + i - 1 = i
  OBVIOUS
<1>4. QED
  BY <1>2, <1>3

LEMMA CutJoin ==
  ASSUME NEW S, NEW s \in Seq(S), NEW a \in Nat, NEW b \in Nat, NEW z \in Nat,
         a <= b, b <= z, z <= Len(s)
  PROVE  SubSeq(s, a + 1, b) \o SubSeq(s, b + 1, z) = SubSeq(s, a + 1, z)
<1>1. Len(s) \in Nat
  BY LenProperties
<1>2. a + 1 \in 1..(Len(s) + 1) /\ b \in ((a + 1) - 1)..Len(s) /\ z \in b..Len(s)
  BY <1>1
<1>3. QED
  BY <1>2, ConcatAdjacentSubSeq

\* A cut of a cut.
Inner(s, a, z, i, j) == SubSeq(SubSeq(s, a + 1, z), i + 1, j) = SubSeq(s, a + i + 1, a + j)

LEMMA CutCut ==
  ASSUME NEW S, NEW s \in Seq(S), NEW a \in Nat, NEW z \in Nat, NEW i \in Nat, NEW j \in Nat,
         a <= z, z <= Len(s), i <= j, j <= z - a
  PROVE  Inner(s, a, z, i, j)
<1> DEFINE t == SubSeq(s, a + 1, z)
<1>0. Len(s) \in Nat
  BY LenProperties
<1>1. t \in Seq(S) /\ Len(t) = z - a /\ \A n \in 1..(z - a) : t[n] = s[a + n]
  <2>1. a <= z /\ z <= Len(s)
    OBVIOUS
  <2>2. QED
    BY <2>1, Cut
<1>2. a + i \in Nat /\ a + j \in Nat /\ a + i <= a + j /\ a + j <= Len(s)
  BY <1>0
<1> DEFINE u == SubSeq(t, i + 1, j)
           v == SubSeq(s, (a + i) + 1, a + j)
<1>3. v \in Seq(S) /\ Len(v) = (a + j) - (a + i) /\ \A n \in 1..((a + j) - (a + i)) : v[n] = s[(a + i) + n]
  <2> DEFINE p == a + i
             q == a + j
  <2>1. p \in Nat /\ q \in Nat /\ p <= q /\ q <= Len(s)
    BY <1>2
  <2> HIDE DEF p, q
  <2>2. /\ SubSeq(s, p + 1, q) \in Seq(S) /\ Len(SubSeq(s, p + 1, q)) = q - p
        /\ \A n \in 1..(q - p) : SubSeq(s, p + 1, q)[n] = s[p + n]
    BY <2>1, Cut
  <2>3. QED
    BY <2>2 DEF p, q
<1> HIDE DEF t
<1>4. u \in Seq(S) /\ Len(u) = j - i /\ \A n \in 1..(j - i) : u[n] = t[i + n]
  BY <1>1, Cut
<1>5. (a + j) - (a + i) = j - i /\ \A n \in 1..(j - i) : i + n \in 1..(z - a) /\ a + (i + n) = (a + i) + n
  OBVIOUS
<1> HIDE DEF u, v
<1>6. Len(u) = Len(v) /\ \A n \in 1..Len(u) : u[n] = v[n]
  <2>1. Len(u) = j - i /\ Len(v) = j - i
    BY <1>3, <1>4, <1>5
  <2>2. ASSUME NEW n \in 1..(j - i) PROVE u[n] = v[n]
    <3>1. u[n] = t[i + n] /\ t[i + n] = s[a + (i + n)]
      BY <1>1, <1>4, <1>5
    <3>2. v[n] = s[(a + i) + n]
      BY <1>3, <1>5
    <3>3. QED
      BY <1>5, <3>1, <3>2
  <2>3. QED
    BY <2>1, <2>2
<1>7. u = v
  BY <1>3, <1>4, <1>6, SeqEqual
<1>8. QED
  BY <1>7 DEF u, v, t, Inner

\* What the concatenation of two sequences is, place by place.
Glued(S, r, p, q) ==
  /\ r \in Seq(S) /\ Len(r) = Len(p) + Len(q)
  /\ \A i \in 1..Len(p) : r[i] = p[i]
  /\ \A i \in 1..Len(q) : r[Len(p) + i] = q[i]

LEMMA Glue ==
  ASSUME NEW S, NEW p \in Seq(S), NEW q \in Seq(S)
  PROVE  Glued(S, p \o q, p, q)
<1> DEFINE r == p \o q
<1>1. /\ r \in Seq(S) /\ Len(r) = Len(p) + Len(q)
      /\ \A i \in 1..(Len(p) + Len(q)) : r[i] = IF i <= Len(p) THEN p[i] ELSE q[i - Len(p)]
  BY ConcatProperties
<1>2. Len(p) \in Nat /\ Len(q) \in Nat
  BY LenProperties
<1> HIDE DEF r
<1>3. \A i \in 1..Len(p) : r[i] = p[i]
  BY <1>1, <1>2
<1>4. ASSUME NEW i \in 1..Len(q) PROVE r[Len(p) + i] = q[i]
  <2>1. /\ Len(p) + i \in 1..(Len(p) + Len(q)) /\ ~(Len(p) + i <= Len(p))
        /\ (Len(p) + i) - Len(p) = i
    BY <1>2
  <2>2. QED
    BY <1>1, <2>1
<1>5. Glued(S, r, p, q)
  BY <1>1, <1>3, <1>4 DEF Glued
<1>6. QED
  BY <1>5 DEF r

LEMMA PrefixOfConcat ==
  ASSUME NEW S, NEW p \in Seq(S), NEW q \in Seq(S)
  PROVE  IsPrefix(p, p \o q)
<1>1. /\ p \o q \in Seq(S) /\ Len(p \o q) = Len(p) + Len(q)
      /\ \A i \in 1..(Len(p) + Len(q)) : (p \o q)[i] = IF i <= Len(p) THEN p[i] ELSE q[i - Len(p)]
  BY ConcatProperties
<1>2. Len(p) \in Nat /\ Len(q) \in Nat
  BY LenProperties
<1> DEFINE r == p \o q
<1> HIDE DEF r
<1>3. r \in Seq(S) /\ Len(p) <= Len(r)
  BY <1>1, <1>2 DEF r
<1>4. /\ SubSeq(r, 0 + 1, Len(p)) \in Seq(S) /\ Len(SubSeq(r, 0 + 1, Len(p))) = Len(p) - 0
      /\ \A i \in 1..(Len(p) - 0) : SubSeq(r, 0 + 1, Len(p))[i] = r[0 + i]
  BY <1>2, <1>3, Cut
<1> DEFINE u == SubSeq(r, 1, Len(p))
<1>5. u \in Seq(S) /\ Len(u) = Len(p) /\ \A i \in 1..Len(p) : u[i] = r[i]
  BY <1>2, <1>4
<1> HIDE DEF u
<1>6. \A i \in 1..Len(p) : r[i] = p[i]
  BY <1>1, <1>2 DEF r
<1>7. u = p
  BY <1>5, <1>6, SeqEqual
<1>8. SubSeq(p, 1, Len(p)) = p
  BY SubSeqFull
<1>9. QED
  BY <1>3, <1>7, <1>8 DEF u, r, IsPrefix

Assoc(p, q, r) == (p \o q) \o r = p \o (q \o r)

LEMMA ConcatTwice ==
  ASSUME NEW S, NEW p \in Seq(S), NEW q \in Seq(S), NEW r \in Seq(S)
  PROVE  Assoc(p, q, r)
BY SMTT(30) DEF Assoc

LEMMA LayersStart == ASSUME NEW s PROVE Layers(s, 0) = <<>>
<1>1. SubSeq(s, 1, 0) = <<>>
  BY SubSeqEmpty
<1>2. QED
  BY <1>1, FlattenEmpty DEF Layers

LEMMA LayersNext ==
  ASSUME NEW S, NEW s \in Seq(Seq(S)), NEW k \in Nat, k < Len(s), Layers(s, k) \in Seq(S)
  PROVE  /\ Layers(s, k + 1) = Layers(s, k) \o s[k + 1]
         /\ Layers(s, k + 1) \in Seq(S)
<1>1. Len(s) \in Nat /\ k + 1 \in 1..Len(s) /\ s[k + 1] \in Seq(S)
  BY LenProperties, ElementOfSeq
<1> DEFINE z == SubSeq(s, 1, k)
           d == SubSeq(s, 1, k + 1)
<1>2. z \in Seq(Seq(S)) /\ Len(z) = k /\ \A i \in 1..k : z[i] = s[i]
  <2>1. /\ SubSeq(s, 0 + 1, k) \in Seq(Seq(S)) /\ Len(SubSeq(s, 0 + 1, k)) = k - 0
        /\ \A i \in 1..(k - 0) : SubSeq(s, 0 + 1, k)[i] = s[0 + i]
    BY <1>1, Cut
  <2>2. QED
    BY <2>1
<1>3. d \in Seq(Seq(S)) /\ Len(d) = k + 1 /\ \A i \in 1..(k + 1) : d[i] = s[i]
  <2>1. /\ SubSeq(s, 0 + 1, k + 1) \in Seq(Seq(S)) /\ Len(SubSeq(s, 0 + 1, k + 1)) = (k + 1) - 0
        /\ \A i \in 1..((k + 1) - 0) : SubSeq(s, 0 + 1, k + 1)[i] = s[0 + i]
    BY <1>1, Cut
  <2>2. QED
    BY <2>1
<1> HIDE DEF z, d
<1>4. d = Append(z, s[k + 1])
  <2> DEFINE a == Append(z, s[k + 1])
  <2>1. /\ a \in Seq(Seq(S)) /\ Len(a) = Len(z) + 1 /\ a[Len(z) + 1] = s[k + 1]
        /\ \A i \in 1..Len(z) : a[i] = z[i]
    BY <1>1, <1>2, AppendProperties
  <2> HIDE DEF a
  <2>2. \A i \in 1..(k + 1) : i \in 1..k \/ i = k + 1
    OBVIOUS
  <2>3. \A i \in 1..(k + 1) : d[i] = a[i]
    BY <1>2, <1>3, <2>1, <2>2
  <2>4. Len(d) = Len(a)
    BY <1>2, <1>3, <2>1
  <2>5. \A i \in 1..Len(d) : d[i] = a[i]
    BY <1>3, <2>3
  <2>6. d = a
    BY <1>3, <2>1, <2>4, <2>5, SeqEqual
  <2>7. QED
    BY <2>6 DEF a
<1>5. FlattenSeq(d) = IF z = <<>> THEN s[k + 1] ELSE FlattenSeq(z) \o s[k + 1]
  BY <1>1, <1>2, <1>4, FlattenAppend
<1>6. <<>> \o s[k + 1] = s[k + 1]
  BY <1>1, ConcatEmptySeq
<1>7. FlattenSeq(d) = FlattenSeq(z) \o s[k + 1]
  BY <1>5, <1>6, FlattenEmpty
<1>8. Layers(s, k) \o s[k + 1] \in Seq(S)
  BY <1>1, ConcatProperties
<1>9. QED
  BY <1>7, <1>8 DEF Layers, z, d

LEMMA LayersTyped ==
  ASSUME NEW S, NEW s \in Seq(Seq(S)), NEW k \in Nat, k <= Len(s)
  PROVE  Layers(s, k) \in Seq(S)
<1> DEFINE T == {j \in Nat : j <= Len(s) => Layers(s, j) \in Seq(S)}
<1>0. Len(s) \in Nat
  BY LenProperties
<1>1. 0 \in T
  <2>1. <<>> \in Seq(S)
    BY EmptySeq
  <2>2. QED
    BY <2>1, LayersStart
<1>2. ASSUME NEW j \in Nat, j \in T PROVE j + 1 \in T
  <2> SUFFICES ASSUME j + 1 <= Len(s) PROVE Layers(s, j + 1) \in Seq(S)
    OBVIOUS
  <2>1. j < Len(s) /\ j <= Len(s)
    BY <1>0
  <2>2. Layers(s, j) \in Seq(S)
    BY <1>2, <2>1
  <2>3. QED
    BY <2>1, <2>2, LayersNext
<1>3. Nat \subseteq T
  <2> HIDE DEF T
  <2> QED
    BY <1>1, <1>2, Induction
<1>4. QED
  BY <1>3

Extends(S, s, k, m) == \E q \in Seq(S) : Layers(s, m) = Layers(s, k) \o q

LEMMA LayersGrow ==
  ASSUME NEW S, NEW s \in Seq(Seq(S)), NEW k \in Nat, NEW m \in Nat, k <= m, m <= Len(s)
  PROVE  Extends(S, s, k, m)
<1> DEFINE T == {j \in Nat : k <= j /\ j <= Len(s) => Extends(S, s, k, j)}
<1>0. Len(s) \in Nat /\ Layers(s, k) \in Seq(S)
  BY LenProperties, LayersTyped
<1>1. k \in T
  <2>1. <<>> \in Seq(S) /\ Layers(s, k) \o <<>> = Layers(s, k)
    BY <1>0, EmptySeq, ConcatEmptySeq
  <2>2. Extends(S, s, k, k)
    BY <2>1, Zenon DEF Extends
  <2>3. QED
    BY <2>2
<1>2. 0 \in T
  <2>1. CASE k = 0
    BY <1>1, <2>1
  <2>2. CASE k # 0
    BY <2>2
  <2>3. QED
    BY <2>1, <2>2
<1>3. ASSUME NEW j \in Nat, j \in T PROVE j + 1 \in T
  <2> SUFFICES ASSUME k <= j + 1, j + 1 <= Len(s)
               PROVE  Extends(S, s, k, j + 1)
    OBVIOUS
  <2>1. CASE k = j + 1
    BY <1>1, <2>1
  <2>2. CASE k # j + 1
    <3>1. k <= j /\ j < Len(s) /\ j <= Len(s)
      BY <1>0, <2>2
    <3>2. PICK q \in Seq(S) : Layers(s, j) = Layers(s, k) \o q
      <4>1. Extends(S, s, k, j)
        BY <1>3, <3>1
      <4>2. QED
        BY <4>1 DEF Extends
    <3>3. Layers(s, j) \in Seq(S)
      BY <3>1, LayersTyped
    <3>4. Layers(s, j + 1) = Layers(s, j) \o s[j + 1]
      BY <3>1, <3>3, LayersNext
    <3>5. s[j + 1] \in Seq(S)
      BY <1>0, <2>2, ElementOfSeq
    <3>6. q \o s[j + 1] \in Seq(S)
      BY <3>2, <3>5, ConcatProperties
    <3>7. (Layers(s, k) \o q) \o s[j + 1] = Layers(s, k) \o (q \o s[j + 1])
      <4> DEFINE p == Layers(s, k)
                 r == s[j + 1]
      <4>1. p \in Seq(S) /\ q \in Seq(S) /\ r \in Seq(S)
        BY <1>0, <3>2, <3>5
      <4> HIDE DEF p, r
      <4>2. (p \o q) \o r = p \o (q \o r)
        <5>1. Assoc(p, q, r)
          BY <4>1, ConcatTwice
        <5>2. QED
          BY <5>1 DEF Assoc
      <4>3. QED
        BY <4>2 DEF p, r
    <3>8. Layers(s, j + 1) = Layers(s, k) \o (q \o s[j + 1])
      BY <3>2, <3>4, <3>7, Zenon
    <3>9. \E r \in Seq(S) : Layers(s, j + 1) = Layers(s, k) \o r
      <4> DEFINE r == q \o s[j + 1]
      <4>1. r \in Seq(S) /\ Layers(s, j + 1) = Layers(s, k) \o r
        BY <3>6, <3>8
      <4> HIDE DEF r
      <4>2. QED
        BY <4>1, Zenon
    <3>10. QED
      BY <3>9 DEF Extends
  <2>3. QED
    BY <2>1, <2>2
<1>4. Nat \subseteq T
  <2> HIDE DEF T
  <2> QED
    BY <1>2, <1>3, Induction
<1>5. QED
  BY <1>4

\* Sequences written out, joined.
LEMMA JoinedIs ==
  ASSUME NEW S, NEW p \in Seq(S), NEW q \in Seq(S), NEW r \in Seq(S), Len(r) = Len(p) + Len(q),
         \A i \in 1..Len(p) : r[i] = p[i], \A i \in 1..Len(q) : r[Len(p) + i] = q[i]
  PROVE  p \o q = r
<1>1. /\ p \o q \in Seq(S) /\ Len(p \o q) = Len(p) + Len(q)
      /\ \A i \in 1..(Len(p) + Len(q)) : (p \o q)[i] = IF i <= Len(p) THEN p[i] ELSE q[i - Len(p)]
  BY ConcatProperties
<1> DEFINE w == p \o q
           m == Len(p)
           n == Len(q)
<1>0. m \in Nat /\ n \in Nat
  BY LenProperties
<1>2. w \in Seq(S) /\ Len(w) = m + n /\ \A i \in 1..(m + n) : w[i] = IF i <= m THEN p[i] ELSE q[i - m]
  BY <1>1, Zenon
<1>21. Len(r) = m + n /\ \A i \in 1..m : r[i] = p[i]
  OBVIOUS
<1>22. \A i \in 1..n : r[m + i] = q[i]
  OBVIOUS
<1> HIDE DEF w, m, n
<1>3. ASSUME NEW i \in 1..(m + n) PROVE w[i] = r[i]
  <2>1. CASE i <= m
    <3>1. i \in 1..m
      BY <1>0, <2>1
    <3>2. QED
      BY <1>2, <1>21, <2>1, <3>1
  <2>2. CASE ~(i <= m)
    <3>1. i - m \in 1..n /\ m + (i - m) = i
      BY <1>0, <2>2
    <3>2. r[m + (i - m)] = q[i - m]
      BY <1>22, <3>1
    <3>3. QED
      BY <1>2, <2>2, <3>1, <3>2
  <2>3. QED
    BY <2>1, <2>2
<1>4. w = r
  BY <1>2, <1>21, <1>3, SeqEqual
<1>5. QED
  BY <1>4 DEF w
-----------------------------------------------------------------------------
(* Layers, and what Find and Skip find. *)

LEMMA LayersAll ==
  ASSUME NEW S, NEW s \in Seq(Seq(S))
  PROVE  Layers(s, Len(s)) = FlattenSeq(s) /\ FlattenSeq(s) \in Seq(S)
<1>1. SubSeq(s, 1, Len(s)) = s /\ Len(s) \in Nat
  BY SubSeqFull, LenProperties
<1>2. Layers(s, Len(s)) \in Seq(S)
  BY <1>1, LayersTyped
<1>3. QED
  BY <1>1, <1>2 DEF Layers

\* What the k-th of several sequences contributes when they are joined.
LEMMA LayerBytes ==
  ASSUME NEW S, NEW s \in Seq(Seq(S)), NEW k \in 1..Len(s)
  PROVE  /\ Len(Layers(s, k - 1)) \in Nat /\ Len(s[k]) \in Nat /\ Len(FlattenSeq(s)) \in Nat
         /\ Len(Layers(s, k)) = Len(Layers(s, k - 1)) + Len(s[k])
         /\ Len(Layers(s, k)) <= Len(FlattenSeq(s))
         /\ \A j \in 1..Len(s[k]) : FlattenSeq(s)[Len(Layers(s, k - 1)) + j] = s[k][j]
<1> DEFINE low == Layers(s, k - 1)
           mid == Layers(s, k)
           all == FlattenSeq(s)
<1>1. Len(s) \in Nat /\ k - 1 \in Nat /\ k - 1 < Len(s) /\ k - 1 <= Len(s) /\ (k - 1) + 1 = k /\ k \in Nat /\ k <= Len(s)
  BY LenProperties
<1>2. low \in Seq(S) /\ mid \in Seq(S) /\ all \in Seq(S) /\ s[k] \in Seq(S)
  BY <1>1, LayersTyped, LayersAll, ElementOfSeq
<1>3. mid = low \o s[k]
  BY <1>1, <1>2, LayersNext
<1>4. PICK q \in Seq(S) : all = mid \o q
  <2>1. Extends(S, s, k, Len(s))
    BY <1>1, LayersGrow
  <2>2. QED
    BY <2>1, LayersAll DEF Extends
<1> HIDE DEF low, mid, all
<1>5. Glued(S, mid, low, s[k])
  BY <1>2, <1>3, Glue
<1>6. Glued(S, all, mid, q)
  BY <1>2, <1>4, Glue
<1>7. /\ Len(low) \in Nat /\ Len(mid) \in Nat /\ Len(all) \in Nat /\ Len(q) \in Nat /\ Len(s[k]) \in Nat
  BY <1>2, <1>4, LenProperties
<1>8. Len(mid) = Len(low) + Len(s[k]) /\ Len(all) = Len(mid) + Len(q)
  BY <1>5, <1>6 DEF Glued
<1>9. ASSUME NEW j \in 1..Len(s[k]) PROVE all[Len(low) + j] = s[k][j]
  <2>1. Len(low) + j \in 1..Len(mid)
    BY <1>7, <1>8
  <2>2. mid[Len(low) + j] = s[k][j]
    BY <1>5 DEF Glued
  <2>3. all[Len(low) + j] = mid[Len(low) + j]
    BY <1>6, <2>1 DEF Glued
  <2>4. QED
    BY <2>2, <2>3
<1>10. Len(mid) <= Len(all)
  BY <1>7, <1>8
<1>11. QED
  BY <1>7, <1>8, <1>9, <1>10 DEF low, mid, all

\* Which of several joined sequences a place is in.
LEMMA LayerOf ==
  ASSUME NEW S, NEW s \in Seq(Seq(S)), NEW x \in Nat, x < Len(FlattenSeq(s))
  PROVE  \E k \in 1..Len(s) : Len(Layers(s, k - 1)) <= x /\ x < Len(Layers(s, k))
<1> DEFINE T == {k \in Nat : k <= Len(s) /\ x < Len(Layers(s, k))}
<1>1. Len(s) \in Nat /\ Layers(s, Len(s)) = FlattenSeq(s)
  BY LayersAll, LenProperties
<1>2. PICK k \in T : \A j \in T : k <= j
  <2>1. Len(s) \in T
    BY <1>1
  <2> HIDE DEF T
  <2>2. T \in SUBSET Nat
    BY DEF T
  <2>3. QED
    BY <2>1, <2>2, Smallest
<1>3. k # 0
  <2>1. Len(Layers(s, 0)) = 0
    BY LayersStart, EmptySeq
  <2>2. QED
    BY <1>2, <2>1
<1>4. k \in 1..Len(s) /\ k - 1 \in Nat /\ k - 1 <= Len(s) /\ x < Len(Layers(s, k))
  BY <1>1, <1>2, <1>3
<1>5. k - 1 \notin T
  <2>1. ~(k <= k - 1)
    BY <1>4
  <2> HIDE DEF T
  <2>2. QED
    BY <1>2, <2>1
<1>6. Len(Layers(s, k - 1)) <= x
  <2>1. Len(Layers(s, k - 1)) \in Nat
    BY <1>4, LayersTyped, LenProperties
  <2>2. ~(x < Len(Layers(s, k - 1)))
    BY <1>4, <1>5
  <2>3. QED
    BY <2>1, <2>2
<1>7. QED
  BY <1>4, <1>6

\* The lengths grow.
LEMMA LayersLonger ==
  ASSUME NEW S, NEW s \in Seq(Seq(S)), NEW k \in Nat, NEW m \in Nat, k <= m, m <= Len(s)
  PROVE  Len(Layers(s, k)) \in Nat /\ Len(Layers(s, m)) \in Nat /\ Len(Layers(s, k)) <= Len(Layers(s, m))
<1>1. k <= Len(s) /\ Len(s) \in Nat
  BY LenProperties
<1>2. Layers(s, k) \in Seq(S) /\ Layers(s, m) \in Seq(S)
  BY <1>1, LayersTyped
<1>3. PICK q \in Seq(S) : Layers(s, m) = Layers(s, k) \o q
  <2>1. Extends(S, s, k, m)
    BY LayersGrow
  <2>2. QED
    BY <2>1 DEF Extends
<1>4. Glued(S, Layers(s, m), Layers(s, k), q)
  BY <1>2, <1>3, Glue
<1>5. Len(Layers(s, m)) = Len(Layers(s, k)) + Len(q)
  BY <1>4 DEF Glued
<1>6. Len(Layers(s, k)) \in Nat /\ Len(Layers(s, m)) \in Nat /\ Len(q) \in Nat
  BY <1>2, <1>3, LenProperties
<1>7. QED
  BY <1>5, <1>6
-----------------------------------------------------------------------------
\* Looking for the first character that is, or is not, one of some.
Finds(f, n, s, chars) == f = [j \in 1..(n + 2) |-> IF j > n \/ s[j] \in chars THEN j ELSE f[j + 1]]
Skips(f, n, s, chars) == f = [j \in 1..(n + 2) |-> IF j > n \/ s[j] \notin chars THEN j ELSE f[j + 1]]

LEMMA FirstIn ==
  ASSUME NEW n \in Nat, NEW A, NEW i \in 1..(n + 2)
  PROVE  \E k \in i..(n + 2) : (k > n \/ k \in A) /\ \A j \in i..(k - 1) : ~(j > n \/ j \in A)
<1> DEFINE T == {k \in Nat : k \in i..(n + 2) /\ (k > n \/ k \in A)}
<1>1. n + 2 \in T
  OBVIOUS
<1>2. PICK k \in T : \A j \in T : k <= j
  <2>1. T \in SUBSET Nat
    OBVIOUS
  <2> HIDE DEF T
  <2>2. QED
    BY <1>1, <2>1, Smallest
<1>3. ASSUME NEW j \in i..(k - 1) PROVE ~(j > n \/ j \in A)
  <2>1. j \notin T
    <3>1. ~(k <= j)
      BY <1>2
    <3> HIDE DEF T
    <3>2. QED
      BY <1>2, <3>1
  <2>2. j \in Nat /\ j \in i..(n + 2)
    BY <1>2
  <2>3. QED
    BY <2>1, <2>2
<1>4. QED
  BY <1>2, <1>3

\* The place that is meant is unique, so a function that is defined by going
\* on from one place to the next gives it, and there is such a function.
First(n, A, i) == CHOOSE k \in i..(n + 2) : (k > n \/ k \in A) /\ \A j \in i..(k - 1) : ~(j > n \/ j \in A)

LEMMA FirstIs ==
  ASSUME NEW n \in Nat, NEW A, NEW i \in 1..(n + 2)
  PROVE  /\ First(n, A, i) \in i..(n + 2)
         /\ First(n, A, i) > n \/ First(n, A, i) \in A
         /\ \A j \in i..(First(n, A, i) - 1) : ~(j > n \/ j \in A)
         /\ \A k \in i..(n + 2) : (k > n \/ k \in A) /\ (\A j \in i..(k - 1) : ~(j > n \/ j \in A)) => k = First(n, A, i)
<1> DEFINE f == First(n, A, i)
<1>1. f \in i..(n + 2) /\ (f > n \/ f \in A) /\ \A j \in i..(f - 1) : ~(j > n \/ j \in A)
  BY FirstIn, Zenon DEF First
<1> HIDE DEF f
<1>2. ASSUME NEW k \in i..(n + 2), k > n \/ k \in A, \A j \in i..(k - 1) : ~(j > n \/ j \in A) PROVE k = f
  <2>1. CASE k < f
    <3>1. k \in i..(f - 1)
      BY <1>1, <2>1
    <3>2. QED
      BY <1>1, <1>2, <3>1
  <2>2. CASE f < k
    <3>1. f \in i..(k - 1)
      BY <1>1, <2>2
    <3>2. QED
      BY <1>1, <1>2, <3>1
  <2>3. QED
    BY <1>1, <2>1, <2>2
<1>3. QED
  BY <1>1, <1>2 DEF f

LEMMA FirstSteps ==
  ASSUME NEW n \in Nat, NEW A, NEW i \in 1..(n + 2)
  PROVE  First(n, A, i) = IF i > n \/ i \in A THEN i ELSE First(n, A, i + 1)
<1>1. CASE i > n \/ i \in A
  <2>1. i \in i..(n + 2) /\ \A j \in i..(i - 1) : ~(j > n \/ j \in A)
    OBVIOUS
  <2>2. i = First(n, A, i)
    BY <1>1, <2>1, FirstIs
  <2>3. QED
    BY <1>1, <2>2
<1>2. CASE ~(i > n \/ i \in A)
  <2> DEFINE k == First(n, A, i + 1)
  <2>1. i + 1 \in 1..(n + 2)
    BY <1>2
  <2>2. k \in (i + 1)..(n + 2) /\ (k > n \/ k \in A) /\ \A j \in (i + 1)..(k - 1) : ~(j > n \/ j \in A)
    BY <2>1, FirstIs
  <2> HIDE DEF k
  <2>3. k \in i..(n + 2)
    BY <2>2
  <2>4. ASSUME NEW j \in i..(k - 1) PROVE ~(j > n \/ j \in A)
    <3>1. j = i \/ j \in (i + 1)..(k - 1)
      BY <2>2
    <3>2. QED
      BY <1>2, <2>2, <3>1
  <2>5. k = First(n, A, i)
    BY <2>2, <2>3, <2>4, FirstIs
  <2>6. QED
    BY <1>2, <2>5 DEF k
<1>3. QED
  BY <1>1, <1>2

\* Going on from the end backwards, each such function gives that place.
LEMMA GoesOn ==
  ASSUME NEW n \in Nat, NEW A, NEW f,
         \A j \in 1..(n + 2) : f[j] = IF j > n \/ j \in A THEN j ELSE f[j + 1]
  PROVE  \A i \in 1..(n + 2) : f[i] = First(n, A, i)
<1> DEFINE T == {d \in Nat : \A i \in 1..(n + 2) : i = n + 2 - d => f[i] = First(n, A, i)}
<1>1. 0 \in T
  <2> SUFFICES ASSUME NEW i \in 1..(n + 2), i = n + 2 - 0 PROVE f[i] = First(n, A, i)
    OBVIOUS
  <2>1. i > n
    OBVIOUS
  <2>2. QED
    BY <2>1, FirstSteps
<1>2. ASSUME NEW d \in Nat, d \in T PROVE d + 1 \in T
  <2> SUFFICES ASSUME NEW i \in 1..(n + 2), i = n + 2 - (d + 1) PROVE f[i] = First(n, A, i)
    OBVIOUS
  <2>1. i + 1 \in 1..(n + 2) /\ i + 1 = n + 2 - d
    OBVIOUS
  <2>2. f[i + 1] = First(n, A, i + 1)
    BY <1>2, <2>1
  <2>3. f[i] = IF i > n \/ i \in A THEN i ELSE f[i + 1]
    OBVIOUS
  <2>4. First(n, A, i) = IF i > n \/ i \in A THEN i ELSE First(n, A, i + 1)
    BY FirstSteps
  <2>5. QED
    BY <2>2, <2>3, <2>4
<1>3. Nat \subseteq T
  <2> HIDE DEF T
  <2> QED
    BY <1>1, <1>2, Induction
<1>4. ASSUME NEW i \in 1..(n + 2) PROVE f[i] = First(n, A, i)
  <2>1. n + 2 - i \in Nat /\ i = n + 2 - (n + 2 - i)
    OBVIOUS
  <2>2. n + 2 - i \in T
    BY <1>3, <2>1
  <2>3. QED
    BY <2>1, <2>2
<1>5. QED
  BY <1>4

LEMMA FindFirst ==
  ASSUME NEW s, Len(s) \in Nat, NEW chars, NEW i \in 1..(Len(s) + 2)
  PROVE  Find(s, i, chars) = First(Len(s), {j \in 1..Len(s) : s[j] \in chars}, i)
<1> DEFINE n == Len(s)
           A == {j \in 1..n : s[j] \in chars}
           g == [j \in 1..(n + 2) |-> First(n, A, j)]
           f == CHOOSE f : Finds(f, n, s, chars)
<1> HIDE DEF n
<1>0. n \in Nat /\ \A j \in 1..(n + 2) : (j > n \/ s[j] \in chars) <=> (j > n \/ j \in A)
  BY DEF n
<1> HIDE DEF A
<1>1. Finds(g, n, s, chars)
  <2>1. ASSUME NEW j \in 1..(n + 2) PROVE g[j] = IF j > n \/ s[j] \in chars THEN j ELSE g[j + 1]
    <3>1. First(n, A, j) = IF j > n \/ j \in A THEN j ELSE First(n, A, j + 1)
      BY <1>0, FirstSteps
    <3>2. j <= n => j + 1 \in 1..(n + 2)
      BY <1>0
    <3>3. QED
      BY <1>0, <3>1, <3>2
  <2>2. g = [j \in 1..(n + 2) |-> g[j]]
    OBVIOUS
  <2> HIDE DEF g
  <2>3. QED
    BY <2>1, <2>2 DEF Finds
<1>2. Finds(f, n, s, chars)
  BY <1>1, Zenon
<1>3. Find(s, i, chars) = f[i]
  BY DEF Find, Finds, n
<1> HIDE DEF f, g
<1>4. \A j \in 1..(n + 2) : f[j] = IF j > n \/ j \in A THEN j ELSE f[j + 1]
  BY <1>0, <1>2 DEF Finds
<1>5. f[i] = First(n, A, i)
  <2>0. n \in Nat
    BY <1>0
  <2>1. \A j \in 1..(n + 2) : f[j] = First(n, A, j)
    BY <2>0, <1>4, GoesOn
  <2>2. QED
    BY <2>1 DEF n
<1>6. QED
  BY <1>3, <1>5 DEF n, A

LEMMA SkipFirst ==
  ASSUME NEW s, Len(s) \in Nat, NEW chars, NEW i \in 1..(Len(s) + 2)
  PROVE  Skip(s, i, chars) = First(Len(s), {j \in 1..Len(s) : s[j] \notin chars}, i)
<1> DEFINE n == Len(s)
           A == {j \in 1..n : s[j] \notin chars}
           g == [j \in 1..(n + 2) |-> First(n, A, j)]
           f == CHOOSE f : Skips(f, n, s, chars)
<1> HIDE DEF n
<1>0. n \in Nat /\ \A j \in 1..(n + 2) : (j > n \/ s[j] \notin chars) <=> (j > n \/ j \in A)
  BY DEF n
<1> HIDE DEF A
<1>1. Skips(g, n, s, chars)
  <2>1. ASSUME NEW j \in 1..(n + 2) PROVE g[j] = IF j > n \/ s[j] \notin chars THEN j ELSE g[j + 1]
    <3>1. First(n, A, j) = IF j > n \/ j \in A THEN j ELSE First(n, A, j + 1)
      BY <1>0, FirstSteps
    <3>2. j <= n => j + 1 \in 1..(n + 2)
      BY <1>0
    <3>3. QED
      BY <1>0, <3>1, <3>2
  <2>2. g = [j \in 1..(n + 2) |-> g[j]]
    OBVIOUS
  <2> HIDE DEF g
  <2>3. QED
    BY <2>1, <2>2 DEF Skips
<1>2. Skips(f, n, s, chars)
  BY <1>1, Zenon
<1>3. Skip(s, i, chars) = f[i]
  BY DEF Skip, Skips, n
<1> HIDE DEF f, g
<1>4. \A j \in 1..(n + 2) : f[j] = IF j > n \/ j \in A THEN j ELSE f[j + 1]
  BY <1>0, <1>2 DEF Skips
<1>5. f[i] = First(n, A, i)
  <2>0. n \in Nat
    BY <1>0
  <2>1. \A j \in 1..(n + 2) : f[j] = First(n, A, j)
    BY <2>0, <1>4, GoesOn
  <2>2. QED
    BY <2>1 DEF n
<1>6. QED
  BY <1>3, <1>5 DEF n, A

\* How to know the place, and what is known of it.
LEMMA FindIs ==
  ASSUME NEW s, Len(s) \in Nat, NEW chars, NEW i \in 1..(Len(s) + 1), NEW k \in i..(Len(s) + 1),
         k <= Len(s) => s[k] \in chars,
         \A j \in i..(k - 1) : s[j] \notin chars
  PROVE  Find(s, i, chars) = k
<1> DEFINE n == Len(s)
           A == {j \in 1..n : s[j] \in chars}
<1>1. n \in Nat /\ i \in 1..(n + 1) /\ k \in i..(n + 1) /\ i \in 1..(n + 2) /\ k \in i..(n + 2)
  OBVIOUS
<1>2. k > n \/ k \in A
  OBVIOUS
<1>3. \A j \in i..(k - 1) : ~(j > n \/ j \in A)
  OBVIOUS
<1>4. Find(s, i, chars) = First(n, A, i)
  BY <1>1, FindFirst
<1> HIDE DEF n, A
<1>5. k = First(n, A, i)
  BY <1>1, <1>2, <1>3, FirstIs
<1>6. QED
  BY <1>4, <1>5

LEMMA SkipIs ==
  ASSUME NEW s, Len(s) \in Nat, NEW chars, NEW i \in 1..(Len(s) + 1), NEW k \in i..(Len(s) + 1),
         k <= Len(s) => s[k] \notin chars,
         \A j \in i..(k - 1) : s[j] \in chars
  PROVE  Skip(s, i, chars) = k
<1> DEFINE n == Len(s)
           A == {j \in 1..n : s[j] \notin chars}
<1>1. n \in Nat /\ i \in 1..(n + 1) /\ k \in i..(n + 1) /\ i \in 1..(n + 2) /\ k \in i..(n + 2)
  OBVIOUS
<1>2. k > n \/ k \in A
  OBVIOUS
<1>3. \A j \in i..(k - 1) : ~(j > n \/ j \in A)
  OBVIOUS
<1>4. Skip(s, i, chars) = First(n, A, i)
  BY <1>1, SkipFirst
<1> HIDE DEF n, A
<1>5. k = First(n, A, i)
  BY <1>1, <1>2, <1>3, FirstIs
<1>6. QED
  BY <1>4, <1>5

LEMMA Found ==
  ASSUME NEW s, Len(s) \in Nat, NEW chars, NEW i \in 1..(Len(s) + 1)
  PROVE  /\ Find(s, i, chars) \in i..(Len(s) + 1)
         /\ Find(s, i, chars) <= Len(s) => s[Find(s, i, chars)] \in chars
         /\ \A j \in i..(Find(s, i, chars) - 1) : s[j] \notin chars
<1> DEFINE n == Len(s)
           A == {j \in 1..n : s[j] \in chars}
           k == Find(s, i, chars)
<1>1. n \in Nat /\ i \in 1..(n + 1) /\ i \in 1..(n + 2)
  OBVIOUS
<1>2. k = First(n, A, i)
  BY <1>1, FindFirst
<1>3. \A j : j \in A <=> j \in 1..n /\ s[j] \in chars
  OBVIOUS
<1> HIDE DEF n, A, k
<1>4. k \in i..(n + 2) /\ (k > n \/ k \in A) /\ \A j \in i..(k - 1) : ~(j > n \/ j \in A)
  BY <1>1, <1>2, FirstIs
<1>5. k # n + 2
  <2>1. k = n + 2 => n + 1 \in i..(k - 1) /\ n + 1 > n
    BY <1>1
  <2>2. QED
    BY <1>4, <2>1
<1>6. k \in i..(n + 1)
  BY <1>1, <1>4, <1>5
<1>7. k <= n => s[k] \in chars
  BY <1>1, <1>3, <1>4
<1>8. ASSUME NEW j \in i..(k - 1) PROVE s[j] \notin chars
  <2>1. ~(j > n) /\ j \notin A
    BY <1>4
  <2>2. j \in 1..n
    BY <1>1, <1>4, <2>1
  <2>3. QED
    BY <1>3, <2>1, <2>2
<1>9. QED
  BY <1>6, <1>7, <1>8 DEF n, k

\* Behind the second place behind the end Skip stays where it is.
LEMMA Skipped ==
  ASSUME NEW s, Len(s) \in Nat, NEW chars, NEW i \in 1..(Len(s) + 2)
  PROVE  /\ Skip(s, i, chars) \in i..(Len(s) + 2)
         /\ i <= Len(s) + 1 => Skip(s, i, chars) <= Len(s) + 1
         /\ Skip(s, i, chars) <= Len(s) => s[Skip(s, i, chars)] \notin chars
         /\ \A j \in i..(Skip(s, i, chars) - 1) : j <= Len(s) /\ s[j] \in chars
<1> DEFINE n == Len(s)
           A == {j \in 1..n : s[j] \notin chars}
           k == Skip(s, i, chars)
<1>1. n \in Nat /\ i \in 1..(n + 2)
  OBVIOUS
<1>2. k = First(n, A, i)
  BY <1>1, SkipFirst
<1>3. \A j : j \in A <=> j \in 1..n /\ s[j] \notin chars
  OBVIOUS
<1> HIDE DEF n, A, k
<1>4. k \in i..(n + 2) /\ (k > n \/ k \in A) /\ \A j \in i..(k - 1) : ~(j > n \/ j \in A)
  BY <1>1, <1>2, FirstIs
<1>5. i <= n + 1 => k <= n + 1
  <2>1. k = n + 2 /\ i <= n + 1 => n + 1 \in i..(k - 1) /\ n + 1 > n
    BY <1>1
  <2>2. QED
    BY <1>1, <1>4, <2>1
<1>7. k <= n => s[k] \notin chars
  BY <1>1, <1>3, <1>4
<1>8. ASSUME NEW j \in i..(k - 1) PROVE j <= n /\ s[j] \in chars
  <2>1. ~(j > n) /\ j \notin A
    BY <1>4
  <2>2. j \in 1..n
    BY <1>1, <1>4, <2>1
  <2>3. QED
    BY <1>3, <2>1, <2>2
<1>9. QED
  BY <1>4, <1>5, <1>7, <1>8 DEF n, k
-----------------------------------------------------------------------------
(* What trimming does. *)

\* What TrimEnd leaves.
LEMMA TrimIs ==
  ASSUME NEW S, NEW s \in Seq(S), NEW e \in 0..Len(s),
         e > 0 => s[e] \notin Space, \A j \in (e + 1)..Len(s) : s[j] \in Space
  PROVE  TrimEnd(s) = SubSeq(s, 1, e)
<1> DEFINE n == Len(s)
           r == Reverse(s)
<1>1. n \in Nat /\ e \in 0..n
  BY LenProperties
<1>2. r = [i \in 1..n |-> s[(n - i) + 1]]
  BY DEF Reverse
<1>3. Len(r) = n
  <2>1. \A i \in 1..n : (n - i) + 1 \in 1..n
    BY <1>1
  <2>2. \A i \in 1..n : s[i] \in S
    BY ElementOfSeq
  <2> HIDE DEF n
  <2>3. r \in [1..n -> S]
    BY <1>2, <2>1, <2>2
  <2> HIDE DEF r
  <2>4. QED
    BY <1>1, <2>3
<1>4. Skip(r, 1, Space) = (n + 1) - e
  <2> DEFINE k == (n + 1) - e
  <2>1. k \in 1..(n + 1)
    BY <1>1
  <2>2. k <= n => r[k] \notin Space
    <3>1. k <= n => k \in 1..n /\ (n - k) + 1 = e /\ e > 0
      BY <1>1
    <3> HIDE DEF n, r, k
    <3>2. QED
      BY <1>2, <3>1
  <2>3. ASSUME NEW j \in 1..(k - 1) PROVE r[j] \in Space
    <3>1. j \in 1..n /\ (n - j) + 1 \in (e + 1)..n
      BY <1>1
    <3>2. r[j] = s[(n - j) + 1]
      BY <1>2, <3>1
    <3>3. \A i \in (e + 1)..n : s[i] \in Space
      OBVIOUS
    <3> HIDE DEF n, r, k
    <3>4. QED
      BY <3>1, <3>2, <3>3
  <2> HIDE DEF n, r, k
  <2>4. Len(r) \in Nat /\ 1 \in 1..(Len(r) + 1) /\ k \in 1..(Len(r) + 1)
    BY <1>1, <1>3, <2>1
  <2>5. k <= Len(r) => r[k] \notin Space
    BY <1>3, <2>2
  <2>6. Skip(r, 1, Space) = k
    BY <2>3, <2>4, <2>5, SkipIs
  <2>7. QED
    BY <2>6 DEF k
<1>5. (n + 1) - ((n + 1) - e) = e
  BY <1>1
<1>6. QED
  BY <1>4, <1>5 DEF TrimEnd

TrimmedAt(s, e) == /\ e \in 0..Len(s) /\ (e > 0 => s[e] \notin Space)
                   /\ \A j \in (e + 1)..Len(s) : s[j] \in Space

LEMMA Trimmed ==
  ASSUME NEW S, NEW s \in Seq(S)
  PROVE  \E e : TrimmedAt(s, e)
<1> DEFINE n == Len(s)
           T == {d \in Nat : d <= n /\ \A j \in (d + 1)..n : s[j] \in Space}
<1>1. n \in Nat
  BY LenProperties
<1>2. PICK e \in T : \A d \in T : e <= d
  <2>1. n \in T
    BY <1>1
  <2> HIDE DEF T
  <2>2. T \in SUBSET Nat
    BY DEF T
  <2>3. QED
    BY <2>1, <2>2, Smallest
<1>3. e > 0 => s[e] \notin Space
  <2> SUFFICES ASSUME e > 0, s[e] \in Space PROVE FALSE
    OBVIOUS
  <2>1. e - 1 \in Nat /\ e - 1 <= n /\ ~(e <= e - 1)
    BY <1>1, <1>2
  <2>2. ASSUME NEW j \in ((e - 1) + 1)..n PROVE s[j] \in Space
    <3>1. j = e \/ j \in (e + 1)..n
      BY <1>1, <1>2
    <3>2. QED
      BY <1>2, <3>1
  <2>3. e - 1 \in T
    BY <2>1, <2>2
  <2> HIDE DEF T
  <2>4. QED
    BY <1>2, <2>1, <2>3
<1>4. e \in 0..n /\ \A j \in (e + 1)..n : s[j] \in Space
  BY <1>1, <1>2
<1>5. TrimmedAt(s, e)
  BY <1>3, <1>4 DEF TrimmedAt
<1>6. QED
  BY <1>5

LEMMA TrimTyped ==
  ASSUME NEW S, NEW s \in Seq(S)
  PROVE  TrimEnd(s) \in Seq(S)
<1>1. PICK e : TrimmedAt(s, e)
  BY Trimmed
<1>2. TrimEnd(s) = SubSeq(s, 1, e) /\ e \in Nat /\ e <= Len(s)
  BY <1>1, TrimIs, LenProperties DEF TrimmedAt
<1>3. QED
  BY <1>2, CutFront

\* The line feed at the end of a line does not matter.
LEMMA TrimLine ==
  ASSUME NEW S, NEW s \in Seq(S), "LF" \in S
  PROVE  TrimEnd(Append(s, "LF")) = TrimEnd(s)
<1> DEFINE t == Append(s, "LF")
           n == Len(s)
<1>1. PICK e : TrimmedAt(s, e)
  BY Trimmed
<1>2. n \in Nat /\ e \in 0..n
  BY <1>1, LenProperties DEF TrimmedAt
<1>3. t \in Seq(S) /\ Len(t) = n + 1 /\ t[n + 1] = "LF" /\ \A j \in 1..n : t[j] = s[j]
  BY AppendProperties
<1>4. TrimEnd(s) = SubSeq(s, 1, e)
  BY <1>1, TrimIs DEF TrimmedAt
<1>5. TrimEnd(t) = SubSeq(t, 1, e)
  <2>1. e > 0 => t[e] \notin Space
    <3>1. e > 0 => e \in 1..n
      BY <1>2
    <3>2. e > 0 => s[e] \notin Space
      BY <1>1 DEF TrimmedAt
    <3> HIDE DEF t, n
    <3>3. QED
      BY <1>3, <3>1, <3>2
  <2>2. ASSUME NEW j \in (e + 1)..Len(t) PROVE t[j] \in Space
    <3>1. j = n + 1 \/ (j \in (e + 1)..n /\ j \in 1..n)
      <4>1. Len(t) = n + 1 /\ n \in Nat /\ e \in 0..n
        BY <1>2, <1>3
      <4> HIDE DEF t, n
      <4>2. j \in (e + 1)..(n + 1)
        BY <4>1
      <4>3. QED
        BY <4>1, <4>2
    <3>2. j \in (e + 1)..n => s[j] \in Space
      BY <1>1 DEF TrimmedAt
    <3>3. "LF" \in Space
      BY DEF Space
    <3> HIDE DEF t, n
    <3>4. QED
      BY <1>3, <3>1, <3>2, <3>3
  <2>3. e \in 0..Len(t)
    BY <1>2, <1>3
  <2> HIDE DEF t, n
  <2>4. QED
    BY <1>3, <2>1, <2>2, <2>3, TrimIs
<1>6. SubSeq(t, 1, e) = SubSeq(s, 1, e)
  <2> DEFINE u == SubSeq(t, 1, e)
             v == SubSeq(s, 1, e)
  <2>1. e \in Nat /\ e <= n /\ e <= Len(t) /\ \A j \in 1..e : j \in 1..n
    BY <1>2, <1>3
  <2>2. u \in Seq(S) /\ Len(u) = e /\ \A j \in 1..e : u[j] = t[j]
    BY <1>3, <2>1, CutFront
  <2>3. v \in Seq(S) /\ Len(v) = e /\ \A j \in 1..e : v[j] = s[j]
    BY <2>1, CutFront
  <2> HIDE DEF t, n, u, v
  <2>4. \A j \in 1..e : u[j] = v[j]
    BY <1>3, <2>1, <2>2, <2>3
  <2>5. u = v
    BY <2>2, <2>3, <2>4, SeqEqual
  <2>6. QED
    BY <2>5 DEF u, v
<1>7. QED
  BY <1>4, <1>5, <1>6

\* A key without spaces stays what it is.
LEMMA TrimKey ==
  ASSUME NEW x, x \notin Space
  PROVE  TrimEnd(TrimStart(<<x>>)) = <<x>>
<1> DEFINE s == <<x>>
<1>1. s \in Seq({x}) /\ Len(s) = 1 /\ s[1] = x
  OBVIOUS
<1> HIDE DEF s
<1>2. Skip(s, 1, Space) = 1
  <2>1. Len(s) \in Nat /\ 1 \in 1..(Len(s) + 1) /\ s[1] \notin Space /\ \A j \in 1..(1 - 1) : s[j] \in Space
    BY <1>1
  <2>2. QED
    BY <2>1, SkipIs
<1>3. TrimStart(s) = SubSeq(s, 1, 1) /\ SubSeq(s, 1, Len(s)) = s
  BY <1>1, <1>2, SubSeqFull DEF TrimStart
<1>4. TrimEnd(s) = SubSeq(s, 1, 1)
  <2>1. 1 \in 0..Len(s) /\ s[1] \notin Space /\ \A j \in (1 + 1)..Len(s) : s[j] \in Space
    BY <1>1
  <2>2. QED
    BY <1>1, <2>1, TrimIs
<1>5. QED
  BY <1>1, <1>3, <1>4 DEF s
-----------------------------------------------------------------------------
(* What urldecode does, one step at a time. *)

\* The first sequences and the beginning of the next one.
LEMMA LayerCut ==
  ASSUME NEW S, NEW s \in Seq(Seq(S)), NEW k \in 1..Len(s), NEW y \in 0..Len(s[k])
  PROVE  SubSeq(FlattenSeq(s), 1, Len(Layers(s, k - 1)) + y) = Layers(s, k - 1) \o SubSeq(s[k], 1, y)
<1> DEFINE low == Layers(s, k - 1)
           mid == Layers(s, k)
           all == FlattenSeq(s)
           t == SubSeq(s[k], 1, y)
           a == Len(low)
           r == SubSeq(all, 1, a + y)
<1>1. /\ Len(s) \in Nat /\ k - 1 \in Nat /\ k - 1 <= Len(s) /\ k \in Nat /\ k <= Len(s) /\ s[k] \in Seq(S)
      /\ k - 1 <= k
  BY LenProperties, ElementOfSeq
<1>2. low \in Seq(S) /\ all \in Seq(S) /\ Len(s[k]) \in Nat
  BY <1>1, LayersTyped, LayersAll, LenProperties
<1>3. PICK q \in Seq(S) : all = low \o q
  <2>1. Extends(S, s, k - 1, Len(s))
    BY <1>1, LayersGrow
  <2>2. QED
    BY <2>1, LayersAll DEF Extends
<1>4. Glued(S, all, low, q)
  BY <1>2, <1>3, Glue
<1>5. /\ a \in Nat /\ Len(all) \in Nat /\ Len(mid) = a + Len(s[k]) /\ Len(mid) <= Len(all)
      /\ \A j \in 1..Len(s[k]) : all[a + j] = s[k][j]
  BY LayerBytes
<1>6. y \in Nat /\ y <= Len(s[k]) /\ a + y \in Nat /\ a + y <= Len(all)
  <2> DEFINE l == Len(s[k])
             b == Len(mid)
             m == Len(all)
  <2>1. l \in Nat /\ y \in 0..l /\ a \in Nat /\ m \in Nat /\ b = a + l /\ b <= m
    BY <1>2, <1>5
  <2> HIDE DEF l, b, m, a
  <2>2. y \in Nat /\ y <= l /\ a + y \in Nat /\ a + y <= m
    BY <2>1
  <2>3. QED
    BY <2>2 DEF l, m
<1>7. t \in Seq(S) /\ Len(t) = y /\ \A j \in 1..y : t[j] = s[k][j]
  BY <1>1, <1>6, CutFront
<1> HIDE DEF low, mid, all, t
<1>8. r \in Seq(S) /\ Len(r) = a + y /\ \A j \in 1..(a + y) : r[j] = all[j]
  BY <1>2, <1>6, CutFront
<1> HIDE DEF a, r
<1>9. /\ Len(r) = Len(low) + Len(t) /\ \A j \in 1..Len(low) : r[j] = low[j]
  <2>1. Len(low) = a
    BY DEF a
  <2>2. \A j \in 1..a : all[j] = low[j]
    BY <1>4 DEF a, Glued
  <2>3. \A j \in 1..a : j \in 1..(a + y)
    BY <1>5, <1>6
  <2>4. QED
    BY <1>7, <1>8, <2>1, <2>2, <2>3
<1>10. ASSUME NEW j \in 1..Len(t) PROVE r[Len(low) + j] = t[j]
  <2>1. j \in 1..y /\ j \in 1..Len(s[k]) /\ a + j \in 1..(a + y)
    BY <1>2, <1>5, <1>6, <1>7
  <2>2. r[a + j] = all[a + j] /\ all[a + j] = s[k][j] /\ t[j] = s[k][j]
    BY <1>5, <1>7, <1>8, <2>1
  <2>3. QED
    BY <2>2 DEF a
<1>11. low \o t = r
  BY <1>2, <1>7, <1>8, <1>9, <1>10, JoinedIs
<1>12. QED
  BY <1>11 DEF low, t, r, a, all
-----------------------------------------------------------------------------
\* What urldecode makes of s from place i on, given what it makes of the rest.
Decoded(f, s, i) ==
  IF i > Len(s) THEN <<>>
  ELSE IF s[i] # "%" THEN <<s[i]>> \o f[i + 1]
  ELSE IF i + 2 <= Len(s) /\ {s[i + 1], s[i + 2]} \subseteq HexDigit
       THEN Code[<<s[i + 1], s[i + 2]>>] \o f[i + 3]
  ELSE f[i + 2]
Decodes(f, s) == f = [i \in 1..(Len(s) + 2) |-> Decoded(f, s, i)]

LEMMA DecodesExists == ASSUME NEW s, Len(s) \in Nat PROVE \E f : Decodes(f, s)
<1> DEFINE n == Len(s)
           Good(f, m) == \A i \in 1..(n + 2) : i >= m => f[i] = Decoded(f, s, i)
           T == {d \in Nat : d <= n + 1 => \E f : Good(f, (n + 2) - d)}
<1>1. 0 \in T
  <2> DEFINE f == [i \in 1..(n + 2) |-> <<>>]
  <2>1. ASSUME NEW i \in 1..(n + 2), i >= (n + 2) - 0 PROVE f[i] = Decoded(f, s, i)
    <3>1. i > n
      BY <2>1
    <3>2. Decoded(f, s, i) = <<>>
      BY <3>1 DEF Decoded
    <3>3. QED
      BY <3>2
  <2>2. Good(f, (n + 2) - 0)
    BY <2>1
  <2> HIDE DEF f, Good
  <2>3. QED
    BY <2>2
<1>2. ASSUME NEW d \in Nat, d \in T PROVE d + 1 \in T
  <2> SUFFICES ASSUME d + 1 <= n + 1 PROVE \E f : Good(f, (n + 2) - (d + 1))
    OBVIOUS
  <2>1. PICK f : Good(f, (n + 2) - d)
    BY <1>2
  <2> DEFINE m == (n + 2) - (d + 1)
             g == [i \in 1..(n + 2) |-> IF i = m THEN Decoded(f, s, m) ELSE f[i]]
  <2>2. m \in 1..(n + 2) /\ (n + 2) - d = m + 1 /\ n \in Nat
    OBVIOUS
  <2>3. ASSUME NEW i \in 1..(n + 2), i >= m PROVE g[i] = Decoded(g, s, i)
    <3>1. g[i] = Decoded(f, s, i)
      <4>1. CASE i = m
        BY <4>1
      <4>2. CASE i # m
        <5>1. i >= m + 1 /\ g[i] = f[i]
          BY <2>2, <2>3, <4>2
        <5>2. QED
          BY <2>1, <2>2, <5>1
      <4>3. QED
        BY <4>1, <4>2
    <3>2. \A j \in (i + 1)..(n + 2) : g[j] = f[j]
      <4>1. \A j \in (i + 1)..(n + 2) : j \in 1..(n + 2) /\ j # m
        BY <2>2, <2>3
      <4>2. QED
        BY <4>1
    <3> HIDE DEF g, m
    <3>3. i <= n => g[i + 1] = f[i + 1] /\ g[i + 2] = f[i + 2] /\ (i + 2 <= n => g[i + 3] = f[i + 3])
      <4>1. i <= n => i + 1 \in (i + 1)..(n + 2) /\ i + 2 \in (i + 1)..(n + 2)
                      /\ (i + 2 <= n => i + 3 \in (i + 1)..(n + 2))
        BY <2>2
      <4>2. QED
        BY <3>2, <4>1
    <3>4. Decoded(g, s, i) = Decoded(f, s, i)
      <4>1. CASE i > n
        BY <4>1 DEF Decoded
      <4>2. CASE ~(i > n)
        <5>1. i <= n
          BY <2>2, <4>2
        <5>2. CASE i + 2 <= n
          BY <3>3, <5>1, <5>2 DEF Decoded
        <5>3. CASE ~(i + 2 <= n)
          BY <3>3, <5>1, <5>3 DEF Decoded
        <5>4. QED
          BY <5>2, <5>3
      <4>3. QED
        BY <4>1, <4>2
    <3>5. QED
      BY <3>1, <3>4
  <2>4. Good(g, m)
    BY <2>3
  <2> HIDE DEF g, Good
  <2>5. QED
    BY <2>4
<1>3. Nat \subseteq T
  <2> HIDE DEF T
  <2> QED
    BY <1>1, <1>2, Induction
<1>4. PICK f : Good(f, 1)
  <2>1. n + 1 \in T /\ (n + 2) - (n + 1) = 1 /\ n + 1 <= n + 1
    BY <1>3
  <2> HIDE DEF Good
  <2>2. QED
    BY <2>1
<1> DEFINE g == [i \in 1..(n + 2) |-> f[i]]
<1>5. ASSUME NEW i \in 1..(n + 2) PROVE g[i] = Decoded(g, s, i)
  <2>1. g[i] = Decoded(f, s, i)
    BY <1>4
  <2>2. i <= n => g[i + 1] = f[i + 1] /\ g[i + 2] = f[i + 2] /\ (i + 2 <= n => g[i + 3] = f[i + 3])
    OBVIOUS
  <2> HIDE DEF g
  <2>3. Decoded(g, s, i) = Decoded(f, s, i)
    <3>1. CASE i > n
      BY <3>1 DEF Decoded
    <3>2. CASE i + 2 <= n
      BY <2>2, <3>2 DEF Decoded
    <3>3. CASE i <= n /\ ~(i + 2 <= n)
      BY <2>2, <3>3 DEF Decoded
    <3>4. QED
      BY <3>1, <3>2, <3>3
  <2>4. QED
    BY <2>1, <2>3
<1>6. g = [i \in 1..(n + 2) |-> g[i]]
  OBVIOUS
<1> HIDE DEF g
<1>7. Decodes(g, s)
  BY <1>5, <1>6 DEF Decodes
<1>8. QED
  BY <1>7

LEMMA UrlSteps ==
  ASSUME NEW s, Len(s) \in Nat
  PROVE  \E f : urldecode(s) = f[1] /\ \A i \in 1..(Len(s) + 2) : f[i] = Decoded(f, s, i)
<1> DEFINE f == CHOOSE g : Decodes(g, s)
<1>1. Decodes(f, s)
  BY DecodesExists, Zenon
<1>2. urldecode(s) = f[1]
  BY DEF urldecode, Decodes, Decoded
<1> HIDE DEF f
<1>3. \A i \in 1..(Len(s) + 2) : f[i] = Decoded(f, s, i)
  BY <1>1 DEF Decodes
<1>4. QED
  BY <1>2, <1>3
-----------------------------------------------------------------------------
(* What requests are made of. *)

\* The characters of a path.
LEMMA Codes ==
  /\ DOMAIN Code = {<<"2", "0">>, <<"2", "5">>, <<"3", "F">>, <<"0", "0">>}
  /\ Code[<<"2", "0">>] = <<"SP">> /\ Code[<<"2", "5">>] = <<"%">>
  /\ Code[<<"3", "F">>] = <<"?">> /\ Code[<<"0", "0">>] = <<>>
<1> DEFINE w == << <<"2", "0">>, <<"2", "5">>, <<"3", "F">>, <<"0", "0">> >>
           m == << <<"SP">>, <<"%">>, <<"?">>, <<>> >>
           at(p) == CHOOSE i \in 1..4 : w[i] = p
<1>1. Code = [p \in ToSet(w) |-> m[at(p)]]
  BY DEF Code
<1>2. w \in Seq({w[1], w[2], w[3], w[4]}) /\ Len(w) = 4 /\ DOMAIN w = 1..4
  OBVIOUS
<1>3. w[1] = <<"2", "0">> /\ w[2] = <<"2", "5">> /\ w[3] = <<"3", "F">> /\ w[4] = <<"0", "0">>
  OBVIOUS
<1>4. m[1] = <<"SP">> /\ m[2] = <<"%">> /\ m[3] = <<"?">> /\ m[4] = <<>>
  OBVIOUS
<1>5. \A i, j \in 1..4 : w[i] = w[j] => i = j
  <2>1. \A i \in 1..4 : i = 1 \/ i = 2 \/ i = 3 \/ i = 4
    OBVIOUS
  <2>2. w[1] # w[2] /\ w[1] # w[3] /\ w[1] # w[4] /\ w[2] # w[3] /\ w[2] # w[4] /\ w[3] # w[4]
    BY <1>3
  <2> HIDE DEF w
  <2>3. QED
    BY <2>1, <2>2
<1> HIDE DEF m, w
<1>6. ToSet(w) = {w[1], w[2], w[3], w[4]}
  <2>1. ToSet(w) = {w[i] : i \in 1..4}
    BY <1>2 DEF ToSet
  <2>2. \A i : i \in 1..4 <=> i = 1 \/ i = 2 \/ i = 3 \/ i = 4
    OBVIOUS
  <2>3. QED
    BY <2>1, <2>2
<1>7. ASSUME NEW i \in 1..4 PROVE Code[w[i]] = m[i]
  <2>1. at(w[i]) = i
    BY <1>5
  <2>2. w[i] \in ToSet(w)
    BY <1>2 DEF ToSet
  <2> HIDE DEF at
  <2>3. QED
    BY <1>1, <2>1, <2>2
<1> HIDE DEF at
<1>8. DOMAIN Code = ToSet(w)
  BY <1>1
<1>9. Code[w[1]] = m[1] /\ Code[w[2]] = m[2] /\ Code[w[3]] = m[3] /\ Code[w[4]] = m[4]
  BY <1>7
<1>10. QED
  BY <1>3, <1>4, <1>6, <1>8, <1>9

Simple(ch) == Len(ch) = 1 /\ ch[1] # "%" /\ Meaning(ch) = <<ch[1]>>
Lost(ch)   == Len(ch) = 2 /\ ch[1] = "%" /\ ch[2] \notin HexDigit /\ Meaning(ch) = <<>>
Escaped(ch) == /\ Len(ch) = 3 /\ ch[1] = "%" /\ {ch[2], ch[3]} \subseteq HexDigit
               /\ Meaning(ch) = Code[<<ch[2], ch[3]>>]

LEMMA PathChars ==
  ASSUME NEW ch \in PathChar
  PROVE  /\ ch \in Seq(Word \ {"?"}) /\ ch \in Seq(Symbols) /\ Meaning(ch) \in Seq(Symbols)
         /\ Simple(ch) \/ Lost(ch) \/ Escaped(ch)
<1> DEFINE W == Word \ {"?"}
<1>0. W \subseteq Symbols /\ {"%", "0", "2", "3", "5", "F"} \subseteq W /\ {"SP", "%", "?"} \subseteq Symbols
  BY SymbolAssumption DEF Word, Text
<1>1. CASE ch \in {<<x>> : x \in Word \ {"?", "%"}}
  <2>1. PICK x \in Word \ {"?", "%"} : ch = <<x>>
    BY <1>1
  <2>2. x \in W /\ x # "%" /\ x \in Symbols
    BY <1>0
  <2> HIDE DEF W
  <2>3. Len(ch) = 1 /\ ch[1] = x /\ ch \in Seq(W) /\ ch \in Seq(Symbols)
    BY <2>1, <2>2
  <2>4. Meaning(ch) = ch
    BY <2>2, <2>3 DEF Meaning
  <2>5. QED
    BY <2>1, <2>2, <2>3, <2>4 DEF Simple, W
<1>2. CASE ch \in {<<"%", x>> : x \in Word \ ({"?"} \cup HexDigit)}
  <2>1. PICK x \in Word \ ({"?"} \cup HexDigit) : ch = <<"%", x>>
    BY <1>2
  <2>2. x \in W /\ "%" \in W /\ x \in Symbols /\ "%" \in Symbols /\ x \notin HexDigit
    BY <1>0
  <2> HIDE DEF W
  <2>3. Len(ch) = 2 /\ ch[1] = "%" /\ ch[2] = x /\ ch \in Seq(W) /\ ch \in Seq(Symbols)
    BY <2>1, <2>2
  <2>4. Meaning(ch) = <<>> /\ <<>> \in Seq(Symbols)
    BY <2>2, <2>3, EmptySeq DEF Meaning
  <2>5. QED
    BY <2>2, <2>3, <2>4 DEF Lost, W
<1>3. CASE ch \in {<<"%">> \o p : p \in DOMAIN Code}
  <2>1. PICK p \in DOMAIN Code : ch = <<"%">> \o p
    BY <1>3
  <2>2. PICK u, v : p = <<u, v>> /\ u \in HexDigit /\ v \in HexDigit /\ u \in W /\ v \in W
    <3>1. p = <<"2", "0">> \/ p = <<"2", "5">> \/ p = <<"3", "F">> \/ p = <<"0", "0">>
      BY Codes
    <3>2. \A x \in {"0", "2", "3", "5", "F"} : x \in W /\ x \in HexDigit
      BY <1>0 DEF HexDigit
    <3> HIDE DEF W
    <3>3. QED
      BY <3>1, <3>2
  <2>3. ch = <<"%", u, v>>
    <3> DEFINE S == {"%", u, v}
               q == <<"%">>
               r == <<"%", u, v>>
    <3>1. q \in Seq(S) /\ p \in Seq(S) /\ r \in Seq(S) /\ Len(q) = 1 /\ Len(p) = 2 /\ Len(r) = 3
      BY <2>2
    <3>2. q[1] = "%" /\ p[1] = u /\ p[2] = v /\ r[1] = "%" /\ r[2] = u /\ r[3] = v
      BY <2>2
    <3> HIDE DEF S, q, r
    <3>3. \A i \in 1..Len(q) : r[i] = q[i]
      BY <3>1, <3>2
    <3>4. \A i \in 1..Len(p) : r[Len(q) + i] = p[i]
      <4>1. \A i \in 1..2 : i = 1 \/ i = 2
        OBVIOUS
      <4>2. QED
        BY <3>1, <3>2, <4>1
    <3>5. Len(r) = Len(q) + Len(p)
      BY <3>1
    <3>6. q \o p = r
      BY <3>1, <3>3, <3>4, <3>5, JoinedIs
    <3>7. QED
      BY <2>1, <3>6 DEF q, r
  <2>4. "%" \in W /\ W \subseteq Symbols
    BY <1>0
  <2> HIDE DEF W
  <2>5. Len(ch) = 3 /\ ch[1] = "%" /\ ch[2] = u /\ ch[3] = v /\ ch \in Seq(W) /\ ch \in Seq(Symbols)
    BY <2>2, <2>3, <2>4
  <2>6. Tail(ch) = p
    BY <2>2, <2>3
  <2>7. Meaning(ch) = Code[<<ch[2], ch[3]>>]
    BY <2>2, <2>5, <2>6 DEF Meaning
  <2>8. Code[p] \in Seq(Symbols)
    <3>1. \A x \in {"SP", "%", "?"} : <<x>> \in Seq(Symbols)
      BY <1>0
    <3>2. <<>> \in Seq(Symbols)
      BY EmptySeq
    <3>3. Code[p] = <<"SP">> \/ Code[p] = <<"%">> \/ Code[p] = <<"?">> \/ Code[p] = <<>>
      BY Codes
    <3>4. QED
      BY <3>1, <3>2, <3>3
  <2>9. QED
    BY <2>2, <2>5, <2>7, <2>8 DEF Escaped, W
<1>4. QED
  BY <1>1, <1>2, <1>3 DEF PathChar

\* What a request is.
LEMMA Asks ==
  ASSUME NEW r \in Requests
  PROVE  /\ r.method \in Word /\ r.path \in Seq(PathChar) /\ r.path # <<>>
         /\ r.query \in Seq(QueryParam) /\ r.headers \in Seq(Field) /\ r.range \in ByteRange
         /\ r.eol \in {<<"CR", "LF">>, <<"LF">>, <<"CR">>} /\ r.body \in Seq(Symbols)
         /\ r.eol \in Seq(Symbols) /\ Len(r.eol) \in {1, 2}
         /\ {"CR", "LF"} \subseteq Symbols /\ Text \subseteq Symbols /\ Word \subseteq Text
         /\ {"SP", "?", "&", "=", ":", "HTTP/1.1"} \subseteq Text /\ "CR" \notin Text /\ "LF" \notin Text
<1>1. /\ r.method \in Word /\ r.path \in Seq(PathChar) \ {<<>>}
      /\ r.query \in Seq(QueryParam) /\ r.headers \in Seq(Field) /\ r.range \in ByteRange
      /\ r.eol \in {<<"CR", "LF">>, <<"LF">>, <<"CR">>} /\ r.body \in Seq(Symbols)
  BY RequestAssumption
<1>2. {"CR", "LF"} \subseteq Symbols /\ Text \subseteq Symbols /\ Word \subseteq Text
  BY SymbolAssumption DEF Text, Word
<1>3. {"SP", "?", "&", "=", ":", "HTTP/1.1"} \subseteq Text /\ "CR" \notin Text /\ "LF" \notin Text
  BY SymbolAssumption DEF Text
<1>4. r.eol \in Seq(Symbols) /\ Len(r.eol) \in {1, 2}
  <2>1. <<"CR", "LF">> \in Seq(Symbols) /\ <<"LF">> \in Seq(Symbols) /\ <<"CR">> \in Seq(Symbols)
    BY <1>2
  <2>2. Len(<<"CR", "LF">>) = 2 /\ Len(<<"LF">>) = 1 /\ Len(<<"CR">>) = 1
    OBVIOUS
  <2>3. QED
    BY <1>1, <2>1, <2>2
<1>5. QED
  BY <1>1, <1>2, <1>3, <1>4

\* The parts of the first line.
LEMMA PathTyped ==
  ASSUME NEW r \in Requests
  PROVE  /\ r.path \in Seq(Seq(Word \ {"?"})) /\ PathText(r) \in Seq(Word \ {"?"})
         /\ Len(PathText(r)) \in Nat /\ Len(PathText(r)) >= 1
<1>1. r.path \in Seq(PathChar) /\ r.path # <<>>
  BY Asks
<1>2. Len(r.path) \in Nat /\ \A i \in 1..Len(r.path) : r.path[i] \in PathChar
  BY <1>1, LenProperties, ElementOfSeq
<1>3. r.path \in Seq(Seq(Word \ {"?"}))
  <2>1. \A i \in 1..Len(r.path) : r.path[i] \in Seq(Word \ {"?"})
    BY <1>2, PathChars
  <2>2. r.path = [i \in 1..Len(r.path) |-> r.path[i]]
    BY <1>1
  <2>3. r.path \in [1..Len(r.path) -> Seq(Word \ {"?"})]
    BY <2>1, <2>2
  <2>4. QED
    BY <1>2, <2>3
<1>4. PathText(r) \in Seq(Word \ {"?"})
  BY <1>3, LayersAll DEF PathText
<1>5. Len(r.path) >= 1
  BY <1>1, <1>2, EmptySeq
<1>6. Len(PathText(r)) >= 1
  <2>1. 1 \in 1..Len(r.path)
    BY <1>2, <1>5
  <2>2. /\ Len(Layers(r.path, 1 - 1)) \in Nat /\ Len(FlattenSeq(r.path)) \in Nat
        /\ Len(Layers(r.path, 1)) = Len(Layers(r.path, 1 - 1)) + Len(r.path[1])
        /\ Len(Layers(r.path, 1)) <= Len(FlattenSeq(r.path)) /\ Len(r.path[1]) \in Nat
    BY <1>3, <2>1, LayerBytes
  <2>3. Len(r.path[1]) >= 1
    <3>1. r.path[1] \in PathChar
      BY <1>2, <2>1
    <3>2. Simple(r.path[1]) \/ Lost(r.path[1]) \/ Escaped(r.path[1])
      BY <3>1, PathChars
    <3>3. QED
      BY <3>2 DEF Simple, Lost, Escaped
  <2> DEFINE a == Len(Layers(r.path, 1 - 1))
             b == Len(Layers(r.path, 1))
             d == Len(FlattenSeq(r.path))
             e == Len(r.path[1])
  <2>4. a \in Nat /\ d \in Nat /\ e \in Nat /\ b = a + e /\ b <= d /\ e >= 1
    BY <2>2, <2>3
  <2> HIDE DEF a, b, d, e
  <2>5. d >= 1
    BY <2>4
  <2>6. QED
    BY <2>5 DEF PathText, d
<1>7. QED
  BY <1>3, <1>4, <1>6, LenProperties

LEMMA QueryTyped ==
  ASSUME NEW r \in Requests
  PROVE  /\ QueryParts(r) \in Seq(Seq(Word)) /\ Len(QueryParts(r)) = Len(r.query)
         /\ Len(r.query) \in Nat
         /\ \A i \in 1..Len(r.query) :
              /\ r.query[i] \in QueryParam /\ ParamText(r.query[i]) \in Seq(Word \ {"&"})
              /\ QueryParts(r)[i] = (IF i = 1 THEN <<"?">> ELSE <<"&">>) \o ParamText(r.query[i])
<1>1. r.query \in Seq(QueryParam)
  BY Asks
<1>2. Len(r.query) \in Nat /\ DOMAIN r.query = 1..Len(r.query) /\ \A i \in 1..Len(r.query) : r.query[i] \in QueryParam
  BY <1>1, LenProperties, ElementOfSeq
<1>3. {"=", "?", "&"} \subseteq Word
  BY SymbolAssumption DEF Word, Text
<1>4. ASSUME NEW p \in QueryParam PROVE ParamText(p) \in Seq(Word \ {"&"})
  <2>1. p.key \in Seq(Word \ {"&", "="}) /\ (p.val \in Seq(Word \ {"&"}) \/ p.val = None)
    BY DEF QueryParam
  <2> DEFINE W == Word \ {"&"}
  <2>2. p.key \in Seq(W)
    <3>1. Word \ {"&", "="} \subseteq W
      OBVIOUS
    <3>2. QED
      BY <2>1, <3>1
  <2>3. "=" \in W
    BY <1>3
  <2> HIDE DEF W
  <2>4. <<"=">> \in Seq(W)
    BY <2>3
  <2>5. CASE p.val = None
    BY <2>2, <2>5 DEF ParamText, W
  <2>6. CASE p.val # None
    <3>1. p.val \in Seq(W)
      BY <2>1, <2>6 DEF W
    <3>2. p.key \o <<"=">> \in Seq(W)
      BY <2>2, <2>4, ConcatProperties
    <3>3. (p.key \o <<"=">>) \o p.val \in Seq(W)
      BY <3>1, <3>2, ConcatProperties
    <3>4. QED
      BY <2>6, <3>3 DEF ParamText, W
  <2>7. QED
    BY <2>5, <2>6
<1>5. ASSUME NEW i \in 1..Len(r.query)
      PROVE  (IF i = 1 THEN <<"?">> ELSE <<"&">>) \o ParamText(r.query[i]) \in Seq(Word)
  <2>1. <<"?">> \in Seq(Word) /\ <<"&">> \in Seq(Word)
    BY <1>3
  <2>2. ParamText(r.query[i]) \in Seq(Word)
    <3>1. ParamText(r.query[i]) \in Seq(Word \ {"&"}) /\ Word \ {"&"} \subseteq Word
      BY <1>2, <1>4
    <3>2. QED
      BY <3>1
  <2>3. \A p \in Seq(Word) : p \o ParamText(r.query[i]) \in Seq(Word)
    BY <2>2, ConcatProperties
  <2>4. QED
    BY <2>1, <2>3
<1>6. QueryParts(r) = [i \in 1..Len(r.query) |-> (IF i = 1 THEN <<"?">> ELSE <<"&">>) \o ParamText(r.query[i])]
  BY <1>2 DEF QueryParts
<1>7. QueryParts(r) \in [1..Len(r.query) -> Seq(Word)]
  BY <1>5, <1>6
<1>8. QueryParts(r) \in Seq(Seq(Word)) /\ Len(QueryParts(r)) = Len(r.query)
  BY <1>2, <1>7
<1>9. QED
  BY <1>2, <1>4, <1>6, <1>8
-----------------------------------------------------------------------------
(* The lines of a request. *)

\* Four sequences behind one another, place by place.
InFour(S, w, p, q, u, v) ==
  /\ w \in Seq(S) /\ Len(w) = Len(p) + Len(q) + Len(u) + Len(v)
  /\ \A j \in 1..Len(p) : w[j] = p[j]
  /\ \A j \in 1..Len(q) : w[Len(p) + j] = q[j]
  /\ \A j \in 1..Len(u) : w[Len(p) + Len(q) + j] = u[j]
  /\ \A j \in 1..Len(v) : w[Len(p) + Len(q) + Len(u) + j] = v[j]

LEMMA FourPlaces ==
  ASSUME NEW S, NEW p \in Seq(S), NEW q \in Seq(S), NEW u \in Seq(S), NEW v \in Seq(S)
  PROVE  InFour(S, p \o q \o u \o v, p, q, u, v)
<1> DEFINE x == p \o q
           y == x \o u
           z == y \o v
<1>1. x \in Seq(S) /\ Glued(S, x, p, q)
  BY Glue, ConcatProperties
<1> HIDE DEF x
<1>2. y \in Seq(S) /\ Glued(S, y, x, u)
  BY <1>1, Glue, ConcatProperties
<1> HIDE DEF y
<1>3. z \in Seq(S) /\ Glued(S, z, y, v)
  BY <1>2, Glue, ConcatProperties
<1> HIDE DEF z
<1> DEFINE a == Len(p)
           b == Len(q)
           d == Len(u)
           e == Len(v)
<1>4. a \in Nat /\ b \in Nat /\ d \in Nat /\ e \in Nat
  BY LenProperties
<1>5. Len(x) = a + b /\ (\A j \in 1..a : x[j] = p[j]) /\ (\A j \in 1..b : x[a + j] = q[j])
  BY <1>1 DEF Glued
<1>6. Len(y) = Len(x) + d /\ (\A j \in 1..Len(x) : y[j] = x[j]) /\ (\A j \in 1..d : y[Len(x) + j] = u[j])
  BY <1>2 DEF Glued
<1>7. Len(z) = Len(y) + e /\ (\A j \in 1..Len(y) : z[j] = y[j]) /\ (\A j \in 1..e : z[Len(y) + j] = v[j])
  BY <1>3 DEF Glued
<1> HIDE DEF a, b, d, e
<1>8. /\ Len(x) = a + b /\ Len(y) = a + b + d /\ Len(z) = a + b + d + e
  BY <1>5, <1>6, <1>7
<1>9. /\ \A j \in 1..a : j \in 1..Len(x) /\ j \in 1..Len(y)
      /\ \A j \in 1..b : a + j \in 1..Len(x) /\ a + j \in 1..Len(y)
      /\ \A j \in 1..d : Len(x) + j \in 1..Len(y)
  BY <1>4, <1>8
<1>10. /\ \A j \in 1..a : z[j] = p[j]
       /\ \A j \in 1..b : z[a + j] = q[j]
  BY <1>5, <1>6, <1>7, <1>9
<1>11. \A j \in 1..d : z[a + b + j] = u[j]
  BY <1>6, <1>7, <1>8, <1>9
<1>12. \A j \in 1..e : z[a + b + d + j] = v[j]
  BY <1>7, <1>8
<1>13. z \in Seq(S) /\ Len(z) = a + b + d + e
  BY <1>3, <1>8
<1>14. QED
  BY <1>10, <1>11, <1>12, <1>13, Zenon DEF a, b, d, e, z, y, x, InFour

\* The first line, place by place.
InFirst(l, x, p, q) ==
  /\ l \in Seq(Text) /\ Len(l) = 4 + Len(p) + Len(q) /\ l[1] = x /\ l[2] = "SP"
  /\ \A j \in 1..Len(p) : l[2 + j] = p[j]
  /\ \A j \in 1..Len(q) : l[2 + Len(p) + j] = q[j]
  /\ l[2 + Len(p) + Len(q) + 1] = "SP" /\ l[2 + Len(p) + Len(q) + 2] = "HTTP/1.1"

LEMMA FirstLine ==
  ASSUME NEW r \in Requests
  PROVE  InFirst(Written(r)[1], r.method, PathText(r), FlattenSeq(QueryParts(r)))
<1> DEFINE p == <<r.method, "SP">>
           q == PathText(r)
           u == FlattenSeq(QueryParts(r))
           v == <<"SP", "HTTP/1.1">>
           hs == [i \in DOMAIN r.headers |-> <<r.headers[i].key, ":">> \o r.headers[i].val]
           w == p \o q \o u \o v
           m == Len(q)
           n == Len(u)
<1>1. Written(r) = <<w>> \o hs
  BY DEF Written, PathText, QueryParts, ParamText
<1>2. p \in Seq(Text) /\ v \in Seq(Text) /\ Len(p) = 2 /\ Len(v) = 2
  <2>1. r.method \in Text /\ "SP" \in Text /\ "HTTP/1.1" \in Text
    BY Asks
  <2>2. QED
    BY <2>1
<1>3. q \in Seq(Text) /\ u \in Seq(Text)
  <2>1. q \in Seq(Word \ {"?"}) /\ u \in Seq(Word)
    BY PathTyped, QueryTyped, LayersAll
  <2>2. Word \subseteq Text /\ Word \ {"?"} \subseteq Text
    BY Asks
  <2> HIDE DEF q, u
  <2>3. QED
    BY <2>1, <2>2
<1>4. p[1] = r.method /\ p[2] = "SP" /\ v[1] = "SP" /\ v[2] = "HTTP/1.1"
  OBVIOUS
<1>5. m \in Nat /\ n \in Nat
  BY <1>3, LenProperties
<1>6. /\ w \in Seq(Text) /\ Len(w) = Len(p) + Len(q) + Len(u) + Len(v)
      /\ \A j \in 1..Len(p) : w[j] = p[j]
      /\ \A j \in 1..Len(q) : w[Len(p) + j] = q[j]
      /\ \A j \in 1..Len(u) : w[Len(p) + Len(q) + j] = u[j]
      /\ \A j \in 1..Len(v) : w[Len(p) + Len(q) + Len(u) + j] = v[j]
  <2> HIDE DEF p, q, u, v
  <2>1. InFour(Text, p \o q \o u \o v, p, q, u, v)
    BY <1>2, <1>3, FourPlaces
  <2>2. QED
    BY <2>1 DEF InFour
<1>7. Written(r)[1] = w
  <2>1. Len(hs) \in Nat /\ hs \in Seq({hs[i] : i \in 1..Len(hs)})
    <3>1. DOMAIN r.headers = 1..Len(r.headers) /\ Len(r.headers) \in Nat
      BY Asks, LenProperties
    <3>2. hs \in [1..Len(r.headers) -> {hs[i] : i \in 1..Len(r.headers)}]
      BY <3>1
    <3> HIDE DEF hs
    <3>3. Len(hs) = Len(r.headers)
      BY <3>1, <3>2
    <3>4. QED
      BY <3>1, <3>2, <3>3
  <2> HIDE DEF w, hs
  <2> DEFINE D == {hs[i] : i \in 1..Len(hs)} \cup {w}
  <2>2. <<w>> \in Seq(D) /\ hs \in Seq(D) /\ Len(<<w>>) = 1 /\ <<w>>[1] = w
    BY <2>1
  <2> DEFINE o == <<w>>
  <2>3. \A j \in 1..(Len(o) + Len(hs)) : (o \o hs)[j] = IF j <= Len(o) THEN o[j] ELSE hs[j - Len(o)]
    BY <2>2, ConcatProperties
  <2>4. 1 \in 1..(Len(o) + Len(hs)) /\ 1 <= Len(o)
    BY <2>1, <2>2
  <2> HIDE DEF o, D
  <2>5. (o \o hs)[1] = o[1]
    BY <2>3, <2>4
  <2>6. QED
    BY <1>1, <2>2, <2>5 DEF o
<1> HIDE DEF p, q, u, v, w, hs
<1>8. m = Len(q) /\ n = Len(u)
  BY DEF m, n
<1> HIDE DEF m, n
<1>9. w \in Seq(Text) /\ Len(w) = 4 + m + n /\ w[1] = r.method /\ w[2] = "SP"
  BY <1>2, <1>4, <1>5, <1>6, <1>8
<1>10. (\A j \in 1..m : w[2 + j] = q[j]) /\ (\A j \in 1..n : w[2 + m + j] = u[j])
  BY <1>2, <1>5, <1>6, <1>8
<1>11. w[2 + m + n + 1] = "SP" /\ w[2 + m + n + 2] = "HTTP/1.1"
  <2>1. \A j \in 1..2 : w[2 + m + n + j] = v[j]
    BY <1>2, <1>5, <1>6, <1>8
  <2>2. 1 \in 1..2 /\ 2 \in 1..2
    OBVIOUS
  <2>3. QED
    BY <1>4, <2>1, <2>2
<1>12. QED
  BY <1>7, <1>8, <1>9, <1>10, <1>11 DEF q, u, InFirst

\* A header, place by place.
LEMMA HeaderLine ==
  ASSUME NEW r \in Requests, NEW i \in 1..Len(r.headers)
  PROVE  /\ Written(r)[i + 1] \in Seq(Text)
         /\ r.headers[i].key \in Word \ {":"} /\ r.headers[i].val \in Seq(Text)
         /\ Len(r.headers[i].val) \in Nat
         /\ Len(Written(r)[i + 1]) = 2 + Len(r.headers[i].val)
         /\ Written(r)[i + 1][1] = r.headers[i].key /\ Written(r)[i + 1][2] = ":"
         /\ \A j \in 1..Len(r.headers[i].val) : Written(r)[i + 1][2 + j] = r.headers[i].val[j]
<1> DEFINE n == Len(r.headers)
           hs == [j \in 1..n |-> <<r.headers[j].key, ":">> \o r.headers[j].val]
           w == <<r.method, "SP">> \o PathText(r) \o FlattenSeq(QueryParts(r)) \o <<"SP", "HTTP/1.1">>
           o == <<w>>
<1>1. n \in Nat /\ DOMAIN r.headers = 1..n /\ \A j \in 1..n : r.headers[j] \in Field
  BY Asks, LenProperties, ElementOfSeq
<1>2. Written(r) = o \o hs
  BY <1>1 DEF Written, PathText, QueryParts, ParamText
<1> HIDE DEF n, w
<1>3. hs[i] = <<r.headers[i].key, ":">> \o r.headers[i].val /\ i \in 1..n
  BY DEF n
<1> HIDE DEF hs
<1>4. Written(r)[i + 1] = hs[i]
  <2> DEFINE D == {hs[j] : j \in 1..n} \cup {w}
  <2>1. hs \in Seq(D) /\ Len(hs) = n
    <3>1. hs \in [1..n -> D]
      BY DEF hs
    <3> HIDE DEF D
    <3>2. QED
      BY <1>1, <3>1
  <2>2. o \in Seq(D) /\ Len(o) = 1
    OBVIOUS
  <2> HIDE DEF o, D
  <2>3. Glued(D, o \o hs, o, hs)
    BY <2>1, <2>2, Glue
  <2>4. (o \o hs)[1 + i] = hs[i] /\ 1 + i = i + 1
    <3>1. \A j \in 1..n : (o \o hs)[1 + j] = hs[j]
      BY <2>1, <2>2, <2>3 DEF Glued
    <3>2. i \in 1..n /\ 1 + i = i + 1
      BY <1>1, <1>3
    <3>3. QED
      BY <3>1, <3>2, Zenon
  <2>5. (o \o hs)[i + 1] = hs[i]
    BY <2>4
  <2>6. QED
    BY <1>2, <2>5
<1> DEFINE k == <<r.headers[i].key, ":">>
           v == r.headers[i].val
<1>5. r.headers[i].key \in Word \ {":"} /\ v \in Seq(Text)
  BY <1>1, <1>3 DEF Field
<1>6. k \in Seq(Text) /\ Len(k) = 2 /\ k[1] = r.headers[i].key /\ k[2] = ":"
  BY <1>5, Asks
<1>7. Glued(Text, k \o v, k, v) /\ Len(v) \in Nat
  BY <1>5, <1>6, Glue, LenProperties
<1>8. Written(r)[i + 1] = k \o v
  BY <1>3, <1>4
<1> DEFINE l == k \o v
<1> HIDE DEF k, v, l
<1>9. l \in Seq(Text) /\ Len(l) = 2 + Len(v) /\ l[1] = k[1] /\ l[2] = k[2]
      /\ \A j \in 1..Len(v) : l[2 + j] = v[j]
  BY <1>6, <1>7 DEF Glued, l
<1>10. QED
  BY <1>5, <1>6, <1>7, <1>8, <1>9 DEF l, v

\* All of them.
LEMMA WrittenTyped ==
  ASSUME NEW r \in Requests
  PROVE  /\ Written(r) \in Seq(Seq(Text)) /\ Len(Written(r)) = Len(r.headers) + 1
         /\ Len(r.headers) \in Nat
         /\ \A i \in 1..Len(Written(r)) : Written(r)[i] \in Seq(Text) /\ Len(Written(r)[i]) \in Nat \ {0}
<1> DEFINE n == Len(r.headers)
           hs == [j \in 1..n |-> <<r.headers[j].key, ":">> \o r.headers[j].val]
           w == <<r.method, "SP">> \o PathText(r) \o FlattenSeq(QueryParts(r)) \o <<"SP", "HTTP/1.1">>
           o == <<w>>
<1>1. n \in Nat /\ DOMAIN r.headers = 1..n
  BY Asks, LenProperties
<1>2. Written(r) = o \o hs
  BY <1>1 DEF Written, PathText, QueryParts, ParamText
<1> HIDE DEF n, w
<1> DEFINE D == {hs[j] : j \in 1..n} \cup {w}
<1>3. hs \in Seq(D) /\ Len(hs) = n
  <2>1. hs \in [1..n -> D]
    OBVIOUS
  <2> HIDE DEF D, hs
  <2>2. QED
    BY <1>1, <2>1
<1>4. o \in Seq(D) /\ Len(o) = 1
  OBVIOUS
<1> HIDE DEF o, D, hs
<1>5. Written(r) \in Seq(D) /\ Len(Written(r)) = 1 + n
  <2>1. o \o hs \in Seq(D) /\ Len(o \o hs) = Len(o) + Len(hs)
    BY <1>3, <1>4, ConcatProperties, Zenon
  <2>2. QED
    BY <1>2, <1>3, <1>4, <2>1
<1>6. ASSUME NEW i \in 1..(n + 1) PROVE Written(r)[i] \in Seq(Text) /\ Len(Written(r)[i]) \in Nat \ {0}
  <2>1. CASE i = 1
    <3> DEFINE a == Len(PathText(r))
               b == Len(FlattenSeq(QueryParts(r)))
    <3>1. a \in Nat /\ b \in Nat
      BY PathTyped, QueryTyped, LayersAll, LenProperties
    <3>2. Written(r)[1] \in Seq(Text) /\ Len(Written(r)[1]) = 4 + a + b
      BY FirstLine DEF InFirst
    <3> HIDE DEF a, b
    <3>3. 4 + a + b \in Nat \ {0}
      BY <3>1
    <3>4. QED
      BY <2>1, <3>2, <3>3
  <2>2. CASE i # 1
    <3> DEFINE h == i - 1
    <3>1. h \in 1..Len(r.headers) /\ h + 1 = i
      BY <1>1, <2>2 DEF n
    <3> HIDE DEF h
    <3> DEFINE l == Len(r.headers[h].val)
    <3>2. Written(r)[h + 1] \in Seq(Text) /\ Len(Written(r)[h + 1]) = 2 + l /\ l \in Nat
      BY <3>1, HeaderLine
    <3> HIDE DEF l
    <3>3. 2 + l \in Nat \ {0}
      BY <3>2
    <3>4. QED
      BY <3>1, <3>2, <3>3
  <2>3. QED
    BY <2>1, <2>2
<1>7. Written(r) \in Seq(Seq(Text))
  <2>1. Written(r) \in [1..(n + 1) -> D] /\ n + 1 \in Nat
    BY <1>1, <1>5
  <2>2. Written(r) \in [1..(n + 1) -> Seq(Text)]
    BY <1>6, <2>1
  <2>3. QED
    BY <2>1, <2>2
<1>8. QED
  BY <1>1, <1>5, <1>6, <1>7 DEF n
-----------------------------------------------------------------------------
(* The message, line by line. *)

\* The head is its lines with their ends, one behind another, the empty one
\* included.
LEMMA RowsTyped ==
  ASSUME NEW r \in Requests
  PROVE  /\ Rows(r) \in Seq(Seq(Symbols)) /\ Len(Rows(r)) = Len(Written(r)) + 1
         /\ Len(Written(r)) \in Nat \ {0}
         /\ \A i \in Lines(r) : /\ Rows(r)[i] = Line(r, i) \o r.eol
                                /\ Line(r, i) \in Seq(Text) /\ Len(Line(r, i)) \in Nat
                                /\ i <= Len(Written(r)) => Len(Line(r, i)) >= 1
                                /\ i > Len(Written(r)) => Line(r, i) = <<>> /\ Len(Line(r, i)) = 0
<1> DEFINE n == Len(Written(r))
<1>1. /\ n \in Nat \ {0} /\ \A i \in 1..n : Written(r)[i] \in Seq(Text) /\ Len(Written(r)[i]) \in Nat \ {0}
  <2>1. n = Len(r.headers) + 1 /\ Len(r.headers) \in Nat
    BY WrittenTyped
  <2>2. \A i \in 1..n : Written(r)[i] \in Seq(Text) /\ Len(Written(r)[i]) \in Nat \ {0}
    BY WrittenTyped
  <2>3. QED
    BY <2>1, <2>2
<1>2. Lines(r) = 1..(n + 1)
  BY DEF Lines
<1>3. <<>> \in Seq(Text) /\ Len(<<>>) = 0
  BY EmptySeq
<1>4. ASSUME NEW i \in 1..(n + 1)
      PROVE  /\ Line(r, i) \in Seq(Text) /\ Len(Line(r, i)) \in Nat
             /\ i <= n => Len(Line(r, i)) >= 1
             /\ i > n => Line(r, i) = <<>> /\ Len(Line(r, i)) = 0
  <2>1. CASE i <= n
    <3>1. i \in 1..n /\ Line(r, i) = Written(r)[i] /\ ~(i > n)
      BY <1>1, <2>1 DEF Line
    <3>2. QED
      BY <1>1, <3>1
  <2>2. CASE ~(i <= n)
    <3>1. Line(r, i) = <<>>
      BY <2>2 DEF Line
    <3>2. QED
      BY <1>3, <2>2, <3>1
  <2>3. QED
    BY <2>1, <2>2
<1>5. Rows(r) = [i \in 1..(n + 1) |-> Line(r, i) \o r.eol]
  BY <1>2 DEF Rows
<1>6. ASSUME NEW i \in 1..(n + 1) PROVE Line(r, i) \o r.eol \in Seq(Symbols)
  <2>1. Line(r, i) \in Seq(Symbols) /\ r.eol \in Seq(Symbols)
    BY <1>4, Asks
  <2>2. QED
    BY <2>1, ConcatProperties
<1>7. Rows(r) \in [1..(n + 1) -> Seq(Symbols)]
  BY <1>5, <1>6
<1>8. Rows(r) \in Seq(Seq(Symbols)) /\ Len(Rows(r)) = n + 1
  BY <1>1, <1>7
<1>9. \A i \in 1..(n + 1) : Rows(r)[i] = Line(r, i) \o r.eol
  BY <1>5
<1>10. QED
  BY <1>1, <1>2, <1>4, <1>8, <1>9

LEMMA HeadIs == ASSUME NEW r \in Requests PROVE Section(r) = FlattenSeq(Rows(r))
<1> DEFINE n == Len(Written(r))
           s == [i \in DOMAIN Written(r) |-> Written(r)[i] \o r.eol]
           t == Append(s, r.eol)
<1>1. n \in Nat \ {0} /\ DOMAIN Written(r) = 1..n /\ \A i \in 1..n : Written(r)[i] \in Seq(Text)
  BY WrittenTyped, LenProperties
<1>2. r.eol \in Seq(Symbols) /\ Text \subseteq Symbols
  BY Asks
<1>3. s \in Seq(Seq(Symbols)) /\ Len(s) = n
  <2>1. ASSUME NEW i \in 1..n PROVE Written(r)[i] \o r.eol \in Seq(Symbols)
    <3>1. Written(r)[i] \in Seq(Symbols)
      BY <1>1, <1>2
    <3>2. QED
      BY <1>2, <3>1, ConcatProperties
  <2> HIDE DEF n
  <2>2. s \in [1..n -> Seq(Symbols)]
    BY <1>1, <2>1
  <2>3. QED
    BY <1>1, <2>2
<1>4. \A i \in 1..n : s[i] = Line(r, i) \o r.eol
  BY <1>1 DEF Line
<1> HIDE DEF s
<1>5. t \in Seq(Seq(Symbols)) /\ Len(t) = n + 1 /\ t[n + 1] = r.eol /\ \A i \in 1..n : t[i] = s[i]
  BY <1>2, <1>3, AppendProperties
<1>6. Rows(r) \in Seq(Seq(Symbols)) /\ Len(Rows(r)) = n + 1 /\ \A i \in 1..(n + 1) : Rows(r)[i] = Line(r, i) \o r.eol
  BY RowsTyped DEF Lines
<1>7. Line(r, n + 1) \o r.eol = r.eol
  <2>1. Line(r, n + 1) = <<>>
    BY <1>1 DEF Line
  <2>2. QED
    BY <1>2, <2>1, ConcatEmptySeq
<1> HIDE DEF t
<1>8. Rows(r) = t
  <2>1. ASSUME NEW i \in 1..(n + 1) PROVE Rows(r)[i] = t[i]
    <3>1. i \in 1..n \/ i = n + 1
      BY <1>1
    <3>2. QED
      BY <1>4, <1>5, <1>6, <1>7, <3>1
  <2>2. QED
    BY <1>5, <1>6, <2>1, SeqEqual
<1>9. s # <<>>
  BY <1>1, <1>3, EmptySeq
<1>10. FlattenSeq(t) = FlattenSeq(s) \o r.eol
  BY <1>2, <1>3, <1>9, FlattenAppend DEF t
<1>11. QED
  BY <1>8, <1>10 DEF Section, s

\* Where the lines are in the message.
RowIs(r, i) ==
  /\ LineAt(r, i) \in Nat /\ Len(Line(r, i)) \in Nat
  /\ LineEnd(r, i) = LineAt(r, i) + Len(Line(r, i)) /\ LineEnd(r, i) \in Nat
  /\ NextAt(r, i) = LineEnd(r, i) + Len(r.eol) /\ NextAt(r, i) \in Nat
  /\ NextAt(r, i) = Len(Layers(Rows(r), i)) /\ NextAt(r, i) <= Len(Message(r))
  /\ \A j \in 1..Len(Line(r, i)) : Message(r)[LineAt(r, i) + j] = Line(r, i)[j] /\ Line(r, i)[j] \in Text
  /\ \A j \in 1..Len(r.eol) : Message(r)[LineEnd(r, i) + j] = r.eol[j]

LEMMA Layout ==
  ASSUME NEW r \in Requests
  PROVE  /\ Message(r) \in Seq(Symbols) /\ Len(Message(r)) \in Nat
         /\ Message(r) = Section(r) \o r.body /\ Section(r) \in Seq(Symbols)
         /\ Len(Section(r)) = NextAt(r, Len(Written(r)) + 1)
         /\ \A i \in Lines(r) : RowIs(r, i)
<1> DEFINE n == Len(Written(r))
           R == Rows(r)
           H == Section(r)
<1>1. /\ R \in Seq(Seq(Symbols)) /\ Len(R) = n + 1 /\ n \in Nat \ {0}
      /\ \A i \in 1..(n + 1) : /\ R[i] = Line(r, i) \o r.eol
                             /\ Line(r, i) \in Seq(Text) /\ Len(Line(r, i)) \in Nat
  BY RowsTyped DEF Lines
<1>2. H = FlattenSeq(R) /\ H \in Seq(Symbols) /\ Layers(R, n + 1) = H
  BY <1>1, HeadIs, LayersAll
<1>3. r.body \in Seq(Symbols) /\ r.eol \in Seq(Symbols) /\ Text \subseteq Symbols
  BY Asks
<1>4. Message(r) = H \o r.body /\ Message(r) \in Seq(Symbols)
  BY <1>2, <1>3, ConcatProperties DEF Message
<1> DEFINE M == Message(r)
<1>5. Glued(Symbols, M, H, r.body)
  BY <1>2, <1>3, <1>4, Glue
<1> HIDE DEF R, H, M
<1>6. Len(H) \in Nat /\ Len(M) \in Nat /\ Len(r.eol) \in Nat /\ Len(r.body) \in Nat
  BY <1>2, <1>3, <1>4, LenProperties DEF M
<1>7. Len(M) = Len(H) + Len(r.body) /\ \A j \in 1..Len(H) : M[j] = H[j]
  BY <1>5 DEF Glued
<1>8. ASSUME NEW i \in 1..(n + 1) PROVE RowIs(r, i)
  <2> DEFINE w == Line(r, i)
             a == Len(Layers(R, i - 1))
             l == Len(w)
             e == Len(r.eol)
             row == R[i]
  <2>1. w \in Seq(Symbols) /\ l \in Nat /\ row = w \o r.eol /\ \A j \in 1..l : w[j] \in Text
    <3>1. w \in Seq(Text) /\ l \in Nat /\ row = w \o r.eol
      BY <1>1
    <3>2. QED
      BY <1>3, <3>1, ElementOfSeq
  <2>2. Glued(Symbols, row, w, r.eol)
    BY <1>3, <2>1, Glue
  <2>3. Len(row) = l + e /\ (\A j \in 1..l : row[j] = w[j]) /\ (\A j \in 1..e : row[l + j] = r.eol[j])
    BY <2>2 DEF Glued
  <2>4. i \in 1..Len(R)
    BY <1>1
  <2>5. /\ a \in Nat /\ Len(row) \in Nat /\ Len(FlattenSeq(R)) \in Nat
        /\ Len(Layers(R, i)) = a + Len(row) /\ Len(Layers(R, i)) <= Len(FlattenSeq(R))
        /\ \A j \in 1..Len(row) : FlattenSeq(R)[a + j] = row[j]
    BY <1>1, <2>4, LayerBytes
  <2> DEFINE b == Len(Layers(R, i))
             h == Len(H)
             m == Len(M)
  <2>6. a \in Nat /\ b = a + l + e /\ b <= h /\ h <= m /\ e \in Nat /\ b \in Nat /\ h \in Nat /\ m \in Nat
    <3>1. b = a + Len(row) /\ b <= h
      BY <1>2, <2>5
    <3>2. h \in Nat /\ m = h + Len(r.body) /\ e \in Nat /\ Len(row) = l + e /\ l \in Nat /\ a \in Nat
      BY <1>6, <1>7, <2>1, <2>3, <2>5
    <3>3. Len(r.body) \in Nat /\ m \in Nat
      BY <1>6
    <3> HIDE DEF w, a, l, e, row, b, h, m
    <3>4. QED
      BY <3>1, <3>2, <3>3
  <2>7. LineAt(r, i) = a /\ NextAt(r, i) = LineEnd(r, i) + e /\ LineEnd(r, i) = a + l
    BY DEF LineAt, LineEnd, NextAt, R
  <2>8. \A j \in 1..(l + e) : M[a + j] = row[j]
    <3>1. \A j \in 1..(l + e) : H[a + j] = row[j]
      BY <1>2, <2>3, <2>5
    <3> HIDE DEF w, a, l, e, row, b
    <3>2. \A j \in 1..(l + e) : a + j \in 1..h
      BY <2>1, <2>6
    <3>3. QED
      BY <1>7, <3>1, <3>2
  <2> HIDE DEF w, a, l, e, row, b, h, m
  <2>9. \A j \in 1..l : M[a + j] = w[j]
    <3>1. \A j \in 1..l : j \in 1..(l + e)
      BY <2>1, <2>6
    <3>2. QED
      BY <2>3, <2>8, <3>1
  <2>10. \A j \in 1..e : M[(a + l) + j] = r.eol[j]
    <3>1. \A j \in 1..e : l + j \in 1..(l + e) /\ (a + l) + j = a + (l + j)
      BY <2>1, <2>6
    <3>2. QED
      BY <2>3, <2>8, <3>1
  <2>11. a + l \in Nat /\ (a + l) + e \in Nat /\ (a + l) + e = b /\ b <= m
    BY <2>1, <2>6
  <2> DEFINE la == LineAt(r, i)
             le == LineEnd(r, i)
             nx == NextAt(r, i)
  <2>12. la = a /\ le = a + l /\ nx = b
    BY <2>7, <2>11
  <2> HIDE DEF la, le, nx
  <2>13. /\ la \in Nat /\ l \in Nat /\ le = la + l /\ le \in Nat /\ nx = le + e /\ nx \in Nat /\ nx = b /\ nx <= m
         /\ \A j \in 1..l : M[la + j] = w[j] /\ w[j] \in Text
         /\ \A j \in 1..e : M[le + j] = r.eol[j]
    BY <2>1, <2>6, <2>9, <2>10, <2>11, <2>12
  <2>14. QED
    BY <2>13, Zenon DEF RowIs, la, le, nx, l, e, w, m, M, b, R
<1>9. NextAt(r, n + 1) = Len(H)
  <2>1. n + 1 \in 1..(n + 1)
    BY <1>1
  <2>2. NextAt(r, n + 1) = Len(Layers(R, n + 1))
    BY <1>8, <2>1 DEF RowIs, R
  <2>3. QED
    BY <1>2, <2>2
<1>10. QED
  BY <1>2, <1>4, <1>6, <1>8, <1>9 DEF Lines, M, H

\* The next line begins where a line ends, and what a line end that is a
\* carriage return alone has behind it is never a line feed.
LEMMA NextLineAt ==
  ASSUME NEW r \in Requests
  PROVE  /\ LineAt(r, 1) = 0
         /\ \A i \in Lines(r) : i <= Len(Written(r)) => i + 1 \in Lines(r) /\ LineAt(r, i + 1) = NextAt(r, i)
<1> DEFINE n == Len(Written(r))
<1>0. n \in Nat
  BY RowsTyped
<1>1. LineAt(r, 1) = 0
  <2>1. 1 - 1 = 0 /\ Layers(Rows(r), 0) = <<>> /\ Len(<<>>) = 0
    BY LayersStart, EmptySeq
  <2>2. QED
    BY <2>1 DEF LineAt
<1>2. ASSUME NEW i \in Lines(r), i <= n PROVE i + 1 \in Lines(r) /\ LineAt(r, i + 1) = NextAt(r, i)
  <2>1. i \in 1..(n + 1) /\ i + 1 \in 1..(n + 1) /\ (i + 1) - 1 = i
    BY <1>0, <1>2 DEF Lines
  <2>2. NextAt(r, i) = Len(Layers(Rows(r), i))
    BY Layout DEF RowIs
  <2>3. QED
    BY <2>1, <2>2 DEF LineAt, Lines
<1>3. QED
  BY <1>1, <1>2

LEMMA BodyAt ==
  ASSUME NEW r \in Requests
  PROVE  Piece(r, NextAt(r, Len(Written(r)) + 1), Len(Message(r))) = r.body
<1> DEFINE M == Message(r)
           H == Section(r)
           B == r.body
           h == Len(H)
           m == Len(M)
           u == SubSeq(M, h + 1, m)
<1>1. M \in Seq(Symbols) /\ H \in Seq(Symbols) /\ M = H \o B /\ B \in Seq(Symbols)
  BY Layout, Asks
<1> HIDE DEF M, H, B
<1>2. Glued(Symbols, M, H, B) /\ h \in Nat /\ m \in Nat /\ Len(B) \in Nat
  BY <1>1, Glue, LenProperties
<1>3. m = h + Len(B) /\ \A j \in 1..Len(B) : M[h + j] = B[j]
  BY <1>2 DEF Glued
<1> HIDE DEF h, m
<1>4. h <= m /\ m - h = Len(B) /\ m <= Len(M)
  <2>1. m = Len(M)
    BY DEF m
  <2>2. QED
    BY <1>2, <1>3, <2>1
<1> HIDE DEF u
<1>5. u \in Seq(Symbols) /\ Len(u) = m - h /\ \A j \in 1..(m - h) : u[j] = M[h + j]
  <2>1. /\ SubSeq(M, h + 1, m) \in Seq(Symbols) /\ Len(SubSeq(M, h + 1, m)) = m - h
        /\ \A j \in 1..(m - h) : SubSeq(M, h + 1, m)[j] = M[h + j]
    BY <1>1, <1>2, <1>4, Cut
  <2>2. QED
    BY <2>1, Zenon DEF u
<1>6. Len(u) = Len(B) /\ \A j \in 1..Len(B) : u[j] = B[j]
  BY <1>3, <1>4, <1>5
<1>7. u = B
  BY <1>1, <1>5, <1>6, SeqEqual
<1>8. h = NextAt(r, Len(Written(r)) + 1)
  BY Layout DEF h, H
<1>9. QED
  BY <1>7, <1>8 DEF Piece, u, M, m, B
-----------------------------------------------------------------------------
(* Pieces of the message. *)

\* Pieces of the message.
PieceIs(r, a, b) ==
  /\ Piece(r, a, b) \in Seq(Symbols) /\ Len(Piece(r, a, b)) = b - a
  /\ \A i \in 1..(b - a) : Piece(r, a, b)[i] = Message(r)[a + i]
  /\ a = b <=> Piece(r, a, b) = <<>>

LEMMA Pieces ==
  ASSUME NEW r \in Requests, NEW a \in Nat, NEW b \in Nat, a <= b, b <= Len(Message(r))
  PROVE  PieceIs(r, a, b)
<1>1. Message(r) \in Seq(Symbols)
  BY Layout
<1>2. /\ Piece(r, a, b) \in Seq(Symbols) /\ Len(Piece(r, a, b)) = b - a
      /\ \A i \in 1..(b - a) : Piece(r, a, b)[i] = Message(r)[a + i]
  BY <1>1, Cut DEF Piece
<1> DEFINE p == Piece(r, a, b)
<1>3. p = <<>> <=> Len(p) = 0
  <2>1. p \in Seq(Symbols)
    BY <1>2
  <2> HIDE DEF p
  <2>2. QED
    BY <2>1, EmptySeq
<1>4. a = b <=> Piece(r, a, b) = <<>>
  BY <1>2, <1>3
<1>5. QED
  BY <1>2, <1>4 DEF PieceIs

\* Receiving one more character.
LEMMA PieceNext ==
  ASSUME NEW r \in Requests, NEW b \in Nat, NEW p \in Nat, NEW n \in Nat,
         b <= p, p < n, n <= Len(Message(r))
  PROVE  /\ Head(Piece(r, p, n)) = Message(r)[p + 1]
         /\ Tail(Piece(r, p, n)) = Piece(r, p + 1, n)
         /\ Append(Piece(r, b, p), Message(r)[p + 1]) = Piece(r, b, p + 1)
<1> DEFINE M == Message(r)
           u == Piece(r, p, n)
           v == Piece(r, p + 1, n)
           w == Piece(r, b, p)
           x == Piece(r, b, p + 1)
           y == Append(w, M[p + 1])
           m == Len(M)
<1>1. M \in Seq(Symbols) /\ m \in Nat
  BY Layout
<1>2. p <= n /\ p + 1 \in Nat /\ p + 1 <= n /\ b <= p + 1 /\ n <= m /\ p <= m /\ p + 1 <= m
  BY <1>1
<1>3. u \in Seq(Symbols) /\ Len(u) = n - p /\ \A i \in 1..(n - p) : u[i] = M[p + i]
  <2>1. PieceIs(r, p, n)
    BY <1>2, Pieces
  <2>2. QED
    BY <2>1 DEF PieceIs
<1>4. v \in Seq(Symbols) /\ Len(v) = n - (p + 1) /\ \A i \in 1..(n - (p + 1)) : v[i] = M[(p + 1) + i]
  <2> DEFINE q == p + 1
  <2>1. q \in Nat /\ q <= n /\ n <= Len(Message(r))
    BY <1>2
  <2> HIDE DEF q
  <2>2. /\ Piece(r, q, n) \in Seq(Symbols) /\ Len(Piece(r, q, n)) = n - q
        /\ \A i \in 1..(n - q) : Piece(r, q, n)[i] = M[q + i]
    <3>1. PieceIs(r, q, n)
      BY <2>1, Pieces
    <3>2. QED
      BY <3>1, Zenon DEF PieceIs
  <2>3. QED
    BY <2>2 DEF q
<1>5. w \in Seq(Symbols) /\ Len(w) = p - b /\ \A i \in 1..(p - b) : w[i] = M[b + i]
  <2>1. PieceIs(r, b, p)
    BY <1>2, Pieces
  <2>2. QED
    BY <2>1 DEF PieceIs
<1>6. x \in Seq(Symbols) /\ Len(x) = (p + 1) - b /\ \A i \in 1..((p + 1) - b) : x[i] = M[b + i]
  <2> DEFINE q == p + 1
  <2>1. q \in Nat /\ b <= q /\ q <= Len(Message(r))
    BY <1>2
  <2> HIDE DEF q
  <2>2. /\ Piece(r, b, q) \in Seq(Symbols) /\ Len(Piece(r, b, q)) = q - b
        /\ \A i \in 1..(q - b) : Piece(r, b, q)[i] = M[b + i]
    <3>1. PieceIs(r, b, q)
      BY <2>1, Pieces
    <3>2. QED
      BY <3>1, Zenon DEF PieceIs
  <2>3. QED
    BY <2>2 DEF q
<1>7. M[p + 1] \in Symbols
  BY <1>1, <1>2, ElementOfSeq
<1> HIDE DEF M, u, v, w, x, m
<1>8. Head(u) = M[p + 1]
  <2>1. 1 \in 1..(n - p)
    BY <1>2
  <2>2. Head(u) = u[1]
    BY DEF Head
  <2>3. QED
    BY <1>3, <2>1, <2>2
<1>9. Tail(u) = v
  <2>1. u # <<>>
    BY <1>2, <1>3, EmptySeq
  <2> DEFINE s == Tail(u)
  <2>2. s \in Seq(Symbols) /\ Len(s) = Len(u) - 1 /\ \A i \in 1..Len(s) : s[i] = u[i + 1]
    BY <1>3, <2>1, HeadTailProperties
  <2> HIDE DEF s
  <2>3. Len(s) = Len(v)
    BY <1>2, <1>3, <1>4, <2>2
  <2>4. ASSUME NEW i \in 1..Len(s) PROVE s[i] = v[i]
    <3>1. i \in 1..(n - (p + 1)) /\ i + 1 \in 1..(n - p) /\ p + (i + 1) = (p + 1) + i
      BY <1>2, <1>3, <2>2
    <3>2. s[i] = u[i + 1] /\ u[i + 1] = M[p + (i + 1)] /\ v[i] = M[(p + 1) + i]
      BY <1>3, <1>4, <2>2, <3>1
    <3>3. QED
      BY <3>1, <3>2
  <2>5. s = v
    BY <1>4, <2>2, <2>3, <2>4, SeqEqual
  <2>6. QED
    BY <2>5 DEF s
<1>10. y = x
  <2>1. y \in Seq(Symbols) /\ Len(y) = Len(w) + 1 /\ y[Len(w) + 1] = M[p + 1] /\ \A i \in 1..Len(w) : y[i] = w[i]
    BY <1>5, <1>7, AppendProperties
  <2> HIDE DEF y
  <2>2. Len(y) = Len(x)
    BY <1>5, <1>6, <2>1
  <2>3. ASSUME NEW i \in 1..Len(y) PROVE y[i] = x[i]
    <3>1. i \in 1..((p + 1) - b) /\ (i \in 1..(p - b) \/ (i = Len(w) + 1 /\ b + i = p + 1))
      BY <1>5, <2>1
    <3>2. QED
      BY <1>5, <1>6, <2>1, <3>1
  <2>4. QED
    BY <1>6, <2>1, <2>2, <2>3, SeqEqual
<1>11. QED
  BY <1>8, <1>9, <1>10 DEF u, v, w, x, M

\* What arrives of a piece is a piece.
LEMMA PieceCut ==
  ASSUME NEW r \in Requests, NEW p \in Nat, NEW n \in Nat, p <= n, n <= Len(Message(r)),
         NEW k \in 0..Len(Piece(r, p, n))
  PROVE  p + k \in Nat /\ p + k <= n /\ SubSeq(Piece(r, p, n), 1, k) = Piece(r, p, p + k)
<1> DEFINE M == Message(r)
<1>1. M \in Seq(Symbols)
  BY Layout
<1>2. k \in 0..(n - p)
  BY Pieces DEF PieceIs
<1>3. p + k \in Nat /\ p + k <= n /\ 0 \in Nat /\ k \in Nat /\ 0 <= k /\ k <= n - p
  BY <1>2
<1>4. Inner(M, p, n, 0, k)
  BY <1>1, <1>3, CutCut
<1>5. SubSeq(SubSeq(M, p + 1, n), 0 + 1, k) = SubSeq(M, p + 0 + 1, p + k)
  BY <1>4 DEF Inner
<1>6. 0 + 1 = 1 /\ p + 0 + 1 = p + 1
  OBVIOUS
<1>7. QED
  BY <1>3, <1>5, <1>6 DEF Piece

\* A carriage return that is a line end of its own has no line feed behind it.
LEMMA LoneCR ==
  ASSUME NEW r \in Requests, r.eol = <<"CR">>, NEW i \in Lines(r), NextAt(r, i) < Len(Message(r))
  PROVE  Message(r)[NextAt(r, i) + 1] # "LF"
<1> DEFINE n == Len(Written(r))
           a == NextAt(r, i)
           M == Message(r)
           m == Len(M)
<1>1. n \in Nat /\ i \in 1..(n + 1) /\ RowIs(r, i) /\ a \in Nat /\ m \in Nat
  BY RowsTyped, Layout DEF Lines, RowIs
<1>2. CASE i <= n
  <2> DEFINE j == i + 1
             l == Len(Line(r, j))
  <2>1. j \in Lines(r) /\ LineAt(r, j) = a
    BY <1>2, NextLineAt
  <2>2. RowIs(r, j)
    BY <2>1, Layout
  <2>3. /\ l \in Nat /\ LineEnd(r, j) = a + l
        /\ \A h \in 1..l : M[a + h] \in Text
        /\ \A h \in 1..Len(r.eol) : M[LineEnd(r, j) + h] = r.eol[h]
    BY <2>1, <2>2 DEF RowIs
  <2>4. Len(r.eol) = 1 /\ r.eol[1] = "CR"
    OBVIOUS
  <2> HIDE DEF j, l, a, M
  <2>5. CASE l = 0
    <3>1. LineEnd(r, j) + 1 = a + 1 /\ 1 \in 1..Len(r.eol)
      BY <1>1, <2>3, <2>4, <2>5
    <3>2. M[a + 1] = "CR"
      BY <2>3, <2>4, <3>1
    <3>3. QED
      BY <3>2 DEF a, M
  <2>6. CASE l # 0
    <3>1. 1 \in 1..l
      BY <2>3, <2>6
    <3>2. M[a + 1] \in Text
      BY <2>3, <3>1
    <3>3. QED
      BY <3>2, Asks DEF a, M
  <2>7. QED
    BY <2>5, <2>6
<1>3. CASE i = n + 1
  <2> DEFINE B == Piece(r, a, m)
  <2>1. r.body = B
    BY <1>3, BodyAt
  <2>2. a <= m /\ m <= Len(Message(r)) /\ 1 \in 1..(m - a)
    BY <1>1
  <2>3. B \in Seq(Symbols) /\ Len(B) = m - a /\ B[1] = M[a + 1]
    <3>1. PieceIs(r, a, m)
      BY <1>1, <2>2, Pieces
    <3>2. QED
      BY <2>2, <3>1 DEF PieceIs
  <2>4. ~IsPrefix(<<"LF">>, r.body)
    BY RequestAssumption
  <2> HIDE DEF B, m, M, a
  <2>5. B[1] = "LF" => IsPrefix(<<"LF">>, B)
    <3> DEFINE o == <<"LF">>
    <3>1. o \in Seq(Symbols) /\ Len(o) = 1 /\ o[1] = "LF"
      BY Asks
    <3> HIDE DEF o
    <3> DEFINE u == SubSeq(B, 1, 1)
    <3>2. 1 \in Nat /\ 1 <= Len(B)
      BY <2>2, <2>3
    <3>3. u \in Seq(Symbols) /\ Len(u) = 1 /\ u[1] = B[1]
      BY <2>3, <3>2, CutFront
    <3> HIDE DEF u
    <3>4. B[1] = "LF" => u = o
      BY <3>1, <3>3, SeqEqual
    <3>5. SubSeq(o, 1, Len(o)) = o
      BY <3>1, SubSeqFull
    <3>6. QED
      BY <3>1, <3>2, <3>4, <3>5 DEF IsPrefix, u, o
  <2>6. QED
    BY <2>1, <2>3, <2>4, <2>5 DEF M, a
<1>4. QED
  BY <1>1, <1>2, <1>3

\* A line is a piece, without line ends.
LEMMA LinePiece ==
  ASSUME NEW r \in Requests, NEW i \in Lines(r)
  PROVE  /\ LineAt(r, i) \in Nat /\ LineEnd(r, i) \in Nat /\ LineAt(r, i) <= LineEnd(r, i)
         /\ LineEnd(r, i) <= Len(Message(r)) /\ Len(Message(r)) \in Nat
         /\ Piece(r, LineAt(r, i), LineEnd(r, i)) = Line(r, i)
<1> DEFINE a == LineAt(r, i)
           b == LineEnd(r, i)
           w == Line(r, i)
           M == Message(r)
           m == Len(M)
           l == Len(w)
           e == Len(r.eol)
           x == NextAt(r, i)
           p == Piece(r, a, b)
<1>1. RowIs(r, i) /\ m \in Nat /\ e \in Nat /\ w \in Seq(Text) /\ w \in Seq(Symbols)
  <2>1. e \in Nat /\ Text \subseteq Symbols
    BY Asks
  <2>2. w \in Seq(Text)
    BY RowsTyped
  <2> HIDE DEF w, e
  <2>3. w \in Seq(Symbols)
    BY <2>1, <2>2
  <2>4. QED
    BY <2>1, <2>2, <2>3, Layout
<1>2. /\ a \in Nat /\ l \in Nat /\ b = a + l /\ b \in Nat /\ x = b + e /\ x <= m
      /\ \A j \in 1..l : M[a + j] = w[j]
  BY <1>1 DEF RowIs
<1> HIDE DEF a, b, w, l, e, x, m, M
<1>3. a <= b /\ b <= m /\ b - a = l
  BY <1>1, <1>2
<1>4. p \in Seq(Symbols) /\ Len(p) = b - a /\ \A j \in 1..(b - a) : p[j] = M[a + j]
  <2>1. b <= Len(Message(r))
    BY <1>3 DEF m, M
  <2>2. PieceIs(r, a, b)
    BY <1>2, <1>3, <2>1, Pieces
  <2>3. QED
    BY <2>2 DEF PieceIs, M
<1> HIDE DEF p
<1>5. p = w
  <2>1. l = Len(w)
    BY DEF l
  <2>2. Len(p) = Len(w)
    BY <1>3, <1>4, <2>1
  <2>3. \A j \in 1..Len(p) : p[j] = w[j]
    BY <1>2, <1>3, <1>4
  <2>4. QED
    BY <1>1, <1>4, <2>2, <2>3, SeqEqual
<1>6. QED
  BY <1>1, <1>2, <1>3, <1>5 DEF a, b, m, M, p, w
-----------------------------------------------------------------------------
(* Where get_line is, and how receiving changes that. *)

LEMMA FullNat == Full \in Nat \ {0} /\ LineSize \in Nat /\ LineSize = Full + 1
BY SizeAssumption DEF Full

\* Where a call of get_line can have begun.
LEMMA Began ==
  ASSUME NEW i \in Lines(request), NEW b, request \in Requests, Begins(i, b)
  PROVE  /\ b \in Nat /\ LineAt(request, i) <= b /\ b <= LineEnd(request, i) /\ b <= Len(Message(request))
         /\ LineAt(request, i) \in Nat /\ LineEnd(request, i) \in Nat /\ Len(Message(request)) \in Nat
         /\ LineEnd(request, i) <= Len(Message(request))
<1> DEFINE a == LineAt(request, i)
           e == LineEnd(request, i)
           m == Len(Message(request))
<1>1. a \in Nat /\ e \in Nat /\ a <= e /\ e <= m /\ m \in Nat
  BY LinePiece
<1>2. PICK t \in Nat : b = a + t * Full /\ b <= e
  BY DEF Begins
<1> HIDE DEF a, e, m
<1>3. t * Full \in Nat
  BY FullNat
<1>4. b \in Nat /\ a <= b /\ b <= e /\ b <= m
  BY <1>1, <1>2, <1>3
<1>5. QED
  BY <1>1, <1>4 DEF a, e, m

\* A line that fits is read in one piece.
LEMMA FitsWhole ==
  ASSUME NEW i \in Lines(request), NEW b, request \in Requests, Begins(i, b), Fits(request)
  PROVE  b = LineAt(request, i) /\ LineEnd(request, i) - b < Full
<1> DEFINE a == LineAt(request, i)
           e == LineEnd(request, i)
           l == Len(Line(request, i))
<1>1. RowIs(request, i)
  BY Layout
<1>2. a \in Nat /\ e = a + l /\ l \in Nat
  BY <1>1 DEF RowIs
<1>3. l < Full
  <2>1. CASE i <= Len(Written(request))
    <3>1. i \in 1..Len(Written(request)) /\ DOMAIN Written(request) = 1..Len(Written(request))
      BY <2>1, WrittenTyped, LenProperties DEF Lines
    <3>2. Len(Written(request)[i]) < LineSize - 1
      BY <3>1 DEF Fits
    <3>3. Line(request, i) = Written(request)[i]
      BY <2>1 DEF Line
    <3>4. QED
      BY <3>2, <3>3 DEF Full
  <2>2. CASE ~(i <= Len(Written(request)))
    <3>1. l = 0
      <4>1. Line(request, i) = <<>>
        BY <2>2 DEF Line
      <4>2. QED
        BY <4>1, EmptySeq
    <3>2. QED
      BY <3>1, FullNat
  <2>3. QED
    BY <2>1, <2>2
<1>4. PICK t \in Nat : b = a + t * Full /\ b <= e
  BY DEF Begins
<1> HIDE DEF a, e, l
<1>5. t = 0
  <2> SUFFICES ASSUME t # 0 PROVE FALSE
    OBVIOUS
  <2>1. t * Full >= Full
    BY FullNat
  <2>2. t * Full \in Nat /\ Full \in Nat
    BY FullNat
  <2>3. QED
    BY <1>2, <1>3, <1>4, <2>1, <2>2
<1>6. b = a
  <2>1. t * Full = 0
    BY <1>5, FullNat
  <2>2. QED
    BY <1>2, <1>4, <2>1
<1>7. e - b < Full
  BY <1>2, <1>3, <1>6, FullNat
<1>8. QED
  BY <1>6, <1>7 DEF a, e

LEMMA StartOfMessage ==
  ASSUME Init
  PROVE  1 \in Lines(request) /\ LineAt(request, 1) = 0 /\ Within(1, 0, Len(Message(request)))
<1> DEFINE M == Message(request)
           m == Len(M)
<1>0. request \in Requests /\ rest = M /\ line = <<>> /\ c = Other /\ pc = "request line"
  BY DEF Init
<1>1. M \in Seq(Symbols) /\ m \in Nat
  BY <1>0, Layout
<1>2. 1 \in Lines(request) /\ LineAt(request, 1) = 0
  <2>1. Len(Written(request)) \in Nat
    BY <1>0, RowsTyped
  <2>2. QED
    <3>1. 1 \in Lines(request)
      BY <2>1 DEF Lines
    <3>2. LineAt(request, 1) = 0
      BY <1>0, NextLineAt
    <3>3. QED
      BY <3>1, <3>2
<1>3. LineEnd(request, 1) \in Nat
  BY <1>0, <1>2, LinePiece
<1>4. Begins(1, 0)
  <2>1. 0 * Full = 0
    BY FullNat
  <2>2. 0 = LineAt(request, 1) + 0 * Full /\ 0 <= LineEnd(request, 1)
    BY <1>2, <1>3, <2>1
  <2>3. QED
    BY <2>2 DEF Begins
<1>5. Settled(1, 0)
  <2>1. Whole(1)
    BY DEF Whole
  <2>2. pc = "request line" <=> 1 = 1 /\ 0 = 0
    BY <1>0
  <2>3. ~(Fits(request) /\ 1 > 1)
    OBVIOUS
  <2>4. QED
    BY <1>4, <2>1, <2>2, <2>3 DEF Settled
<1>6. Piece(request, 0, 0) = <<>> /\ Piece(request, 0, m) = M
  <2>1. PieceIs(request, 0, 0)
    <3>1. 0 <= Len(Message(request)) /\ 0 <= 0
      BY <1>1
    <3>2. QED
      BY <1>0, <3>1, Pieces
  <2>2. SubSeq(M, 1, Len(M)) = M
    BY <1>1, SubSeqFull
  <2>3. QED
    BY <2>1, <2>2 DEF PieceIs, Piece
<1>7. InText(1, 0, m)
  <2>1. 0 \in 0..m /\ 0 <= LineEnd(request, 1) /\ 0 - 0 <= Full
    BY <1>1, <1>3, FullNat
  <2> HIDE DEF m, M
  <2>2. line = Piece(request, 0, 0) /\ rest = Piece(request, 0, m)
    BY <1>0, <1>6 DEF M
  <2>3. QED
    BY <1>0, <2>1, <2>2 DEF InText
<1>8. Place(1, 0, m)
  BY <1>1, <1>7 DEF Place
<1>9. QED
  BY <1>2, <1>5, <1>8 DEF Within

\* Receiving and losing bytes leaves the rest as it is.
Same == UNCHANGED <<request, pc, method, url, query_string, properties>>

LEMMA SettledStays ==
  ASSUME NEW i, NEW b, Settled(i, b), Same
  PROVE  Settled(i, b)'
<1>1. request' = request /\ pc' = pc /\ method' = method /\ url' = url /\ query_string' = query_string
      /\ properties' = properties
  BY DEF Same
<1>2. Begins(i, b)' <=> Begins(i, b)
  BY <1>1 DEF Begins
<1>3. Whole(i)' <=> Whole(i)
  BY <1>1 DEF Whole
<1>4. AllRead(i - 1)' <=> AllRead(i - 1)
  BY <1>1 DEF AllRead, LineRead
<1>5. QED
  BY <1>1, <1>2, <1>3, <1>4 DEF Settled

\* A character arrives.
LEMMA RecvPlace ==
  ASSUME NEW i \in Lines(request), NEW b, NEW n, request \in Requests, Begins(i, b), Place(i, b, n), Recv
  PROVE  Place(i, b, n)'
<1> DEFINE r == request
           a == LineAt(r, i)
           e == LineEnd(r, i)
           x == NextAt(r, i)
           M == Message(r)
           m == Len(M)
           h == Len(r.eol)
<1>1. b \in Nat /\ a <= b /\ b <= e /\ a \in Nat /\ e \in Nat /\ m \in Nat /\ e <= m
  BY Began
<1>2. n \in 0..m /\ (socket # "shut" => n = m)
  BY DEF Place
<1>3. /\ c = Other /\ Len(line) < Full /\ rest # <<>> /\ rest' = Tail(rest)
      /\ c' = IF Head(rest) \in {"CR", "LF"} THEN Head(rest) ELSE Other
      /\ line' = IF Head(rest) = "CR" THEN line ELSE Append(line, Head(rest))
      /\ request' = request /\ socket' = socket
  BY DEF Recv, InLine, Room, Parsed, Full
<1>4. PICK p \in b..n : p <= e /\ p - b <= Full /\ line = Piece(r, b, p) /\ rest = Piece(r, p, n)
  <2>1. ~AtCR(i, b, n) /\ ~AtLF(i, b, n) /\ ~AtCut(i, b)
    BY <1>3 DEF AtCR, AtLF, AtCut, Other
  <2>2. InText(i, b, n)
    BY <2>1 DEF Place
  <2>3. QED
    BY <2>2 DEF InText
<1>5. RowIs(r, i)
  BY Layout
<1>6. /\ e = a + Len(Line(r, i)) /\ Len(Line(r, i)) \in Nat /\ x = e + h
      /\ \A j \in 1..Len(Line(r, i)) : M[a + j] = Line(r, i)[j] /\ Line(r, i)[j] \in Text
      /\ \A j \in 1..h : M[e + j] = r.eol[j]
  BY <1>5 DEF RowIs
<1>7. r.eol \in {<<"CR", "LF">>, <<"LF">>, <<"CR">>} /\ h \in {1, 2}
  BY Asks
<1> HIDE DEF r, a, e, x, M, m, h
<1>8. p \in Nat /\ b <= p /\ p <= n /\ n \in Nat /\ n <= m
  BY <1>1, <1>2, <1>4
<1>9. Len(line) = p - b /\ p < n
  <2>1. PieceIs(r, b, p) /\ PieceIs(r, p, n)
    <3>1. p <= Len(Message(r)) /\ n <= Len(Message(r))
      BY <1>1, <1>8 DEF m, M
    <3>2. QED
      BY <1>1, <1>8, <3>1, Pieces DEF r
  <2>2. p # n
    BY <1>3, <1>4, <2>1 DEF PieceIs
  <2>3. QED
    BY <1>4, <1>8, <2>1, <2>2 DEF PieceIs
<1>10. Head(rest) = M[p + 1] /\ Tail(rest) = Piece(r, p + 1, n) /\ Append(line, M[p + 1]) = Piece(r, b, p + 1)
  <2>1. n <= Len(Message(r)) /\ r \in Requests
    BY <1>8 DEF m, M, r
  <2>2. QED
    <3>1. /\ Head(Piece(r, p, n)) = Message(r)[p + 1] /\ Tail(Piece(r, p, n)) = Piece(r, p + 1, n)
          /\ Append(Piece(r, b, p), Message(r)[p + 1]) = Piece(r, b, p + 1)
      <4>1. b \in Nat
        BY <1>1
      <4>2. QED
        BY <1>8, <1>9, <2>1, <4>1, PieceNext
    <3>2. QED
      BY <1>4, <3>1 DEF M
<1>11. p + 1 \in b..n /\ p + 1 - b <= Full
  BY <1>1, <1>3, <1>8, <1>9, FullNat
<1>12. CASE p < e
  <2>1. M[p + 1] \in Text
    <3>1. (p + 1) - a \in 1..Len(Line(r, i)) /\ a + ((p + 1) - a) = p + 1
      BY <1>1, <1>6, <1>8, <1>12
    <3>2. M[a + ((p + 1) - a)] \in Text
      BY <1>6, <3>1
    <3>3. QED
      BY <3>1, <3>2
  <2>2. M[p + 1] # "CR" /\ M[p + 1] # "LF"
    BY <2>1, Asks DEF r
  <2>3. c' = Other /\ line' = Piece(r, b, p + 1) /\ rest' = Piece(r, p + 1, n)
    BY <1>3, <1>10, <2>2
  <2>31. p + 1 <= e
    BY <1>1, <1>8, <1>12
  <2>4. InText(i, b, n)'
    <3> DEFINE q == p + 1
    <3>0. line' = Piece(r, b, q) /\ rest' = Piece(r, q, n)
      BY <2>3
    <3>1. q \in b..n /\ q <= e /\ q - b <= Full
      BY <1>1, <1>8, <1>11, <2>31, FullNat
    <3> HIDE DEF q
    <3>2. \E z \in b..n : z <= e /\ z - b <= Full /\ line' = Piece(r, b, z) /\ rest' = Piece(r, z, n)
      BY <3>0, <3>1
    <3>3. r = request'
      BY <1>3 DEF r
    <3>4. e = LineEnd(request', i)
      BY <1>3 DEF r, e
    <3>5. QED
      BY <2>3, <3>2, <3>3, <3>4 DEF InText
  <2>5. QED
    BY <1>2, <1>3, <2>4 DEF Place, r, M, m
<1>13. CASE p = e
  <2>1. M[p + 1] = r.eol[1] /\ e - b < Full
    BY <1>1, <1>3, <1>6, <1>7, <1>9, <1>13
  <2>2. CASE r.eol \in {<<"CR", "LF">>, <<"CR">>}
    <3>1. M[p + 1] = "CR"
      BY <2>1, <2>2
    <3>2. c' = "CR" /\ line' = Piece(r, b, e) /\ rest' = Piece(r, e + 1, n) /\ e < n
      BY <1>3, <1>4, <1>9, <1>10, <1>13, <3>1
    <3>3. AtCR(i, b, n)'
      BY <1>3, <2>1, <2>2, <3>2 DEF AtCR, r, e
    <3>4. QED
      BY <1>2, <1>3, <3>3 DEF Place, r, M, m
  <2>3. CASE r.eol = <<"LF">>
    <3>1. M[p + 1] = "LF" /\ h = 1
      BY <2>1, <2>3 DEF h
    <3>2. x = p + 1
      BY <1>6, <1>13, <3>1
    <3>3. c' = "LF" /\ line' = Append(Piece(r, b, e), "LF") /\ rest' = Piece(r, x, n) /\ x <= n
      BY <1>3, <1>4, <1>10, <1>11, <1>13, <3>1, <3>2
    <3>4. AtLF(i, b, n)'
      BY <1>3, <2>1, <3>3 DEF AtLF, r, e, x
    <3>5. QED
      BY <1>2, <1>3, <3>4 DEF Place, r, M, m
  <2>4. QED
    BY <1>7, <2>2, <2>3
<1>14. QED
  BY <1>1, <1>4, <1>8, <1>12, <1>13

\* Nothing more arrives, in the middle of a line.
LEMMA FailsPlace ==
  ASSUME NEW i \in Lines(request), NEW b, NEW n, request \in Requests, Begins(i, b), Place(i, b, n), RecvFails, ~accident'
  PROVE  Place(i, b, n)'
<1>1. /\ c = Other /\ Len(line) < Full /\ c' = "LF" /\ line' = line /\ rest' = rest
      /\ request' = request /\ socket' = socket
  BY DEF RecvFails, InLine, Room, Parsed, Full
<1>2. rest = <<>> /\ socket # "open"
  <2>1. accident' <=> (accident \/ rest # <<>>)
    BY Zenon DEF RecvFails
  <2>2. Fails
    BY DEF RecvFails
  <2>3. QED
    BY <2>1, <2>2, Zenon DEF Fails
<1>3. n \in 0..Len(Message(request)) /\ (socket # "shut" => n = Len(Message(request)))
  BY DEF Place
<1>4. PICK p \in b..n : p <= LineEnd(request, i) /\ line = Piece(request, b, p)
  <2>1. ~AtCR(i, b, n) /\ ~AtLF(i, b, n) /\ ~AtCut(i, b)
    BY <1>1 DEF AtCR, AtLF, AtCut, Other
  <2>2. InText(i, b, n)
    BY <2>1 DEF Place
  <2>3. QED
    BY <2>2 DEF InText
<1>5. p \in b..LineEnd(request, i) /\ p - b < Full
  <2>1. b \in Nat /\ LineEnd(request, i) \in Nat /\ LineEnd(request, i) <= Len(Message(request))
        /\ Len(Message(request)) \in Nat
    BY Began
  <2>2. p \in Nat /\ b <= p /\ p <= Len(Message(request))
    BY <1>4, <2>1
  <2>3. PieceIs(request, b, p)
    BY <2>1, <2>2, Pieces
  <2>4. p - b < Full
    BY <1>1, <1>4, <2>3 DEF PieceIs
  <2>5. QED
    BY <1>4, <2>1, <2>2, <2>4
<1>6. AtCut(i, b)'
  BY <1>1, <1>2, <1>4, <1>5 DEF AtCut
<1>7. QED
  BY <1>1, <1>3, <1>6 DEF Place

\* What comes behind the carriage return.
LEMMA PeekPlace ==
  ASSUME NEW i \in Lines(request), NEW b, NEW n, request \in Requests, Begins(i, b), Place(i, b, n), Peek, ~accident'
  PROVE  Place(i, b, n)'
<1> DEFINE r == request
           e == LineEnd(r, i)
           x == NextAt(r, i)
           M == Message(r)
           m == Len(M)
           q == e + 1
<1>1. c = "CR" /\ c' = "LF" /\ line' = Append(line, "LF") /\ request' = request /\ socket' = socket
  BY DEF Peek, Parsed
<1>2. n \in 0..m /\ (socket # "shut" => n = m)
  BY DEF Place
<1>3. /\ r.eol \in {<<"CR", "LF">>, <<"CR">>} /\ e < n /\ e - b < Full
      /\ line = Piece(r, b, e) /\ rest = Piece(r, q, n)
  <2>1. ~InText(i, b, n) /\ ~AtLF(i, b, n) /\ ~AtCut(i, b)
    BY <1>1 DEF InText, AtLF, AtCut, Other
  <2>2. AtCR(i, b, n)
    BY <2>1 DEF Place
  <2>3. QED
    BY <2>2 DEF AtCR
<1>4. RowIs(r, i) /\ m \in Nat /\ r \in Requests
  BY Layout
<1>5. /\ e \in Nat /\ x = e + Len(r.eol) /\ x \in Nat /\ x <= m
      /\ \A j \in 1..Len(r.eol) : M[e + j] = r.eol[j]
  BY <1>4 DEF RowIs
<1>6. q \in Nat /\ q <= n /\ n \in Nat /\ n <= m /\ n <= Len(Message(r))
  BY <1>2, <1>3, <1>4, <1>5
<1>7. line' = Append(Piece(r, b, e), "LF")
  BY <1>1, <1>3
<1>8. rest = <<>> <=> q = n
  <2>1. PieceIs(r, q, n)
    <3> HIDE DEF q, r
    <3>1. QED
      BY <1>4, <1>6, Pieces
  <2> HIDE DEF q, r
  <2>2. QED
    BY <1>3, <2>1 DEF PieceIs
<1>9. CASE rest # <<>>
  <2>1. rest' = IF Head(rest) = "LF" THEN Tail(rest) ELSE rest
    <3>2. (rest # <<>> /\ rest' = (IF Head(rest) = "LF" THEN Tail(rest) ELSE rest) /\ UNCHANGED accident)
          \/ (Fails /\ accident' = (accident \/ rest # <<>>) /\ UNCHANGED rest)
      BY Zenon DEF Peek
    <3>3. ~(accident' = (accident \/ rest # <<>>))
      BY <1>9, Zenon
    <3>4. QED
      BY <3>2, <3>3, Zenon
  <2>2. q < n
    BY <1>6, <1>8, <1>9
  <2>3. Head(rest) = M[q + 1] /\ Tail(rest) = Piece(r, q + 1, n)
    <3> HIDE DEF q, r
    <3>1. q <= q
      BY <1>6
    <3>2. Head(Piece(r, q, n)) = Message(r)[q + 1] /\ Tail(Piece(r, q, n)) = Piece(r, q + 1, n)
      <4>1. /\ r \in Requests /\ q \in Nat /\ n \in Nat /\ n <= Len(Message(r))
        BY <1>4, <1>6
      <4>2. QED
        BY <2>2, <3>1, <4>1, PieceNext
    <3>3. QED
      BY <1>3, <3>2
  <2>4. x <= n /\ rest' = Piece(r, x, n)
    <3>1. CASE r.eol = <<"CR", "LF">>
      <4>1. Len(r.eol) = 2 /\ r.eol[2] = "LF" /\ 2 \in 1..Len(r.eol)
        BY <3>1
      <4>2. x = q + 1 /\ e + 2 = q + 1
        BY <1>5, <4>1
      <4>3. M[q + 1] = "LF"
        BY <1>5, <4>1, <4>2
      <4>4. rest' = Piece(r, q + 1, n)
        BY <2>1, <2>3, <4>3
      <4>5. QED
        BY <1>6, <2>2, <4>2, <4>4
    <3>2. CASE r.eol = <<"CR">>
      <4>1. Len(r.eol) = 1
        BY <3>2
      <4>2. x = q
        BY <1>5, <4>1
      <4>3. x < Len(Message(r))
        BY <1>6, <2>2, <4>2
      <4>4. M[x + 1] # "LF"
        BY <1>4, <3>2, <4>3, LoneCR
      <4>5. rest' = rest
        BY <2>1, <2>3, <4>2, <4>4
      <4>6. QED
        BY <1>3, <1>6, <4>2, <4>5
    <3>3. QED
      BY <1>3, <3>1, <3>2
  <2>5. AtLF(i, b, n)'
    BY <1>1, <1>3, <1>7, <2>4 DEF AtLF, r, e, x
  <2>6. QED
    BY <1>1, <1>2, <2>5 DEF Place
<1>10. CASE rest = <<>>
  <2>1. socket # "open" /\ rest' = rest
    <3>1. (rest # <<>> /\ rest' = (IF Head(rest) = "LF" THEN Tail(rest) ELSE rest) /\ UNCHANGED accident)
          \/ (Fails /\ accident' = (accident \/ rest # <<>>) /\ UNCHANGED rest)
      BY Zenon DEF Peek
    <3>2. Fails /\ rest' = rest
      BY <1>10, <3>1, Zenon
    <3>3. QED
      BY <3>2 DEF Fails
  <2>2. AtCut(i, b)'
    BY <1>1, <1>7, <1>10, <2>1 DEF AtCut
  <2>3. QED
    BY <1>1, <1>2, <2>2 DEF Place
<1>11. QED
  BY <1>9, <1>10

\* The connection is lost or shut down, and of what was under way only the
\* beginning arrives, or nothing.
LEMMA LostPlace ==
  ASSUME NEW i \in Lines(request), NEW b, NEW n, request \in Requests, Begins(i, b), Place(i, b, n),
         request' = request, line' = line, c' = c, socket' = "shut",
         NEW k \in 0..Len(rest), rest' = SubSeq(rest, 1, k)
  PROVE  \E nn \in 0..Len(Message(request)) : Place(i, b, nn)'
<1> DEFINE r == request
           e == LineEnd(r, i)
           x == NextAt(r, i)
           m == Len(Message(r))
<1>1. b \in Nat /\ b <= e /\ e \in Nat /\ m \in Nat /\ e <= m
  BY Began
<1>2. n \in Nat /\ n <= m /\ n <= Len(Message(r))
  BY <1>1 DEF Place
<1>3. x \in Nat /\ x <= m
  BY Layout DEF RowIs
<1>4. \A p \in Nat : p <= n /\ rest = Piece(r, p, n)
                     => p + k \in Nat /\ p <= p + k /\ p + k <= n /\ p + k \in 0..m /\ rest' = Piece(r, p, p + k)
  <2> SUFFICES ASSUME NEW p \in Nat, p <= n, rest = Piece(r, p, n)
               PROVE  p + k \in Nat /\ p <= p + k /\ p + k <= n /\ p + k \in 0..m /\ rest' = Piece(r, p, p + k)
    OBVIOUS
  <2>1. k \in 0..Len(Piece(r, p, n))
    OBVIOUS
  <2> HIDE DEF r, m
  <2>2. p + k \in Nat /\ p + k <= n /\ SubSeq(Piece(r, p, n), 1, k) = Piece(r, p, p + k)
    BY <1>2, <2>1, PieceCut DEF r
  <2>3. k \in Nat
    <3>1. Len(rest) \in Int
      <4>1. PieceIs(r, p, n)
        BY <1>2, Pieces DEF r
      <4>2. QED
        BY <1>2, <4>1 DEF PieceIs
    <3>2. QED
      BY <3>1
  <2>4. QED
    BY <1>1, <1>2, <2>2, <2>3
<1> HIDE DEF m
<1>5. CASE InText(i, b, n)
  <2>1. PICK p \in b..n : p <= e /\ p - b <= Full /\ line = Piece(r, b, p) /\ rest = Piece(r, p, n)
    BY <1>5 DEF InText
  <2>2. p \in Nat /\ p <= n
    BY <1>1, <1>2, <2>1
  <2> DEFINE q == p + k
  <2>3. q \in Nat /\ p <= q /\ q \in 0..m /\ rest' = Piece(r, p, q)
    BY <1>4, <2>1, <2>2
  <2> HIDE DEF q
  <2>4. p \in b..q
    BY <1>1, <2>1, <2>2, <2>3
  <2>5. InText(i, b, q)'
    <3>1. p <= LineEnd(request', i) /\ p - b <= Full /\ line' = Piece(request', b, p) /\ rest' = Piece(request', p, q)
      BY <2>1, <2>3
    <3>2. c' = Other
      BY <1>5 DEF InText
    <3>3. QED
      BY <2>4, <3>1, <3>2 DEF InText
  <2>6. QED
    BY <2>3, <2>5 DEF Place, m
<1>6. CASE AtCR(i, b, n)
  <2> DEFINE p == e + 1
  <2>1. /\ c = "CR" /\ r.eol \in {<<"CR", "LF">>, <<"CR">>} /\ e < n /\ e - b < Full
        /\ line = Piece(r, b, e) /\ rest = Piece(r, p, n)
    BY <1>6 DEF AtCR
  <2>2. p \in Nat /\ p <= n
    BY <1>1, <1>2, <2>1
  <2> HIDE DEF p
  <2>3. PICK q \in 0..m : q \in Nat /\ p <= q /\ rest' = Piece(r, p, q)
    BY <1>4, <2>1, <2>2
  <2>4. e < q
    BY <1>1, <2>2, <2>3 DEF p
  <2>5. AtCR(i, b, q)'
    BY <2>1, <2>3, <2>4 DEF AtCR, p
  <2>6. QED
    BY <2>3, <2>5 DEF Place, m
<1>7. CASE AtLF(i, b, n)
  <2>1. /\ c = "LF" /\ x <= n /\ e - b < Full
        /\ line = Append(Piece(r, b, e), "LF") /\ rest = Piece(r, x, n)
    BY <1>7 DEF AtLF
  <2> HIDE DEF x
  <2>3. PICK q \in 0..m : q \in Nat /\ x <= q /\ rest' = Piece(r, x, q)
    BY <1>3, <1>4, <2>1
  <2>5. AtLF(i, b, q)'
    BY <2>1, <2>3 DEF AtLF, x
  <2>6. QED
    BY <2>3, <2>5 DEF Place, m
<1>8. CASE AtCut(i, b)
  <2>1. rest' = <<>>
    <3>1. rest = <<>> /\ Len(rest) = 0
      BY <1>8, EmptySeq DEF AtCut
    <3>2. k = 0
      BY <3>1
    <3>3. SubSeq(rest, 1, 0) = <<>>
      BY SubSeqEmpty
    <3>4. QED
      BY <3>2, <3>3
  <2>2. AtCut(i, b)'
    BY <1>8, <2>1 DEF AtCut
  <2>3. n \in 0..m
    BY <1>2 DEF m
  <2>4. QED
    BY <2>2, <2>3 DEF Place, m
<1>9. QED
  BY <1>5, <1>6, <1>7, <1>8 DEF Place

LEMMA NonblockingPlace ==
  ASSUME NEW i, NEW b, NEW n, Place(i, b, n), SetNonblocking
  PROVE  Place(i, b, n)'
<1>1. /\ request' = request /\ line' = line /\ c' = c /\ rest' = rest
      /\ socket = "open" /\ socket' = "nonblocking"
  BY DEF SetNonblocking
<1>2. InText(i, b, n)' <=> InText(i, b, n)
  BY <1>1 DEF InText
<1>3. AtCR(i, b, n)' <=> AtCR(i, b, n)
  BY <1>1 DEF AtCR
<1>4. AtLF(i, b, n)' <=> AtLF(i, b, n)
  BY <1>1 DEF AtLF
<1>5. ~AtCut(i, b)
  BY <1>1 DEF AtCut
<1>6. QED
  BY <1>1, <1>2, <1>3, <1>4, <1>5 DEF Place
-----------------------------------------------------------------------------
(* The end of a line. *)

\* Where a call of get_line can end: at a full buffer, behind the line, or
\* where nothing more comes.
FullBuffer(i, b, n) ==
  /\ b + Full <= LineEnd(request, i) /\ b + Full <= n
  /\ line = Piece(request, b, b + Full) /\ rest = Piece(request, b + Full, n)

LEMMA LineEnds ==
  ASSUME NEW i \in Lines(request), NEW b, NEW n, request \in Requests, Begins(i, b), Place(i, b, n),
         LineDone, Len(line) <= Full
  PROVE  FullBuffer(i, b, n) \/ AtLF(i, b, n) \/ AtCut(i, b)
<1> SUFFICES ASSUME ~AtLF(i, b, n), ~AtCut(i, b) PROVE FullBuffer(i, b, n)
  OBVIOUS
<1>1. c # "CR" /\ (c # "LF" => ~(Len(line) < Full))
  BY DEF LineDone, Room, Full
<1>2. InText(i, b, n)
  BY <1>1 DEF Place, AtCR
<1>3. PICK p \in b..n : /\ p <= LineEnd(request, i) /\ p - b <= Full
                        /\ line = Piece(request, b, p) /\ rest = Piece(request, p, n)
  BY <1>2 DEF InText
<1>4. b \in Nat /\ LineEnd(request, i) \in Nat /\ LineEnd(request, i) <= Len(Message(request))
      /\ Len(Message(request)) \in Nat
  BY Began
<1>5. p \in Nat /\ b <= p /\ p <= Len(Message(request))
  BY <1>3, <1>4
<1>6. Len(line) = p - b
  <2>1. PieceIs(request, b, p)
    BY <1>4, <1>5, Pieces
  <2>2. QED
    BY <1>3, <2>1 DEF PieceIs
<1>7. c = Other
  BY <1>2 DEF InText
<1>8. p = b + Full
  <2>1. ~(p - b < Full)
    BY <1>1, <1>6, <1>7 DEF Other
  <2>2. QED
    BY <1>3, <1>4, <1>5, <2>1, FullNat
<1>9. p <= n
  BY <1>3, <1>4
<1>10. QED
  BY <1>3, <1>8, <1>9 DEF FullBuffer

\* A full buffer: the rest of the line is taken for another line.
LEMMA NextBuffer ==
  ASSUME NEW i \in Lines(request), NEW b, NEW n, request \in Requests, Begins(i, b), Place(i, b, n),
         FullBuffer(i, b, n), NextLine, request' = request, rest' = rest, socket' = socket
  PROVE  /\ Begins(i, b + Full)' /\ Place(i, b + Full, n)' /\ b + Full \in Nat /\ b + Full # 0
         /\ b + Full \in LineAt(request, i)..LineEnd(request, i)
<1>1. /\ b \in Nat /\ LineEnd(request, i) \in Nat /\ LineAt(request, i) \in Nat
      /\ LineAt(request, i) <= b
      /\ LineEnd(request, i) <= Len(Message(request)) /\ Len(Message(request)) \in Nat
  BY Began
<1>2. n \in Nat /\ n \in 0..Len(Message(request)) /\ (socket # "shut" => n = Len(Message(request)))
  BY <1>1 DEF Place
<1>3. /\ b + Full <= LineEnd(request, i) /\ b + Full <= n /\ rest = Piece(request, b + Full, n)
  BY DEF FullBuffer
<1> DEFINE q == b + Full
<1>4. q \in Nat /\ q # 0 /\ q <= n /\ q <= LineEnd(request, i) /\ q <= Len(Message(request)) /\ LineAt(request, i) <= q
  BY <1>1, <1>2, <1>3, FullNat
<1>5. Begins(i, q)
  <2>1. PICK t \in Nat : b = LineAt(request, i) + t * Full
    BY DEF Begins
  <2>2. t * Full \in Nat /\ (t + 1) * Full = t * Full + Full /\ t + 1 \in Nat
    BY FullNat
  <2>3. q = LineAt(request, i) + (t + 1) * Full
    BY <1>1, <2>1, <2>2, FullNat
  <2>4. QED
    BY <1>4, <2>2, <2>3 DEF Begins
<1> HIDE DEF q
<1>6. PieceIs(request, q, q)
  BY <1>4, Pieces
<1>7. line' = Piece(request, q, q) /\ c' = Other
  BY <1>4, <1>6 DEF PieceIs, NextLine
<1>8. rest' = Piece(request, q, n)
  BY <1>3 DEF q
<1>9. q \in q..n /\ q - q <= Full
  BY <1>2, <1>4, FullNat
<1>10. InText(i, q, n)'
  BY <1>4, <1>7, <1>8, <1>9 DEF InText
<1>11. Place(i, q, n)'
  BY <1>2, <1>10 DEF Place
<1>12. Begins(i, q)'
  BY <1>5 DEF Begins
<1>13. q \in LineAt(request, i)..LineEnd(request, i)
  BY <1>1, <1>4
<1>14. QED
  BY <1>4, <1>11, <1>12, <1>13 DEF q

\* Behind a line: the next one.
LEMMA NextPlace ==
  ASSUME NEW i \in Lines(request), NEW b, NEW n, request \in Requests, Begins(i, b), Place(i, b, n),
         AtLF(i, b, n), i <= Len(Written(request)),
         NextLine, request' = request, rest' = rest, socket' = socket,
         NEW y, y = NextAt(request, i)
  PROVE  /\ i + 1 \in Lines(request) /\ Begins(i + 1, y)' /\ Place(i + 1, y, n)'
         /\ y \in LineAt(request, i + 1)..LineEnd(request, i + 1) /\ y \in Nat
<1> DEFINE j == i + 1
           a == LineAt(request, j)
           e == LineEnd(request, j)
<1>1. j \in Lines(request) /\ y = a
  BY NextLineAt
<1>2. a \in Nat /\ e \in Nat /\ a <= e /\ Len(Message(request)) \in Nat
  BY <1>1, LinePiece
<1>3. /\ n \in 0..Len(Message(request)) /\ (socket # "shut" => n = Len(Message(request)))
      /\ y <= n /\ rest = Piece(request, y, n)
  BY DEF Place, AtLF
<1>4. y \in Nat /\ n \in Nat /\ y <= e /\ y <= Len(Message(request))
  BY <1>1, <1>2, <1>3
<1>5. Begins(j, y)
  <2>1. 0 * Full = 0
    BY FullNat
  <2>2. y = a + 0 * Full /\ y <= e
    BY <1>1, <1>2, <2>1
  <2>3. QED
    BY <2>2 DEF Begins
<1> HIDE DEF j
<1>6. PieceIs(request, y, y)
  BY <1>4, Pieces
<1>7. line' = Piece(request, y, y) /\ c' = Other
  BY <1>4, <1>6 DEF PieceIs, NextLine
<1>8. y \in y..n /\ y - y <= Full
  BY <1>3, <1>4, FullNat
<1>9. InText(j, y, n)'
  BY <1>3, <1>4, <1>7, <1>8 DEF InText
<1>10. Place(j, y, n)'
  BY <1>3, <1>9 DEF Place
<1>11. Begins(j, y)'
  BY <1>5 DEF Begins
<1>12. y \in a..e
  BY <1>1, <1>2, <1>4
<1>13. QED
  BY <1>1, <1>4, <1>10, <1>11, <1>12 DEF j

\* The length of a line that ends at a full buffer.
LEMMA FullLines ==
  ASSUME NEW i \in Lines(request), NEW b, request \in Requests, Begins(i, b),
         LineEnd(request, i) - b < Full
  PROVE  Len(Line(request, i)) % Full = 0 <=> b = LineEnd(request, i)
<1> DEFINE a == LineAt(request, i)
           e == LineEnd(request, i)
           l == Len(Line(request, i))
           d == e - b
<1>1. RowIs(request, i)
  BY Layout
<1>2. a \in Nat /\ e = a + l /\ l \in Nat /\ e \in Nat
  BY <1>1 DEF RowIs
<1>3. PICK t \in Nat : b = a + t * Full /\ b <= e
  BY DEF Begins
<1>4. b \in Nat
  BY Began
<1> HIDE DEF a, e, l
<1>5. e - b < Full
  BY DEF e
<1>6. t * Full \in Nat
  BY FullNat
<1>7. d \in 0..(Full - 1) /\ l = t * Full + d /\ (d = 0 <=> b = e)
  BY <1>2, <1>3, <1>4, <1>5, <1>6, FullNat
<1> HIDE DEF d
<1>8. CASE d = 0
  <2>1. (t * Full) % Full = 0
    BY FullNat
  <2>2. l = t * Full
    BY <1>6, <1>7, <1>8
  <2>3. QED
    BY <1>7, <1>8, <2>1, <2>2 DEF l, e
<1>9. CASE d # 0
  <2>1. d \in 1..(Full - 1)
    BY <1>7, <1>9
  <2>2. (t * Full + d) % Full # 0
    BY <2>1, FullNat
  <2>3. QED
    BY <1>7, <1>9, <2>2 DEF l, e
<1>10. QED
  BY <1>8, <1>9

\* What is in the buffer behind a line.
LEMMA FullOrEmpty ==
  ASSUME NEW i \in Lines(request), NEW b, request \in Requests, Begins(i, b),
         line = Append(Piece(request, b, LineEnd(request, i)), "LF")
  PROVE  line # <<>> /\ (line = <<"LF">> <=> b = LineEnd(request, i))
<1> DEFINE e == LineEnd(request, i)
           p == Piece(request, b, e)
<1>1. b \in Nat /\ b <= e /\ e \in Nat /\ e <= Len(Message(request)) /\ Len(Message(request)) \in Nat
  BY Began
<1>2. p \in Seq(Symbols) /\ Len(p) = e - b /\ "LF" \in Symbols
  <2>1. PieceIs(request, b, e)
    BY <1>1, Pieces
  <2>2. QED
    BY <2>1, Asks DEF PieceIs
<1> HIDE DEF p
<1>3. Len(line) = Len(p) + 1 /\ line \in Seq(Symbols) /\ line = Append(p, "LF")
  <2>1. line = Append(p, "LF")
    BY DEF p
  <2> DEFINE s == Append(p, "LF")
  <2>2. s \in Seq(Symbols) /\ Len(s) = Len(p) + 1
    BY <1>2, AppendProperties
  <2>3. QED
    BY <2>1, <2>2
<1> HIDE DEF e
<1>4. Len(line) # 0
  BY <1>1, <1>2, <1>3
<1>5. line # <<>>
  BY <1>3, <1>4, EmptySeq
<1>6. line = <<"LF">> => b = e
  <2>1. Len(<<"LF">>) = 1
    OBVIOUS
  <2>2. line = <<"LF">> => Len(line) = 1
    BY <2>1
  <2>3. QED
    BY <1>1, <1>2, <1>3, <2>2
<1>7. b = e => line = <<"LF">>
  <2>1. b = e => p = <<>>
    BY <1>1, <1>2, EmptySeq
  <2>2. Append(<<>>, "LF") = <<"LF">>
    OBVIOUS
  <2>3. QED
    BY <1>3, <2>1, <2>2
<1>8. QED
  BY <1>5, <1>6, <1>7 DEF e
-----------------------------------------------------------------------------
(* The end of the head. *)

\* No line end is in a line.
LEMMA TextByte ==
  ASSUME NEW r \in Requests, NEW i \in Lines(r), NEW p \in Nat, LineAt(r, i) <= p, p < LineEnd(r, i)
  PROVE  Message(r)[p + 1] \in Text
<1> DEFINE a == LineAt(r, i)
           l == Len(Line(r, i))
           M == Message(r)
<1>1. RowIs(r, i)
  BY Layout
<1>2. a \in Nat /\ l \in Nat /\ LineEnd(r, i) = a + l /\ \A j \in 1..l : M[a + j] = Line(r, i)[j] /\ Line(r, i)[j] \in Text
  BY <1>1 DEF RowIs
<1> DEFINE j == (p + 1) - a
<1> HIDE DEF l, M
<1>3. j \in 1..l /\ a + j = p + 1
  BY <1>2
<1> HIDE DEF j
<1>4. M[a + j] \in Text
  BY <1>2, <1>3
<1>5. QED
  BY <1>3, <1>4 DEF M

\* A full buffer is not taken for the empty line.
LEMMA FullNotEmpty ==
  ASSUME NEW i \in Lines(request), NEW b, NEW n, request \in Requests, Begins(i, b), FullBuffer(i, b, n)
  PROVE  line \notin {<<>>, <<"LF">>}
<1> DEFINE q == b + Full
<1>1. /\ b \in Nat /\ LineAt(request, i) <= b /\ LineEnd(request, i) \in Nat /\ LineEnd(request, i) <= Len(Message(request))
      /\ Len(Message(request)) \in Nat
  BY Began
<1>2. q <= LineEnd(request, i) /\ line = Piece(request, b, q)
  BY DEF FullBuffer
<1>3. q \in Nat /\ b <= q /\ q <= Len(Message(request)) /\ b < LineEnd(request, i) /\ q - b = Full
  BY <1>1, <1>2, FullNat
<1> HIDE DEF q
<1>4. PieceIs(request, b, q)
  BY <1>1, <1>3, Pieces
<1>5. Len(line) = Full /\ line[1] = Message(request)[b + 1]
  <2>1. 1 \in 1..(q - b)
    BY <1>3, FullNat
  <2>2. QED
    BY <1>2, <1>3, <1>4, <2>1 DEF PieceIs
<1>6. Message(request)[b + 1] \in Text
  BY <1>1, <1>3, TextByte
<1>7. line # <<>>
  BY <1>5, EmptySeq, FullNat
<1>8. line # <<"LF">>
  <2>1. "LF" \notin Text /\ <<"LF">>[1] = "LF"
    BY Asks
  <2>2. QED
    BY <1>5, <1>6, <2>1
<1>9. QED
  BY <1>7, <1>8

\* The end of the head: it is where the client ended it, or a line took whole
\* buffers.
LEMMA EndIsRight ==
  ASSUME TInv, Progress, EndOfHead
  PROVE  HeadEndsAtEmptyLine'
<1> DEFINE r == request
           N == Len(Written(r))
           m == Len(Message(r))
<1> SUFFICES ASSUME socket' = "open" PROVE (rest = r.body <=> \A i \in 1..N : Len(Written(r)[i]) % Full # 0)
  <2>1. request' = request /\ rest' = rest
    BY DEF EndOfHead
  <2>2. DOMAIN Written(request) = 1..N
    BY WrittenTyped, LenProperties DEF TInv
  <2>3. QED
    BY <2>1, <2>2 DEF HeadEndsAtEmptyLine, Full
<1>1. /\ request \in Requests /\ Len(line) <= Full /\ socket = "open" /\ ~accident /\ pc = "header"
      /\ LineDone /\ line \in {<<>>, <<"LF">>}
  <2>1. socket = "open" /\ pc = "header" /\ LineDone /\ line \in {<<>>, <<"LF">>}
    BY DEF EndOfHead
  <2>2. request \in Requests /\ Len(line) <= Full /\ (accident => socket # "open")
    BY DEF TInv
  <2>3. QED
    BY <2>1, <2>2, Zenon
<1>2. PICK i \in Lines(r), n \in 0..m : \E b \in LineAt(r, i)..LineEnd(r, i) : Within(i, b, n)
  BY <1>1 DEF Progress, Parsing, Reading, Dry
<1>21. PICK b \in LineAt(r, i)..LineEnd(r, i) : Within(i, b, n)
  BY <1>2
<1>3. Begins(i, b) /\ Whole(i) /\ Place(i, b, n)
  BY <1>21 DEF Within, Settled
<1>4. AtLF(i, b, n)
  <2>1. ~FullBuffer(i, b, n)
    BY <1>1, <1>3, FullNotEmpty
  <2>2. ~AtCut(i, b)
    BY <1>1 DEF AtCut
  <2>3. QED
    BY <1>1, <1>3, <2>1, <2>2, LineEnds
<1>5. n = m /\ rest = Piece(r, NextAt(r, i), m) /\ NextAt(r, i) <= n /\ LineEnd(r, i) - b < Full
  BY <1>1, <1>3, <1>4 DEF AtLF, Place
<1>6. Len(Line(r, i)) % Full = 0
  <2>1. b = LineEnd(r, i)
    BY <1>1, <1>3, <1>4, FullOrEmpty DEF AtLF
  <2>2. QED
    BY <1>1, <1>3, <1>5, <2>1, FullLines
<1>7. N \in Nat /\ i \in 1..(N + 1) /\ m \in Nat
  BY <1>1, RowsTyped, Layout DEF Lines
<1>8. CASE i = N + 1
  <2>1. rest = r.body
    BY <1>1, <1>5, <1>8, BodyAt
  <2>2. \A j \in 1..N : Len(Line(r, j)) % Full # 0
    BY <1>3, <1>7, <1>8 DEF Whole
  <2>3. \A j \in 1..N : Line(r, j) = Written(r)[j]
    BY DEF Line
  <2>4. QED
    BY <2>1, <2>2, <2>3
<1>9. CASE i # N + 1
  <2>1. i \in 1..N /\ Line(r, i) = Written(r)[i]
    BY <1>7, <1>9 DEF Line
  <2> DEFINE x == NextAt(r, i)
             z == NextAt(r, N + 1)
  <2>2. RowIs(r, i) /\ RowIs(r, N + 1) /\ N + 1 \in Lines(r)
    BY <1>1, <1>7, Layout DEF Lines
  <2>3. x \in Nat /\ x <= m /\ z \in Nat /\ z <= m
    BY <2>2 DEF RowIs
  <2>4. x < z
    <3>1. x = Len(Layers(Rows(r), i)) /\ z = LineEnd(r, N + 1) + Len(r.eol) /\ LineEnd(r, N + 1) \in Nat
          /\ LineEnd(r, N + 1) = LineAt(r, N + 1) + Len(Line(r, N + 1)) /\ LineAt(r, N + 1) \in Nat
          /\ Len(Line(r, N + 1)) \in Nat
      BY <2>2 DEF RowIs
    <3>2. Rows(r) \in Seq(Seq(Symbols)) /\ Len(Rows(r)) = N + 1
      BY <1>1, RowsTyped
    <3>3. (N + 1) - 1 = N /\ i <= N /\ N <= N + 1 /\ i \in Nat
      BY <1>7, <2>1
    <3>4. Len(Layers(Rows(r), i)) <= Len(Layers(Rows(r), N))
      BY <1>7, <3>2, <3>3, LayersLonger
    <3>5. LineAt(r, N + 1) = Len(Layers(Rows(r), N))
      BY <3>3 DEF LineAt
    <3>6. Len(r.eol) \in {1, 2}
      BY <1>1, Asks
    <3> DEFINE a == LineAt(r, N + 1)
               e == LineEnd(r, N + 1)
               l == Len(Line(r, N + 1))
               h == Len(r.eol)
    <3>7. x <= a /\ z = e + h /\ e = a + l /\ a \in Nat /\ e \in Nat /\ l \in Nat /\ h \in {1, 2}
      BY <3>1, <3>4, <3>5, <3>6
    <3> HIDE DEF a, e, l, h, x, z
    <3>8. QED
      BY <2>3, <3>7
  <2>5. Len(rest) = m - x
    <3> HIDE DEF r
    <3>1. PieceIs(r, x, m)
      BY <1>1, <1>7, <2>3, Pieces DEF r
    <3>2. QED
      BY <1>5, <3>1 DEF PieceIs
  <2>6. Len(r.body) = m - z
    <3> HIDE DEF r
    <3>1. PieceIs(r, z, m)
      BY <1>1, <1>7, <2>3, Pieces DEF r
    <3>2. Piece(r, z, m) = r.body
      BY <1>1, BodyAt DEF r
    <3>3. QED
      BY <3>1, <3>2 DEF PieceIs
  <2>7. rest # r.body
    <3> HIDE DEF x, z, m, r, N
    <3>1. m - x # m - z
      BY <1>7, <2>3, <2>4
    <3>2. QED
      BY <2>5, <2>6, <3>1
  <2>8. QED
    BY <1>6, <2>1, <2>7
<1>10. QED
  BY <1>8, <1>9
-----------------------------------------------------------------------------
(* Decoding a path. *)

\* Decoding what the characters of a path are written as gives their meanings,
\* and a character that is cut off gives nothing.
Meanings(s) == [i \in DOMAIN s |-> Meaning(s[i])]
Broken(t)   == t = <<>> \/ (Len(t) \in {1, 2} /\ t[1] = "%")

LEMMA MeaningsTyped ==
  ASSUME NEW s \in Seq(PathChar)
  PROVE  /\ s \in Seq(Seq(Symbols)) /\ Meanings(s) \in Seq(Seq(Symbols)) /\ Len(Meanings(s)) = Len(s) /\ Len(s) \in Nat
         /\ \A i \in 1..Len(s) : /\ Meanings(s)[i] = Meaning(s[i]) /\ s[i] \in PathChar
                                 /\ Meaning(s[i]) \in Seq(Symbols) /\ s[i] \in Seq(Symbols)
<1>1. Len(s) \in Nat /\ DOMAIN s = 1..Len(s) /\ s = [i \in 1..Len(s) |-> s[i]] /\ \A i \in 1..Len(s) : s[i] \in PathChar
  BY LenProperties, ElementOfSeq
<1>2. \A i \in 1..Len(s) : Meaning(s[i]) \in Seq(Symbols) /\ s[i] \in Seq(Symbols)
  BY <1>1, PathChars
<1>3. s \in [1..Len(s) -> Seq(Symbols)]
  BY <1>1, <1>2
<1>4. Meanings(s) = [i \in 1..Len(s) |-> Meaning(s[i])]
  BY <1>1 DEF Meanings
<1>5. Meanings(s) \in [1..Len(s) -> Seq(Symbols)]
  BY <1>2, <1>4
<1>6. s \in Seq(Seq(Symbols))
  BY <1>1, <1>3
<1>7. Meanings(s) \in Seq(Seq(Symbols)) /\ Len(Meanings(s)) = Len(s)
  BY <1>1, <1>5
<1>8. QED
  BY <1>1, <1>2, <1>4, <1>6, <1>7

\* One character.
Steps(f, u) == \A i \in 1..(Len(u) + 2) : f[i] = Decoded(f, u, i)

\* What decoding gives from character j on is its meaning and what follows.
UrlBack(f, s, j) == f[Len(Layers(s, j - 1)) + 1] = Meaning(s[j]) \o f[Len(Layers(s, j)) + 1]

LEMMA UrlStep ==
  ASSUME NEW s \in Seq(PathChar), NEW t, NEW u, NEW f, u = FlattenSeq(s) \o t, t \in Seq(Symbols),
         Steps(f, u),
         NEW j \in 1..Len(s), f[Len(Layers(s, j)) + 1] \in Seq(Symbols)
  PROVE  UrlBack(f, s, j)
<1> SUFFICES f[Len(Layers(s, j - 1)) + 1] = Meaning(s[j]) \o f[Len(Layers(s, j)) + 1]
  BY DEF UrlBack
<1> DEFINE a == Len(Layers(s, j - 1))
           ch == s[j]
           l == Len(ch)
           w == FlattenSeq(s)
           z == Len(w)
           n == Len(u)
           rest_of == f[Len(Layers(s, j)) + 1]
<1>1. s \in Seq(Seq(Symbols)) /\ ch \in PathChar /\ Meaning(ch) \in Seq(Symbols)
  BY MeaningsTyped
<1>2. /\ a \in Nat /\ l \in Nat /\ z \in Nat /\ Len(Layers(s, j)) = a + l /\ a + l <= z
      /\ \A h \in 1..l : w[a + h] = ch[h]
  <2>1. /\ a \in Nat /\ l \in Nat /\ z \in Nat /\ Len(Layers(s, j)) = a + l /\ Len(Layers(s, j)) <= z
        /\ \A h \in 1..l : w[a + h] = ch[h]
    BY <1>1, LayerBytes
  <2>2. QED
    BY <2>1
<1>3. Glued(Symbols, u, w, t)
  <2>1. w \in Seq(Symbols)
    BY <1>1, LayersAll
  <2> HIDE DEF w
  <2>2. QED
    BY <2>1, Glue DEF w
<1>4. n = z + Len(t) /\ (\A h \in 1..z : u[h] = w[h]) /\ Len(t) \in Nat
  BY <1>3, LenProperties DEF Glued
<1>5. Simple(ch) \/ Lost(ch) \/ Escaped(ch)
  BY <1>1, PathChars
<1>6. rest_of = f[a + l + 1] /\ rest_of \in Seq(Symbols)
  BY <1>2
<1> HIDE DEF a, ch, l, w, z, n, rest_of
<1>7. \A h \in 1..l : u[a + h] = ch[h]
  <2>1. \A h \in 1..l : a + h \in 1..z
    BY <1>2
  <2>2. QED
    BY <1>2, <1>4, <2>1
<1>8. l >= 1 => /\ a + 1 \in 1..(n + 2) /\ ~(a + 1 > n) /\ (l >= 3 => a + 1 + 2 <= n)
                /\ a + 1 + 1 = a + 2 /\ a + 1 + 2 = a + 3 /\ a + 1 + 3 = a + 4
  BY <1>2, <1>4
<1>9. \A i \in 1..(n + 2) : f[i] = Decoded(f, u, i)
  BY DEF n, Steps
<1>10. CASE Simple(ch)
  <2>1. l = 1 /\ ch[1] # "%" /\ Meaning(ch) = <<ch[1]>>
    BY <1>10 DEF Simple, l
  <2>2. u[a + 1] = ch[1]
    <3>1. 1 \in 1..l
      BY <2>1
    <3>2. QED
      BY <1>7, <3>1
  <2>3. f[a + 1] = <<u[a + 1]>> \o f[a + 1 + 1]
    <3>1. f[a + 1] = Decoded(f, u, a + 1)
      BY <1>8, <1>9, <2>1
    <3>2. ~(a + 1 > Len(u)) /\ u[a + 1] # "%"
      BY <1>8, <2>1, <2>2 DEF n
    <3>3. QED
      BY <3>1, <3>2 DEF Decoded
  <2>4. QED
    BY <1>6, <2>1, <2>2, <2>3 DEF a, ch, rest_of
<1>11. CASE Lost(ch)
  <2>1. l = 2 /\ ch[1] = "%" /\ ch[2] \notin HexDigit /\ Meaning(ch) = <<>>
    BY <1>11 DEF Lost, l
  <2>2. u[a + 1] = "%" /\ u[a + 2] \notin HexDigit
    <3>1. 1 \in 1..l /\ 2 \in 1..l
      BY <2>1
    <3>2. QED
      BY <1>7, <2>1, <3>1
  <2>3. f[a + 1] = f[a + 3]
    <3>1. f[a + 1] = Decoded(f, u, a + 1)
      BY <1>8, <1>9, <2>1
    <3>2. ~(a + 1 > Len(u)) /\ a + 1 + 1 = a + 2 /\ a + 1 + 2 = a + 3
      BY <1>8, <2>1 DEF n
    <3>3. ~({u[a + 1 + 1], u[a + 1 + 2]} \subseteq HexDigit)
      BY <2>2, <3>2
    <3>4. f[a + 1] = f[a + 1 + 2]
      BY <2>2, <3>1, <3>2, <3>3, Zenon DEF Decoded
    <3>5. QED
      BY <3>2, <3>4
  <2>4. a + l + 1 = a + 3
    BY <1>2, <2>1
  <2>5. <<>> \o rest_of = rest_of
    BY <1>6, ConcatEmptySeq
  <2>6. QED
    BY <1>6, <2>1, <2>3, <2>4, <2>5 DEF a, ch, rest_of
<1>12. CASE Escaped(ch)
  <2>1. l = 3 /\ ch[1] = "%" /\ {ch[2], ch[3]} \subseteq HexDigit /\ Meaning(ch) = Code[<<ch[2], ch[3]>>]
    BY <1>12 DEF Escaped, l
  <2>2. u[a + 1] = "%" /\ u[a + 2] = ch[2] /\ u[a + 3] = ch[3]
    <3>1. 1 \in 1..l /\ 2 \in 1..l /\ 3 \in 1..l
      BY <2>1
    <3>2. QED
      BY <1>7, <2>1, <3>1
  <2>3. f[a + 1] = Code[<<ch[2], ch[3]>>] \o f[a + 4]
    <3>1. f[a + 1] = Decoded(f, u, a + 1)
      BY <1>8, <1>9, <2>1
    <3>2. /\ ~(a + 1 > Len(u)) /\ a + 1 + 2 <= Len(u)
          /\ a + 1 + 1 = a + 2 /\ a + 1 + 2 = a + 3 /\ a + 1 + 3 = a + 4
      BY <1>8, <2>1 DEF n
    <3>3. u[a + 1 + 1] = ch[2] /\ u[a + 1 + 2] = ch[3]
      BY <2>2, <3>2
    <3>4. f[a + 1] = Code[<<ch[2], ch[3]>>] \o f[a + 1 + 3]
      BY <2>1, <2>2, <3>1, <3>2, <3>3, Zenon DEF Decoded
    <3>5. QED
      BY <3>2, <3>4
  <2>4. a + l + 1 = a + 4
    BY <1>2, <2>1
  <2>5. QED
    BY <1>6, <2>1, <2>3, <2>4 DEF a, ch, rest_of
<1>13. QED
  BY <1>5, <1>10, <1>11, <1>12

\* Behind the last whole character nothing is left.
LEMMA UrlLast ==
  ASSUME NEW s \in Seq(PathChar), NEW t, NEW u, NEW f, u = FlattenSeq(s) \o t, t \in Seq(Symbols), Broken(t), Steps(f, u)
  PROVE  f[Len(Layers(s, Len(s))) + 1] = <<>>
<1> DEFINE w == FlattenSeq(s)
           z == Len(w)
           n == Len(u)
           m == Len(t)
<1>1. w \in Seq(Symbols) /\ Layers(s, Len(s)) = w
  BY MeaningsTyped, LayersAll
<1> HIDE DEF w
<1>2. Glued(Symbols, u, w, t)
  BY <1>1, Glue DEF w
<1>3. z \in Nat /\ m \in Nat
  BY <1>1, LenProperties
<1>4. n = z + m /\ \A h \in 1..m : u[z + h] = t[h]
  BY <1>2 DEF Glued
<1>5. \A i \in 1..(n + 2) : f[i] = Decoded(f, u, i)
  BY DEF Steps
<1>6. \A i \in 1..(n + 2) : i > n => f[i] = <<>>
  BY <1>5 DEF Decoded
<1>7. t = <<>> => m = 0
  BY EmptySeq
<1>8. t # <<>> => m \in {1, 2} /\ t[1] = "%"
  BY DEF Broken
<1> HIDE DEF z, n, m
<1>9. CASE t = <<>>
  <2>1. z + 1 \in 1..(n + 2) /\ z + 1 > n
    BY <1>3, <1>4, <1>7, <1>9
  <2>2. QED
    BY <1>1, <1>6, <2>1 DEF z
<1>10. CASE t # <<>>
  <2>1. /\ z + 1 \in 1..(n + 2) /\ ~(z + 1 > n) /\ ~(z + 1 + 2 <= n) /\ 1 \in 1..m
        /\ z + 1 + 2 \in 1..(n + 2) /\ z + 1 + 2 > n
    BY <1>3, <1>4, <1>8, <1>10
  <2>2. u[z + 1] = "%"
    BY <1>4, <1>8, <1>10, <2>1
  <2>3. f[z + 1] = Decoded(f, u, z + 1)
    BY <1>5, <2>1
  <2>4. f[z + 1] = f[z + 1 + 2]
    BY <2>1, <2>2, <2>3 DEF Decoded, n
  <2>5. QED
    BY <1>1, <1>6, <2>1, <2>4 DEF z
<1>11. QED
  BY <1>9, <1>10

LEMMA Url ==
  ASSUME NEW s \in Seq(PathChar), NEW t \in Seq(Symbols), Broken(t)
  PROVE  urldecode(FlattenSeq(s) \o t) = FlattenSeq(Meanings(s))
<1> DEFINE u == FlattenSeq(s) \o t
           g == Meanings(s)
           n == Len(s)
<1>1. /\ s \in Seq(Seq(Symbols)) /\ g \in Seq(Seq(Symbols)) /\ Len(g) = n /\ n \in Nat
      /\ \A i \in 1..n : g[i] = Meaning(s[i]) /\ g[i] \in Seq(Symbols)
  BY MeaningsTyped
<1>2. u \in Seq(Symbols) /\ Len(u) \in Nat
  <2>1. FlattenSeq(s) \in Seq(Symbols)
    BY <1>1, LayersAll
  <2>2. u \in Seq(Symbols)
    BY <2>1, ConcatProperties
  <2>3. QED
    BY <2>2, LenProperties
<1>3. PICK f : urldecode(u) = f[1] /\ Steps(f, u)
  BY <1>2, UrlSteps DEF Steps
<1> DEFINE from(j) == f[Len(Layers(s, j)) + 1]
           Good(j) == from(j) \in Seq(Symbols) /\ Layers(g, j) \o from(j) = Layers(g, n)
           T == {d \in Nat : d <= n => Good(n - d)}
<1>4. \A j \in 0..n : Layers(g, j) \in Seq(Symbols)
  BY <1>1, LayersTyped
<1>5. Good(n)
  <2>1. from(n) = <<>>
    <3>1. u = FlattenSeq(s) \o t /\ t \in Seq(Symbols) /\ Broken(t)
      OBVIOUS
    <3> HIDE DEF u
    <3>2. QED
      BY <1>3, <3>1, UrlLast
  <2>2. <<>> \in Seq(Symbols) /\ Layers(g, n) \o <<>> = Layers(g, n)
    BY <1>1, <1>4, EmptySeq, ConcatEmptySeq
  <2>3. QED
    BY <2>1, <2>2
<1> HIDE DEF Good
<1>6. 0 \in T
  <2>1. n - 0 = n
    BY <1>1
  <2>2. QED
    BY <1>5, <2>1
<1>7. ASSUME NEW d \in Nat, d \in T PROVE d + 1 \in T
  <2> SUFFICES ASSUME d + 1 <= n PROVE Good(n - (d + 1))
    OBVIOUS
  <2> DEFINE j == n - d
             p == Layers(g, j - 1)
             q == Meaning(s[j])
             o == from(j)
  <2>1. j \in 1..n /\ n - (d + 1) = j - 1 /\ d <= n /\ j - 1 \in 0..n /\ j - 1 \in Nat /\ j - 1 < n /\ (j - 1) + 1 = j
    BY <1>1
  <2>2. Good(j)
    BY <1>7, <2>1
  <2>3. from(j - 1) = q \o o
    <3>1. u = FlattenSeq(s) \o t /\ t \in Seq(Symbols)
      OBVIOUS
    <3> HIDE DEF u, j
    <3>2. f[Len(Layers(s, j - 1)) + 1] = Meaning(s[j]) \o f[Len(Layers(s, j)) + 1]
      <4>1. f[Len(Layers(s, j)) + 1] \in Seq(Symbols) /\ j \in 1..Len(s)
        BY <2>1, <2>2 DEF Good
      <4>2. Steps(f, u)
        BY <1>3
      <4>3. UrlBack(f, s, j)
        BY <3>1, <4>1, <4>2, UrlStep
      <4>4. QED
        BY <4>3 DEF UrlBack
    <3>3. QED
      BY <3>2
  <2>4. p \in Seq(Symbols) /\ q \in Seq(Symbols) /\ o \in Seq(Symbols) /\ g[j] = q
    BY <1>1, <1>4, <2>1, <2>2 DEF Good
  <2>5. Layers(g, j) = p \o q
    <3> HIDE DEF g, j
    <3> DEFINE h == j - 1
    <3>1. h \in Nat /\ h < Len(g) /\ Layers(g, h) \in Seq(Symbols) /\ h + 1 = j
      BY <1>1, <2>1, <2>4
    <3> HIDE DEF h
    <3>2. Layers(g, h + 1) = Layers(g, h) \o g[h + 1]
      BY <1>1, <3>1, LayersNext
    <3>3. QED
      BY <2>4, <3>1, <3>2 DEF h
  <2> HIDE DEF p, q, o
  <2>6. (p \o q) \o o = p \o (q \o o)
    <3>1. Assoc(p, q, o)
      BY <2>4, ConcatTwice
    <3>2. QED
      BY <3>1, Zenon DEF Assoc
  <2>7. q \o o \in Seq(Symbols)
    BY <2>4, ConcatProperties
  <2>8. Layers(g, j) \o o = Layers(g, n)
    BY <2>2 DEF o, Good
  <2>9. p \o from(j - 1) = Layers(g, n)
    BY <2>3, <2>5, <2>6, <2>8
  <2>10. Good(j - 1)
    BY <2>3, <2>7, <2>9 DEF p, Good
  <2>11. QED
    BY <2>1, <2>10
<1>8. Nat \subseteq T
  <2> HIDE DEF T
  <2>1. QED
    BY <1>6, <1>7, Induction
<1>9. Good(0)
  <2>1. n \in T /\ n <= n /\ n - n = 0
    BY <1>1, <1>8
  <2>2. QED
    BY <2>1
<1>10. from(0) = f[1]
  BY LayersStart, EmptySeq
<1>11. <<>> \o from(0) = Layers(g, n)
  BY <1>9, LayersStart DEF Good
<1>12. from(0) = Layers(g, n)
  <2>1. <<>> \o from(0) = from(0)
    BY <1>9, ConcatEmptySeq DEF Good
  <2>2. QED
    BY <1>11, <2>1
<1>13. Layers(g, n) = FlattenSeq(g)
  BY <1>1, LayersAll
<1>14. QED
  BY <1>3, <1>10, <1>12, <1>13

\* A path that is cut off is decoded up to its last whole character.
LEMMA MeaningsCut ==
  ASSUME NEW s \in Seq(PathChar), NEW h \in 0..Len(s)
  PROVE  SubSeq(s, 1, h) \in Seq(PathChar) /\ Meanings(SubSeq(s, 1, h)) = SubSeq(Meanings(s), 1, h)
<1> DEFINE u == SubSeq(s, 1, h)
           g == Meanings(s)
           v == SubSeq(g, 1, h)
           w == Meanings(u)
<1>1. /\ g \in Seq(Seq(Symbols)) /\ Len(g) = Len(s) /\ Len(s) \in Nat
      /\ \A i \in 1..Len(s) : g[i] = Meaning(s[i])
  BY MeaningsTyped
<1>2. h \in Nat /\ h <= Len(s) /\ h <= Len(g)
  BY <1>1
<1>3. u \in Seq(PathChar) /\ Len(u) = h /\ \A i \in 1..h : u[i] = s[i]
  BY <1>2, CutFront
<1> HIDE DEF u, g
<1>4. v \in Seq(Seq(Symbols)) /\ Len(v) = h /\ \A i \in 1..h : v[i] = g[i]
  BY <1>1, <1>2, CutFront
<1>5. /\ w \in Seq(Seq(Symbols)) /\ Len(w) = Len(u) /\ \A i \in 1..Len(u) : w[i] = Meaning(u[i])
  BY <1>3, MeaningsTyped
<1> HIDE DEF v, w
<1>6. \A i \in 1..h : w[i] = v[i]
  <2> TAKE i \in 1..h
  <2>1. i \in 1..Len(s) /\ i \in 1..Len(u)
    BY <1>1, <1>2, <1>3
  <2>2. w[i] = Meaning(u[i]) /\ v[i] = g[i] /\ g[i] = Meaning(s[i]) /\ u[i] = s[i]
    BY <1>1, <1>3, <1>4, <1>5, <2>1
  <2>3. QED
    BY <2>2
<1>7. w = v
  <2>1. Len(w) = Len(v) /\ \A i \in 1..Len(w) : w[i] = v[i]
    BY <1>3, <1>4, <1>5, <1>6
  <2>2. QED
    BY <1>4, <1>5, <2>1, SeqEqual
<1>8. QED
  BY <1>3, <1>7 DEF u, v, w, g

LEMMA UrlCut ==
  ASSUME NEW s \in Seq(PathChar), NEW x \in 0..Len(FlattenSeq(s))
  PROVE  \E k \in 0..Len(s) : urldecode(SubSeq(FlattenSeq(s), 1, x)) = Layers(Meanings(s), k)
<1> DEFINE w == FlattenSeq(s)
           g == Meanings(s)
           n == Len(s)
<1>1. /\ s \in Seq(Seq(Symbols)) /\ g \in Seq(Seq(Symbols)) /\ Len(g) = n /\ n \in Nat
      /\ \A i \in 1..n : s[i] \in PathChar /\ s[i] \in Seq(Symbols)
  BY MeaningsTyped
<1>2. w \in Seq(Symbols) /\ Len(w) \in Nat
  BY <1>1, LayersAll, LenProperties
<1>3. ASSUME NEW h \in 0..n, NEW t \in Seq(Symbols), Broken(t)
      PROVE  urldecode(Layers(s, h) \o t) = Layers(g, h)
  <2> DEFINE u == SubSeq(s, 1, h)
  <2>1. u \in Seq(PathChar) /\ Meanings(u) = SubSeq(g, 1, h)
    BY MeaningsCut
  <2> HIDE DEF u
  <2>2. urldecode(FlattenSeq(u) \o t) = FlattenSeq(Meanings(u))
    BY <1>3, <2>1, Url
  <2>3. QED
    BY <2>1, <2>2 DEF Layers, u
<1>4. CASE x = Len(w)
  <2>1. SubSeq(w, 1, x) = w
    BY <1>2, <1>4, SubSeqFull
  <2>2. Layers(s, n) \o <<>> = w
    <3>1. Layers(s, n) = w
      BY <1>1, LayersAll
    <3> HIDE DEF w, n
    <3>2. QED
      BY <1>2, <3>1, ConcatEmptySeq
  <2>3. Broken(<<>>) /\ <<>> \in Seq(Symbols) /\ n \in 0..n
    BY <1>1, EmptySeq DEF Broken
  <2>4. urldecode(Layers(s, n) \o <<>>) = Layers(g, n)
    BY <1>3, <2>3
  <2> HIDE DEF w, g
  <2>5. QED
    BY <2>1, <2>2, <2>3, <2>4 DEF w, g
<1>5. CASE x # Len(w)
  <2>1. x \in Nat /\ x < Len(FlattenSeq(s))
    BY <1>2, <1>5
  <2>2. PICK k \in 1..n : Len(Layers(s, k - 1)) <= x /\ x < Len(Layers(s, k))
    BY <1>1, <2>1, LayerOf
  <2> DEFINE a == Len(Layers(s, k - 1))
             l == Len(s[k])
             y == x - a
             t == SubSeq(s[k], 1, y)
             h == k - 1
  <2>3. a \in Nat /\ l \in Nat /\ Len(Layers(s, k)) = a + l
    BY <1>1, LayerBytes
  <2>4. y \in Nat /\ y < l /\ y <= l /\ y \in 0..l /\ a + y = x
    <3>1. a <= x /\ x < Len(Layers(s, k))
      BY <2>2
    <3>2. y = x - a
      OBVIOUS
    <3> HIDE DEF a, l, y
    <3>3. x < a + l
      BY <2>3, <3>1
    <3>4. QED
      BY <2>1, <2>3, <3>1, <3>2, <3>3
  <2>5. s[k] \in PathChar /\ s[k] \in Seq(Symbols) /\ h \in 0..n
    BY <1>1
  <2> HIDE DEF y, w
  <2>6. t \in Seq(Symbols) /\ Len(t) = y /\ \A i \in 1..y : t[i] = s[k][i]
    BY <2>4, <2>5, CutFront
  <2>7. SubSeq(FlattenSeq(s), 1, a + y) = Layers(s, k - 1) \o t
    BY <1>1, <2>4, LayerCut
  <2>8. Broken(t)
    <3>1. Simple(s[k]) \/ Lost(s[k]) \/ Escaped(s[k])
      BY <2>5, PathChars
    <3> HIDE DEF t
    <3>2. y = 0 => t = <<>>
      BY <2>6, EmptySeq
    <3>3. y # 0 => Len(t) \in {1, 2} /\ t[1] = "%"
      <4> SUFFICES ASSUME y # 0 PROVE Len(t) \in {1, 2} /\ t[1] = "%"
        OBVIOUS
      <4>1. l \in {1, 2, 3} /\ (l # 1 => s[k][1] = "%")
        BY <3>1 DEF Simple, Lost, Escaped
      <4> HIDE DEF l
      <4>2. l # 1
        BY <2>3, <2>4, <4>1
      <4>3. y \in {1, 2} /\ 1 \in 1..y
        BY <2>3, <2>4, <4>1
      <4>4. QED
        BY <2>6, <4>1, <4>2, <4>3
    <3>4. QED
      BY <3>2, <3>3 DEF Broken
  <2> HIDE DEF t
  <2>9. urldecode(Layers(s, h) \o t) = Layers(g, h)
    BY <1>3, <2>5, <2>6, <2>8
  <2>10. SubSeq(w, 1, x) = Layers(s, h) \o t
    BY <2>4, <2>7 DEF w
  <2> HIDE DEF h, g
  <2>11. QED
    BY <2>5, <2>9, <2>10 DEF w, g
<1>6. QED
  BY <1>4, <1>5

\* The path of a request, and of one that is cut off.
LEMMA PathIs ==
  ASSUME NEW r \in Requests
  PROVE  /\ urldecode(PathText(r)) = Path(r) /\ Path(r) \in Seq(Symbols) /\ Len(Path(r)) \in Nat
         /\ \A x \in 0..Len(PathText(r)) :
              LET u == urldecode(SubSeq(PathText(r), 1, x))
              IN IsPrefix(u, Path(r)) /\ Len(u) \in Nat /\ Len(u) <= Len(Path(r))
<1> DEFINE s == r.path
           g == Meanings(s)
           w == PathText(r)
<1>1. s \in Seq(PathChar)
  BY Asks
<1>2. /\ s \in Seq(Seq(Symbols)) /\ g \in Seq(Seq(Symbols)) /\ Len(g) = Len(s) /\ Len(s) \in Nat
  BY <1>1, MeaningsTyped
<1>3. Path(r) = FlattenSeq(g) /\ w = FlattenSeq(s)
  BY DEF Path, Meanings, PathText
<1> HIDE DEF s, g, w
<1>4. w \in Seq(Symbols) /\ FlattenSeq(g) \in Seq(Symbols) /\ Layers(g, Len(g)) = FlattenSeq(g)
  BY <1>2, <1>3, LayersAll
<1>5. urldecode(w) = FlattenSeq(g)
  <2>1. Broken(<<>>) /\ <<>> \in Seq(Symbols)
    BY EmptySeq DEF Broken
  <2>2. urldecode(FlattenSeq(s) \o <<>>) = FlattenSeq(Meanings(s))
    BY <1>1, <2>1, Url
  <2>3. w \o <<>> = w
    BY <1>4, ConcatEmptySeq
  <2>4. QED
    BY <1>3, <2>2, <2>3 DEF g
<1>6. ASSUME NEW x \in 0..Len(w)
      PROVE  /\ IsPrefix(urldecode(SubSeq(w, 1, x)), Path(r))
             /\ Len(urldecode(SubSeq(w, 1, x))) \in Nat
             /\ Len(urldecode(SubSeq(w, 1, x))) <= Len(Path(r))
  <2> DEFINE u == urldecode(SubSeq(w, 1, x))
  <2>1. x \in 0..Len(FlattenSeq(s))
    BY <1>3
  <2>2. PICK k \in 0..Len(s) : u = Layers(g, k)
    BY <1>1, <1>3, <2>1, UrlCut DEF g
  <2> HIDE DEF u
  <2>3. k \in Nat /\ k <= Len(g) /\ Len(g) \in Nat /\ Len(g) <= Len(g)
    BY <1>2
  <2>4. u \in Seq(Symbols)
    BY <1>2, <2>2, <2>3, LayersTyped
  <2>5. PICK q \in Seq(Symbols) : Layers(g, Len(g)) = Layers(g, k) \o q
    <3>1. Extends(Symbols, g, k, Len(g))
      BY <1>2, <2>3, LayersGrow
    <3>2. QED
      BY <3>1 DEF Extends
  <2>6. IsPrefix(u, u \o q)
    BY <2>4, PrefixOfConcat
  <2>7. u \o q = Path(r)
    BY <1>3, <1>4, <2>2, <2>5
  <2>8. Len(u) \in Nat /\ Len(u) <= Len(Path(r))
    <3>1. Glued(Symbols, u \o q, u, q)
      BY <2>4, Glue
    <3>2. Len(Path(r)) = Len(u) + Len(q)
      BY <2>7, <3>1 DEF Glued
    <3>3. Len(u) \in Nat /\ Len(q) \in Nat
      BY <2>4, LenProperties
    <3>4. QED
      BY <3>2, <3>3
  <2>9. QED
    BY <2>6, <2>7, <2>8 DEF u
<1>7. Path(r) \in Seq(Symbols) /\ Len(Path(r)) \in Nat
  BY <1>3, <1>4, LenProperties
<1>8. QED
  BY <1>3, <1>5, <1>6, <1>7 DEF w
-----------------------------------------------------------------------------
(* The first line. *)

\* Two cuts are the same if they are place by place.
Alike(s, r, a, d, n)    == \A j \in 1..n : s[a + j] = r[d + j]
SameCuts(s, r, a, d, n) == SubSeq(s, a + 1, a + n) = SubSeq(r, d + 1, d + n)

LEMMA SameCut ==
  ASSUME NEW S, NEW s \in Seq(S), NEW r \in Seq(S), NEW a \in Nat, NEW d \in Nat, NEW n \in Nat,
         a + n <= Len(s), d + n <= Len(r), Alike(s, r, a, d, n)
  PROVE  SameCuts(s, r, a, d, n)
<1> DEFINE u == SubSeq(s, a + 1, a + n)
           v == SubSeq(r, d + 1, d + n)
<1>1. a + n \in Nat /\ d + n \in Nat /\ a <= a + n /\ d <= d + n /\ (d + n) - d = n /\ (a + n) - a = n
  OBVIOUS
<1>2. u \in Seq(S) /\ Len(u) = n /\ \A j \in 1..n : u[j] = s[a + j]
  <2>1. /\ u \in Seq(S) /\ Len(u) = (a + n) - a /\ \A j \in 1..((a + n) - a) : u[j] = s[a + j]
    BY <1>1, Cut
  <2>2. QED
    BY <1>1, <2>1
<1>3. v \in Seq(S) /\ Len(v) = n /\ \A j \in 1..n : v[j] = r[d + j]
  <2>1. /\ v \in Seq(S) /\ Len(v) = (d + n) - d /\ \A j \in 1..((d + n) - d) : v[j] = r[d + j]
    BY <1>1, Cut
  <2>2. QED
    BY <1>1, <2>1
<1> HIDE DEF u, v
<1>4. Len(u) = Len(v) /\ \A j \in 1..Len(u) : u[j] = v[j]
  BY <1>2, <1>3 DEF Alike
<1>5. u = v
  BY <1>2, <1>3, <1>4, SeqEqual
<1>6. QED
  BY <1>5 DEF u, v, SameCuts

\* The first m characters of a line, and perhaps one that ends it.
UpTo(s, l, m) ==
  /\ s \in Seq(Symbols) /\ m \in 0..Len(l) /\ (Len(s) = m \/ (Len(s) = m + 1 /\ m = Len(l)))
  /\ \A j \in 1..m : s[j] = l[j]

\* What RequestLine takes from it, a part of the path and of the query.
UrlPart(s, i, j, k) == SubSeq(s, j, k - 1)
QueryPart(s, k) == IF k <= Len(s) /\ s[k] = "?" THEN SubSeq(s, k + 1, Find(s, k + 1, Space) - 1) ELSE <<>>
PartsRead(s, x, p, t, whole, i, j, k) ==
  \E a \in 0..Len(p), y \in 0..Len(t) :
    /\ SubSeq(s, j, k - 1) = SubSeq(p, 1, a) /\ QueryPart(s, k) = SubSeq(t, 1, y)
    /\ whole => a = Len(p) /\ y = Len(t) /\ SubSeq(s, 1, i - 1) = <<x>>

LEMMA FirstParts ==
  ASSUME NEW x \in Word, NEW p \in Seq(Word \ {"?"}), Len(p) >= 1, NEW q \in Seq(Word),
         Len(q) >= 1 => q[1] = "?",
         NEW l, InFirst(l, x, p, q), NEW s, NEW m, UpTo(s, l, m),
         NEW i, i = Find(s, 1, Space), NEW j, j = Skip(s, i, Space), NEW k, k = Find(s, j, Space \cup {"?"})
  PROVE  PartsRead(s, x, p, SubSeq(q, 2, Len(q)), m = Len(l), i, j, k)
<1> DEFINE P == Len(p)
           Q == Len(q)
           n == Len(s)
           t == SubSeq(q, 2, Q)
<1>1. /\ P \in Nat /\ Q \in Nat /\ n \in Nat /\ P >= 1
      /\ s \in Seq(Symbols) /\ m \in Nat /\ m <= 4 + P + Q /\ (n = m \/ (n = m + 1 /\ m = 4 + P + Q))
      /\ Len(l) = 4 + P + Q
  <2>1. P \in Nat /\ Q \in Nat /\ n \in Nat /\ s \in Seq(Symbols)
    BY LenProperties DEF UpTo
  <2>2. Len(l) = 4 + P + Q
    BY DEF InFirst
  <2> HIDE DEF P, Q
  <2>3. m \in 0..(4 + P + Q) /\ (n = m \/ (n = m + 1 /\ m = 4 + P + Q))
    BY <2>2 DEF UpTo
  <2>4. QED
    BY <2>1, <2>2, <2>3 DEF P
<1>2. /\ l[1] = x /\ l[2] = "SP"
      /\ \A h \in 1..P : l[2 + h] = p[h]
      /\ \A h \in 1..Q : l[2 + P + h] = q[h]
      /\ l[2 + P + Q + 1] = "SP"
  BY DEF InFirst
<1>3. \A h \in 1..m : s[h] = l[h]
  BY DEF UpTo
<1>4. /\ x \notin Space /\ (\A h \in 1..P : p[h] \notin Space \cup {"?"}) /\ (\A h \in 1..Q : q[h] \notin Space)
      /\ "SP" \in Space
  <2>1. \A z \in Word : z \notin Space
    BY DEF Word, Text, Space
  <2>2. (\A h \in 1..P : p[h] \in Word \ {"?"}) /\ (\A h \in 1..Q : q[h] \in Word)
    BY ElementOfSeq
  <2> HIDE DEF P, Q
  <2>3. QED
    BY <2>1, <2>2 DEF Space
<1>5. /\ p \in Seq(Symbols) /\ q \in Seq(Symbols)
  <2>1. Word \ {"?"} \subseteq Symbols /\ Word \subseteq Symbols
    BY DEF Word, Text
  <2>2. QED
    BY <2>1
<1>6. /\ t \in Seq(Symbols) /\ Len(t) = (IF Q = 0 THEN 0 ELSE Q - 1)
      /\ \A y \in 0..Len(t) : SubSeq(t, 1, y) = SubSeq(q, 2, 1 + y)
  <2>1. CASE Q = 0
    <3>1. t = <<>> /\ Len(<<>>) = 0 /\ <<>> \in Seq(Symbols)
      BY <2>1, SubSeqEmpty
    <3>2. \A y \in 0..0 : SubSeq(<<>>, 1, y) = <<>> /\ SubSeq(q, 2, 1 + y) = <<>>
      BY SubSeqEmpty
    <3> HIDE DEF t
    <3>3. QED
      BY <2>1, <3>1, <3>2
  <2>2. CASE Q # 0
    <3>1. Q \in Nat /\ 1 \in Nat /\ 1 <= Q /\ Q <= Len(q)
      BY <1>1, <2>2
    <3>2. PICK z \in Nat : z = Q
      BY <3>1
    <3>3. t \in Seq(Symbols) /\ Len(t) = Q - 1
      <4>1. 1 \in Nat /\ 1 <= z /\ z <= Len(q)
        BY <3>1, <3>2
      <4>2. SubSeq(q, 1 + 1, z) \in Seq(Symbols) /\ Len(SubSeq(q, 1 + 1, z)) = z - 1
        BY <1>5, <4>1, Cut
      <4>3. 1 + 1 = 2
        OBVIOUS
      <4>4. QED
        BY <3>2, <4>2, <4>3, Zenon
    <3>4. ASSUME NEW y \in 0..(Q - 1) PROVE SubSeq(t, 1, y) = SubSeq(q, 2, 1 + y)
      <4>1. 0 \in Nat /\ y \in Nat /\ 0 <= y /\ y <= Q - 1
        BY <3>1
      <4>2. Inner(q, 1, Q, 0, y)
        BY <1>5, <3>1, <4>1, CutCut
      <4>3. SubSeq(SubSeq(q, 1 + 1, Q), 0 + 1, y) = SubSeq(q, 1 + 0 + 1, 1 + y)
        BY <4>2 DEF Inner
      <4>4. 1 + 1 = 2 /\ 0 + 1 = 1 /\ 1 + 0 + 1 = 2
        OBVIOUS
      <4>5. QED
        BY <4>3, <4>4
    <3> HIDE DEF t
    <3>5. QED
      BY <2>2, <3>3, <3>4
  <2>3. QED
    BY <2>1, <2>2
<1>7. SubSeq(p, 1, 0) = <<>> /\ SubSeq(t, 1, 0) = <<>>
  BY SubSeqEmpty
<1> HIDE DEF P, Q, n, t
<1>8. CASE m < 2
  <2>1. n = m /\ (m = 0 \/ m = 1)
    BY <1>1, <1>8
  <2>2. i = m + 1
    <3>1. 1 \in 1..(n + 1) /\ m + 1 \in 1..(n + 1) /\ ~(m + 1 <= n)
      BY <2>1
    <3>2. \A h \in 1..((m + 1) - 1) : s[h] \notin Space
      <4>1. \A h \in 1..((m + 1) - 1) : h = 1 /\ h \in 1..m
        BY <2>1
      <4>2. QED
        BY <1>2, <1>3, <1>4, <4>1
    <3>3. QED
      BY <1>1, <3>1, <3>2, FindIs DEF n
  <2>3. j = m + 1
    <3>1. i \in 1..(n + 1) /\ i \in i..(n + 1) /\ ~(i <= n) /\ \A h \in i..(i - 1) : s[h] \in Space
      BY <2>1, <2>2
    <3>2. QED
      BY <1>1, <2>2, <3>1, SkipIs DEF n
  <2>4. k = m + 1
    <3>1. j \in 1..(n + 1) /\ j \in j..(n + 1) /\ ~(j <= n) /\ \A h \in j..(j - 1) : s[h] \notin Space \cup {"?"}
      BY <2>1, <2>3
    <3>2. QED
      BY <1>1, <2>3, <3>1, FindIs DEF n
  <2>5. SubSeq(s, j, k - 1) = <<>>
    <3>1. j \in Int /\ k - 1 \in Int /\ k - 1 < j
      BY <2>1, <2>3, <2>4
    <3>2. QED
      BY <3>1, SubSeqEmpty
  <2>6. ~(k <= n)
    BY <2>1, <2>4
  <2>7. QueryPart(s, k) = <<>>
    BY <2>6 DEF QueryPart, n
  <2>8. m # Len(l)
    BY <1>1, <1>8
  <2>9. 0 \in 0..P /\ 0 \in 0..Len(t)
    BY <1>1, <1>6
  <2>10. QED
    BY <1>7, <2>5, <2>7, <2>8, <2>9 DEF PartsRead, P, Q, t
<1>9. CASE m >= 2
  <2>1. s[1] = x /\ s[2] = "SP"
    <3>1. 1 \in 1..m /\ 2 \in 1..m
      BY <1>1, <1>9
    <3>2. QED
      BY <1>2, <1>3, <3>1
  <2>2. i = 2
    <3>1. 1 \in 1..(n + 1) /\ 2 \in 1..(n + 1)
      BY <1>1, <1>9
    <3>2. \A h \in 1..(2 - 1) : s[h] \notin Space
      <4>1. \A h \in 1..(2 - 1) : h = 1
        OBVIOUS
      <4>2. QED
        BY <1>4, <2>1, <4>1
    <3>3. QED
      BY <1>1, <1>4, <2>1, <3>1, <3>2, FindIs DEF n
  <2>3. ASSUME NEW h \in 1..P, 2 + h <= m PROVE s[2 + h] = p[h] /\ s[2 + h] \notin Space \cup {"?"}
    <3>1. 2 + h \in 1..m
      BY <1>1, <2>3
    <3>2. QED
      BY <1>2, <1>3, <1>4, <3>1
  <2>4. j = 3
    <3>1. 2 \in 1..(n + 1) /\ 3 \in 2..(n + 1)
      BY <1>1, <1>9
    <3>2. 3 <= n => s[3] \notin Space
      <4> SUFFICES ASSUME 3 <= n PROVE s[3] \notin Space
        OBVIOUS
      <4>1. 1 \in 1..P /\ 2 + 1 <= m /\ 2 + 1 = 3
        BY <1>1
      <4>2. s[2 + 1] \notin Space \cup {"?"}
        BY <2>3, <4>1
      <4>3. QED
        BY <4>1, <4>2
    <3>3. \A h \in 2..(3 - 1) : s[h] \in Space
      <4>1. \A h \in 2..(3 - 1) : h = 2
        OBVIOUS
      <4>2. QED
        BY <1>4, <2>1, <4>1
    <3>4. QED
      BY <1>1, <2>2, <3>1, <3>2, <3>3, SkipIs DEF n
  <2>5. CASE m <= 2 + P
    <3>1. n = m /\ m < 4 + P + Q
      BY <1>1, <2>5
    <3>2. k = m + 1
      <4>1. 3 \in 1..(n + 1) /\ m + 1 \in 3..(n + 1) /\ ~(m + 1 <= n)
        BY <1>1, <1>9, <3>1
      <4>2. ASSUME NEW h \in 3..((m + 1) - 1) PROVE s[h] \notin Space \cup {"?"}
        <5>1. PICK g \in 1..P : g = h - 2
          BY <1>1, <2>5
        <5>2. 2 + g = h /\ 2 + g <= m
          BY <1>1, <5>1
        <5>3. QED
          BY <2>3, <5>1, <5>2
      <4>3. QED
        BY <1>1, <2>4, <4>1, <4>2, FindIs DEF n
    <3>3. PICK a \in 0..P : a = m - 2
      BY <1>1, <1>9, <2>5
    <3>4. SubSeq(s, 2 + 1, m) = SubSeq(p, 0 + 1, a)
      <4>1. 2 \in Nat /\ 0 \in Nat /\ a \in Nat /\ 2 + a = m /\ 0 + a = a /\ 2 + a <= Len(s) /\ 0 + a <= Len(p)
        BY <1>1, <3>1, <3>3 DEF n, P
      <4>2. ASSUME NEW h \in 1..a PROVE s[2 + h] = p[0 + h]
        <5>1. h \in 1..P /\ 2 + h <= m /\ 0 + h = h
          BY <1>1, <2>5, <3>3
        <5>2. QED
          BY <2>3, <5>1
      <4>3. Alike(s, p, 2, 0, a)
        BY <4>2 DEF Alike
      <4>4. SameCuts(s, p, 2, 0, a)
        BY <1>1, <1>5, <4>1, <4>3, SameCut
      <4>5. QED
        BY <4>1, <4>4 DEF SameCuts
    <3>5. SubSeq(s, j, k - 1) = SubSeq(p, 1, a)
      <4>1. j = 2 + 1 /\ k - 1 = m /\ 0 + 1 = 1
        <5>1. (m + 1) - 1 = m /\ 2 + 1 = 3
          BY <1>1
        <5>2. QED
          BY <2>4, <3>2, <5>1
      <4>2. QED
        BY <3>4, <4>1
    <3>6. ~(k <= n)
      BY <1>1, <3>1, <3>2
    <3>7. QueryPart(s, k) = <<>>
      BY <3>6 DEF QueryPart, n
    <3>8. m # Len(l) /\ 0 \in 0..Len(t)
      BY <1>1, <1>6, <3>1
    <3>9. QED
      BY <1>7, <3>3, <3>5, <3>7, <3>8 DEF PartsRead, P, Q, t
  <2>6. CASE m > 2 + P
    <3>1. n \in Nat /\ 3 + P <= m /\ 3 + P <= n /\ 3 + P \in 1..m
      BY <1>1, <2>6
    <3>2. s[3 + P] = l[3 + P]
      BY <1>3, <3>1
    <3>3. s[3 + P] = (IF Q = 0 THEN "SP" ELSE "?")
      <4>1. CASE Q = 0
        <5>1. 2 + P + Q + 1 = 3 + P
          BY <1>1, <4>1
        <5>2. QED
          BY <1>2, <3>2, <4>1, <5>1
      <4>2. CASE Q # 0
        <5>1. 1 \in 1..Q /\ 2 + P + 1 = 3 + P /\ Len(q) >= 1
          BY <1>1, <4>2 DEF Q
        <5>2. l[2 + P + 1] = q[1] /\ q[1] = "?"
          BY <1>2, <5>1
        <5>3. QED
          BY <3>2, <4>2, <5>1, <5>2
      <4>3. QED
        BY <4>1, <4>2
    <3>4. k = 3 + P
      <4>1. 3 \in 1..(n + 1) /\ 3 + P \in 3..(n + 1)
        BY <1>1, <3>1
      <4>2. s[3 + P] \in Space \cup {"?"}
        BY <1>4, <3>3
      <4>3. ASSUME NEW h \in 3..((3 + P) - 1) PROVE s[h] \notin Space \cup {"?"}
        <5>1. PICK g \in 1..P : g = h - 2
          BY <1>1
        <5>2. 2 + g = h /\ 2 + g <= m
          BY <1>1, <2>6, <5>1
        <5>3. QED
          BY <2>3, <5>1, <5>2
      <4>4. PICK z \in 3..(n + 1) : z = 3 + P
        BY <4>1
      <4>5. Find(s, 3, Space \cup {"?"}) = z
        BY <1>1, <4>1, <4>2, <4>3, <4>4, FindIs DEF n
      <4>6. QED
        BY <2>4, <4>4, <4>5
    <3>5. SubSeq(s, 2 + 1, 2 + P) = SubSeq(p, 0 + 1, P)
      <4>1. 2 \in Nat /\ 0 \in Nat /\ P \in Nat /\ 0 + P = P /\ 2 + P <= Len(s) /\ 0 + P <= Len(p)
        BY <1>1, <3>1 DEF n, P
      <4>2. ASSUME NEW h \in 1..P PROVE s[2 + h] = p[0 + h]
        <5>1. h \in 1..P /\ 2 + h <= m /\ 0 + h = h
          BY <1>1, <2>6
        <5>2. QED
          BY <2>3, <5>1
      <4>3. Alike(s, p, 2, 0, P)
        BY <4>2 DEF Alike
      <4>4. SameCuts(s, p, 2, 0, P)
        BY <1>1, <1>5, <4>1, <4>3, SameCut
      <4>5. QED
        BY <4>1, <4>4 DEF SameCuts
    <3>6. SubSeq(s, j, k - 1) = SubSeq(p, 1, P)
      <4>1. j = 2 + 1 /\ k - 1 = 2 + P /\ 0 + 1 = 1
        BY <1>1, <2>4, <3>4
      <4>2. QED
        BY <3>5, <4>1
    <3>7. SubSeq(s, 1, i - 1) = <<x>>
      <4>1. 1 \in Nat /\ 1 <= Len(s) /\ i - 1 = 1
        BY <1>1, <1>9, <2>2 DEF n
      <4>2. SubSeq(s, 1, 1) \in Seq(Symbols) /\ Len(SubSeq(s, 1, 1)) = 1 /\ \A h \in 1..1 : SubSeq(s, 1, 1)[h] = s[h]
        BY <1>1, <4>1, CutFront
      <4> DEFINE u == SubSeq(s, 1, 1)
      <4>3. u \in Seq(Symbols) /\ Len(u) = 1 /\ u[1] = x
        BY <2>1, <4>2
      <4> HIDE DEF u
      <4>4. u = <<x>>
        BY <4>3
      <4>5. QED
        BY <4>1, <4>4 DEF u
    <3>8. P \in 0..P
      BY <1>1
    <3>9. CASE Q = 0
      <4>1. s[k] # "?" /\ Len(t) = 0 /\ 0 \in 0..Len(t)
        BY <1>6, <3>3, <3>4, <3>9
      <4>2. QueryPart(s, k) = <<>>
        BY <4>1 DEF QueryPart
      <4>3. QED
        BY <1>7, <3>6, <3>7, <3>8, <4>1, <4>2 DEF PartsRead, P, Q, t
    <3>10. CASE Q # 0
      <4> DEFINE full == IF m >= 3 + P + Q THEN Q - 1 ELSE m - (3 + P)
      <4>1. PICK y \in 0..(Q - 1) : y = full
        <5>1. Q \in Nat /\ Q >= 1 /\ P \in Nat /\ m \in Nat /\ 3 + P <= m
          BY <1>1, <3>1, <3>10
        <5>2. CASE m >= 3 + P + Q
          <6>1. full = Q - 1 /\ Q - 1 \in 0..(Q - 1)
            BY <5>1, <5>2
          <6>2. QED
            BY <6>1
        <5>3. CASE ~(m >= 3 + P + Q)
          <6>1. full = m - (3 + P) /\ m - (3 + P) \in 0..(Q - 1)
            BY <5>1, <5>3
          <6>2. QED
            BY <6>1
        <5>4. QED
          BY <5>2, <5>3
      <4>2. /\ y \in Nat /\ y <= Q - 1 /\ (m >= 3 + P + Q => y = Q - 1) /\ (~(m >= 3 + P + Q) => y = m - (3 + P))
            /\ Q >= 1
        BY <1>1, <3>10, <4>1
      <4> HIDE DEF full
      <4>3. ASSUME NEW h \in 1..y PROVE s[(3 + P) + h] = q[1 + h] /\ s[(3 + P) + h] \notin Space
        <5>1. PICK g \in 1..Q : g = 1 + h
          BY <1>1, <4>2
        <5>2. 2 + P + g = (3 + P) + h /\ 2 + P + g \in 1..m
          BY <1>1, <3>1, <4>2, <5>1
        <5>3. s[2 + P + g] = q[g]
          BY <1>2, <1>3, <5>1, <5>2
        <5>4. QED
          BY <1>4, <5>1, <5>2, <5>3
      <4>4. PICK e \in Nat : e = 4 + P + y
        BY <1>1, <4>2
      <4>5. Find(s, k + 1, Space) = e
        <5>1. k + 1 = 4 + P /\ k + 1 \in 1..(n + 1) /\ e \in (k + 1)..(n + 1)
          BY <1>1, <3>1, <3>4, <4>2, <4>4
        <5>2. e <= n => s[e] \in Space
          <6> SUFFICES ASSUME e <= n PROVE s[e] \in Space
            OBVIOUS
          <6>1. m >= 3 + P + Q
            BY <1>1, <3>1, <4>2, <4>4
          <6>2. e = 2 + P + Q + 1 /\ e \in 1..m
            BY <1>1, <4>2, <4>4, <6>1
          <6>3. QED
            BY <1>2, <1>3, <1>4, <6>2
        <5>3. ASSUME NEW h \in (k + 1)..(e - 1) PROVE s[h] \notin Space
          <6>1. PICK g \in 1..y : g = h - (3 + P)
            BY <1>1, <3>1, <4>2, <4>4, <5>1
          <6>2. (3 + P) + g = h
            BY <1>1, <5>1, <6>1
          <6>3. QED
            BY <4>3, <6>1, <6>2
        <5>4. QED
          BY <1>1, <5>1, <5>2, <5>3, FindIs DEF n
      <4>6. SubSeq(s, (3 + P) + 1, 3 + P + y) = SubSeq(q, 1 + 1, 1 + y)
        <5>1. /\ 3 + P \in Nat /\ 3 + P + y \in Nat /\ 3 + P <= 3 + P + y /\ 3 + P + y <= n
              /\ 1 \in Nat /\ 1 + y \in Nat /\ 1 <= 1 + y /\ 1 + y <= Q
              /\ (1 + y) - 1 = (3 + P + y) - (3 + P) /\ (3 + P + y) - (3 + P) = y
          BY <1>1, <3>1, <4>2
        <5>2. ASSUME NEW h \in 1..((3 + P + y) - (3 + P)) PROVE s[(3 + P) + h] = q[1 + h]
          <6>1. h \in 1..y
            BY <5>1
          <6>2. QED
            BY <4>3, <6>1
        <5>3. PICK z \in Nat : z = 3 + P
          BY <5>1
        <5>4. s \in Seq(Symbols) /\ q \in Seq(Symbols) /\ z + y <= Len(s) /\ 1 + y <= Len(q) /\ 1 \in Nat
          BY <1>1, <1>5, <5>1, <5>3 DEF n, Q
        <5>5. Alike(s, q, z, 1, y)
          BY <4>3, <5>3 DEF Alike
        <5>6. SubSeq(s, z + 1, z + y) = SubSeq(q, 1 + 1, 1 + y)
          <6>1. SameCuts(s, q, z, 1, y)
            BY <4>2, <5>4, <5>5, SameCut
          <6>2. QED
            BY <6>1 DEF SameCuts
        <5>7. QED
          BY <5>3, <5>6
      <4>7. QueryPart(s, k) = SubSeq(q, 2, 1 + y)
        <5>1. k + 1 = (3 + P) + 1 /\ e - 1 = 3 + P + y /\ 1 + 1 = 2 /\ k <= Len(s)
          BY <1>1, <3>1, <3>4, <4>2, <4>4 DEF n
        <5>2. s[k] = "?"
          BY <3>3, <3>4, <3>10
        <5>3. QueryPart(s, k) = SubSeq(s, k + 1, e - 1)
          BY <4>5, <5>1, <5>2 DEF QueryPart
        <5>4. QED
          BY <4>6, <5>1, <5>3
      <4>8. y \in 0..Len(t) /\ (m = Len(l) => y = Len(t))
        BY <1>1, <1>6, <3>10, <4>2
      <4>9. QueryPart(s, k) = SubSeq(t, 1, y)
        BY <1>6, <4>7, <4>8
      <4>10. QED
        BY <3>6, <3>7, <3>8, <4>8, <4>9 DEF PartsRead, P, Q, t
    <3>11. QED
      BY <3>9, <3>10
  <2>7. QED
    BY <1>1, <2>5, <2>6
<1>10. QED
  BY <1>1, <1>8, <1>9

\* The beginning of a line, or the whole of it with its end, as get_line got it.
LEMMA PieceUpTo ==
  ASSUME NEW r \in Requests, NEW i \in Lines(r)
  PROVE  /\ UpTo(Append(Piece(r, LineAt(r, i), LineEnd(r, i)), "LF"), Line(r, i), Len(Line(r, i)))
         /\ \A p \in LineAt(r, i)..LineEnd(r, i) : UpTo(Piece(r, LineAt(r, i), p), Line(r, i), p - LineAt(r, i))
<1> DEFINE a == LineAt(r, i)
           e == LineEnd(r, i)
           l == Line(r, i)
           n == Len(l)
           M == Message(r)
<1>1. /\ a \in Nat /\ n \in Nat /\ e = a + n /\ e \in Nat
      /\ \A j \in 1..n : M[a + j] = l[j]
  <2>1. RowIs(r, i)
    BY Layout
  <2>2. QED
    BY <2>1 DEF RowIs
<1>2. e <= Len(M) /\ Len(M) \in Nat
  BY LinePiece
<1> HIDE DEF a, e, n, l
<1>3. ASSUME NEW p \in a..e PROVE UpTo(Piece(r, a, p), l, p - a)
  <2>1. p \in Nat /\ a <= p /\ p <= Len(Message(r)) /\ p - a \in 0..n
    BY <1>1, <1>2
  <2>2. PieceIs(r, a, p)
    BY <1>1, <2>1, Pieces
  <2> DEFINE u == Piece(r, a, p)
  <2>3. u \in Seq(Symbols) /\ Len(u) = p - a /\ \A j \in 1..(p - a) : u[j] = M[a + j]
    BY <2>2 DEF PieceIs
  <2> HIDE DEF u, M
  <2>4. \A j \in 1..(p - a) : j \in 1..n
    BY <1>1, <2>1
  <2>5. \A j \in 1..(p - a) : u[j] = l[j]
    BY <1>1, <2>3, <2>4
  <2>6. QED
    BY <2>1, <2>3, <2>5 DEF UpTo, u, n
<1>4. UpTo(Append(Piece(r, a, e), "LF"), l, n)
  <2> DEFINE u == Piece(r, a, e)
             v == Append(u, "LF")
  <2>1. UpTo(u, l, e - a) /\ e - a = n
    BY <1>1, <1>3
  <2>2. u \in Seq(Symbols) /\ Len(u) = n /\ \A j \in 1..n : u[j] = l[j]
    <3>1. e \in Nat /\ a <= e /\ e <= Len(Message(r))
      BY <1>1, <1>2
    <3>2. PieceIs(r, a, e)
      BY <1>1, <3>1, Pieces
    <3>3. Len(u) = n
      BY <2>1, <3>2 DEF PieceIs
    <3> HIDE DEF u
    <3>4. QED
      BY <2>1, <3>3 DEF UpTo
  <2> HIDE DEF u
  <2>3. "LF" \in Symbols
    BY SymbolAssumption
  <2>4. v \in Seq(Symbols) /\ Len(v) = n + 1 /\ \A j \in 1..n : v[j] = u[j]
    BY <2>2, <2>3, AppendProperties
  <2> HIDE DEF v
  <2>5. n \in 0..n /\ \A j \in 1..n : v[j] = l[j]
    BY <1>1, <2>2, <2>4
  <2>6. UpTo(v, l, n)
    BY <2>4, <2>5 DEF UpTo, n
  <2>7. QED
    BY <2>6 DEF v, u
<1>5. QED
  BY <1>3, <1>4 DEF a, e, l, n

\* A query begins with its question mark.
LEMMA QueryMark ==
  ASSUME NEW r \in Requests
  PROVE  /\ FlattenSeq(QueryParts(r)) \in Seq(Word)
         /\ Len(FlattenSeq(QueryParts(r))) >= 1 => FlattenSeq(QueryParts(r))[1] = "?"
<1> DEFINE s == QueryParts(r)
           w == FlattenSeq(s)
<1>1. s \in Seq(Seq(Word)) /\ Len(s) \in Nat
  BY QueryTyped
<1>2. w \in Seq(Word)
  BY <1>1, LayersAll
<1>3. ASSUME Len(w) >= 1 PROVE w[1] = "?"
  <2>1. Len(s) # 0
    <3>1. SUFFICES ASSUME Len(s) = 0 PROVE FALSE
      OBVIOUS
    <3>2. s = <<>>
      BY <1>1, <3>1, EmptySeq
    <3>3. w = <<>>
      BY <3>2, FlattenEmpty
    <3>4. QED
      BY <1>3, <3>3
  <2>2. 1 \in 1..Len(s)
    BY <1>1, <2>1
  <2>3. s[1] = <<"?">> \o ParamText(r.query[1]) /\ ParamText(r.query[1]) \in Seq(Word \ {"&"})
    <3>1. 1 \in 1..Len(r.query)
      BY <2>2, QueryTyped
    <3>2. QED
      BY <3>1, QueryTyped
  <2> DEFINE t == ParamText(r.query[1])
             q == <<"?">>
  <2>4. t \in Seq(Word) /\ q \in Seq(Word) /\ Len(q) = 1 /\ q[1] = "?"
    <3>1. Word \ {"&"} \subseteq Word /\ "?" \in Word
      BY SymbolAssumption DEF Word, Text
    <3>2. QED
      BY <2>3, <3>1
  <2> HIDE DEF t, q, s
  <2>5. Glued(Word, q \o t, q, t) /\ Len(t) \in Nat
    BY <2>4, Glue, LenProperties
  <2> DEFINE v == q \o t
  <2>6. v = s[1]
    BY <2>3 DEF q, t
  <2> HIDE DEF v
  <2>7. Len(v) = 1 + Len(t) /\ v[1] = "?"
    BY <2>4, <2>5 DEF Glued, v
  <2>8. Len(s[1]) >= 1 /\ s[1][1] = "?"
    BY <2>5, <2>6, <2>7
  <2>9. Len(Layers(s, 1 - 1)) = 0
    <3>1. Layers(s, 0) = <<>> /\ 1 - 1 = 0 /\ Len(<<>>) = 0
      BY LayersStart, EmptySeq
    <3>2. QED
      BY <3>1
  <2>10. \A j \in 1..Len(s[1]) : FlattenSeq(s)[Len(Layers(s, 1 - 1)) + j] = s[1][j]
    BY <1>1, <2>2, LayerBytes
  <2>11. 1 \in 1..Len(s[1]) /\ 0 + 1 = 1
    <3>1. Len(s[1]) \in Nat
      BY <1>1, <2>2, LayerBytes
    <3>2. QED
      BY <2>8, <3>1
  <2>12. QED
    BY <2>8, <2>9, <2>10, <2>11
<1>4. QED
  BY <1>2, <1>3

\* The first line, or the beginning of it, is read.
LEMMA FirstLineRead ==
  ASSUME request \in Requests, RequestLine, NEW m, UpTo(line, Line(request, 1), m)
  PROVE  LinePrefix' /\ (m = Len(Line(request, 1)) => LineRead')
<1> DEFINE r == request
           p == PathText(r)
           q == FlattenSeq(QueryParts(r))
           t == QueryText(r)
           i == Find(line, 1, Space)
           j == Skip(line, i, Space)
           k == Find(line, j, Space \cup {"?"})
<1>1. request' = request
  BY DEF RequestLine
<1>2. /\ method' = SubSeq(line, 1, i - 1)
      /\ url' = urldecode(SubSeq(line, j, k - 1))
      /\ query_string' = QueryPart(line, k)
  BY DEF RequestLine, QueryPart
<1>3. InFirst(Line(r, 1), r.method, p, q)
  <2>1. 1 <= Len(Written(r))
    BY RowsTyped
  <2>2. Line(r, 1) = Written(r)[1]
    BY <2>1 DEF Line
  <2>3. QED
    BY <2>2, FirstLine
<1>4. r.method \in Word /\ p \in Seq(Word \ {"?"}) /\ Len(p) >= 1 /\ q \in Seq(Word) /\ (Len(q) >= 1 => q[1] = "?")
  BY Asks, PathTyped, QueryMark
<1>5. t = SubSeq(q, 2, Len(q))
  BY DEF QueryText
<1> DEFINE whole == m = Len(Line(r, 1))
<1> HIDE DEF r, p, q, t, i, j, k
<1>6. PartsRead(line, r.method, p, SubSeq(q, 2, Len(q)), m = Len(Line(r, 1)), i, j, k)
  BY <1>3, <1>4, FirstParts DEF i, j, k, r
<1>7. PICK a \in 0..Len(p), y \in 0..Len(t) :
        /\ SubSeq(line, j, k - 1) = SubSeq(p, 1, a) /\ QueryPart(line, k) = SubSeq(t, 1, y)
        /\ m = Len(Line(r, 1)) => a = Len(p) /\ y = Len(t) /\ SubSeq(line, 1, i - 1) = <<r.method>>
  BY <1>5, <1>6 DEF PartsRead
<1>8. url' = urldecode(SubSeq(p, 1, a)) /\ query_string' = SubSeq(t, 1, y)
  BY <1>2, <1>7
<1>9. LinePrefix'
  <2>1. \E x \in 0..Len(p), z \in 0..Len(t) : url' = urldecode(SubSeq(p, 1, x)) /\ query_string' = SubSeq(t, 1, z)
    BY <1>8
  <2>2. QED
    BY <1>1, <2>1 DEF LinePrefix, p, t, r
<1>10. ASSUME m = Len(Line(request, 1)) PROVE LineRead'
  <2>1. a = Len(p) /\ y = Len(t) /\ method' = <<r.method>>
    BY <1>2, <1>7, <1>10 DEF r
  <2>2. SubSeq(p, 1, Len(p)) = p
    BY <1>4, SubSeqFull
  <2>3. SubSeq(t, 1, Len(t)) = t
    <3>1. t \in Seq(Word)
      <4>1. Len(q) \in Nat /\ \A o \in 2..Len(q) : q[o] \in Word
        BY <1>4, LenProperties, ElementOfSeq
      <4>2. QED
        BY <1>4, <1>5, <4>1, SubSeqProperties
    <3>2. QED
      BY <3>1, SubSeqFull
  <2>4. url' = urldecode(p) /\ query_string' = t
    BY <1>8, <2>1, <2>2, <2>3
  <2>5. QED
    BY <1>1, <2>1, <2>4 DEF LineRead, p, t, r
<1>11. QED
  BY <1>9, <1>10

\* Where lines fit, _url does too.
LEMMA UrlShort ==
  ASSUME request \in Requests, Fits(request), LinePrefix
  PROVE  Len(url) < UrlSize /\ IsPrefix(url, Path(request))
<1>1. PICK x \in 0..Len(PathText(request)) : url = urldecode(SubSeq(PathText(request), 1, x))
  BY DEF LinePrefix
<1>2. /\ IsPrefix(url, Path(request)) /\ Len(url) \in Nat /\ Len(url) <= Len(Path(request))
      /\ Len(Path(request)) \in Nat
  BY <1>1, PathIs
<1>3. Len(Path(request)) < UrlSize /\ UrlSize \in Nat
  BY SizeAssumption DEF Fits
<1> DEFINE z == Len(url)
           y == Len(Path(request))
<1>4. z \in Nat /\ y \in Nat /\ z <= y /\ y < UrlSize /\ UrlSize \in Nat
  BY <1>2, <1>3
<1> HIDE DEF z, y
<1>5. z < UrlSize
  BY <1>4
<1>6. QED
  BY <1>2, <1>5 DEF z

\* Before the first header there are none.
LEMMA NoHeaders == RawHeaders(<<>>) = <<>>
<1>1. {<< <<>>[i].key >> : i \in DOMAIN <<>>} = {}
  <2>1. DOMAIN <<>> = {}
    OBVIOUS
  <2>2. QED
    BY <2>1
<1>2. DOMAIN RawHeaders(<<>>) = {}
  BY <1>1 DEF RawHeaders
<1>3. \A f : f = [x \in {} |-> f[x]] => f = <<>>
  OBVIOUS
<1>4. RawHeaders(<<>>) = [x \in {} |-> RawHeaders(<<>>)[x]]
  BY <1>1 DEF RawHeaders
<1>5. QED
  BY <1>3, <1>4
-----------------------------------------------------------------------------
(* The headers. *)

\* The last of the headers of a name.
LEMMA MaxIs ==
  ASSUME NEW n \in Nat, NEW J \in SUBSET (1..n), J # {}
  PROVE  Max(J) \in J /\ \A j \in J : Max(J) >= j
<1> DEFINE T == {y \in Nat : n - y \in J}
<1>1. PICK x \in T : \A y \in T : x <= y
  <2>1. PICK j \in J : TRUE
    OBVIOUS
  <2>2. n - j \in Nat /\ n - (n - j) = j
    BY <2>1
  <2>3. n - j \in T /\ T \in SUBSET Nat
    BY <2>1, <2>2
  <2> HIDE DEF T
  <2>4. T # {}
    BY <2>3
  <2>5. QED
    BY <2>3, <2>4, Smallest
<1>2. n - x \in J /\ \A j \in J : n - x >= j
  <2>1. x \in Nat /\ n - x \in J
    BY <1>1
  <2>2. ASSUME NEW j \in J PROVE n - x >= j
    <3>1. j \in 1..n /\ n - j \in Nat /\ n - (n - j) = j
      OBVIOUS
    <3>2. n - j \in T
      BY <3>1
    <3>3. x <= n - j
      BY <1>1, <3>2
    <3>4. QED
      BY <2>1, <3>1, <3>3
  <2>3. QED
    BY <2>1, <2>2
<1>3. QED
  BY <1>2 DEF Max

LEMMA MaxLast ==
  ASSUME NEW n \in Nat, NEW J \in SUBSET (1..n), n \in J
  PROVE  Max(J) = n
<1>1. Max(J) \in J /\ Max(J) >= n
  BY MaxIs
<1>2. Max(J) \in 1..n
  BY <1>1
<1>3. QED
  BY <1>1, <1>2

\* One header more.
Added(f, key, val) == [k \in DOMAIN f \cup {key} |-> IF k = key THEN val ELSE f[k]]

LEMMA HeadersAdd ==
  ASSUME NEW n \in Nat, NEW f, NEW g, DOMAIN f = 1..n, DOMAIN g = 1..(n + 1), \A i \in 1..n : f[i] = g[i]
  PROVE  RawHeaders(g) = Added(RawHeaders(f), <<g[n + 1].key>>, TrimEnd(g[n + 1].val))
<1> DEFINE F == {<<f[i].key>> : i \in 1..n}
           G == {<<g[i].key>> : i \in 1..(n + 1)}
           x == <<g[n + 1].key>>
           I(k) == {i \in 1..(n + 1) : <<g[i].key>> = k}
           J(k) == {i \in 1..n : <<f[i].key>> = k}
<1>1. RawHeaders(f) = [k \in F |-> TrimEnd(f[Max(J(k))].val)]
  BY DEF RawHeaders
<1>2. RawHeaders(g) = [k \in G |-> TrimEnd(g[Max(I(k))].val)]
  BY DEF RawHeaders
<1>3. \A i : i \in 1..(n + 1) <=> i \in 1..n \/ i = n + 1
  OBVIOUS
<1>4. G = F \cup {x}
  BY <1>3
<1>5. ASSUME NEW k \in G
      PROVE  TrimEnd(g[Max(I(k))].val) = IF k = x THEN TrimEnd(g[n + 1].val) ELSE RawHeaders(f)[k]
  <2>1. CASE k = x
    <3>1. I(k) \in SUBSET (1..(n + 1)) /\ n + 1 \in I(k) /\ n + 1 \in Nat
      BY <2>1
    <3> HIDE DEF I
    <3>2. Max(I(k)) = n + 1
      BY <3>1, MaxLast
    <3>3. QED
      BY <2>1, <3>2
  <2>2. CASE k # x
    <3>1. I(k) = J(k)
      BY <1>3, <2>2
    <3>2. k \in F
      BY <1>4, <2>2
    <3>3. J(k) \in SUBSET (1..n) /\ J(k) # {}
      BY <3>2
    <3>4. RawHeaders(f)[k] = TrimEnd(f[Max(J(k))].val)
      BY <1>1, <3>2
    <3> HIDE DEF I, J
    <3>5. Max(J(k)) \in 1..n
      BY <3>3, MaxIs
    <3> HIDE DEF x
    <3>6. QED
      BY <2>2, <3>1, <3>4, <3>5
  <2>3. QED
    BY <2>1, <2>2
<1>6. DOMAIN RawHeaders(f) = F
  BY <1>1
<1> HIDE DEF F, G, I, J, x
<1>7. RawHeaders(g) = [k \in F \cup {x} |-> IF k = x THEN TrimEnd(g[n + 1].val) ELSE RawHeaders(f)[k]]
  BY <1>2, <1>4, <1>5
<1>8. QED
  BY <1>6, <1>7 DEF Added, x

\* The first headers, the last of them with a value cut short.
Shortened(hs, n, m) == [SubSeq(hs, 1, n) EXCEPT ![n].val = SubSeq(@, 1, m)]

LEMMA HeadersCut ==
  ASSUME NEW hs \in Seq(Field), NEW h \in 1..Len(hs), NEW y \in 0..Len(hs[h].val)
  PROVE  /\ RawHeaders(Shortened(hs, h, y)) =
              Added(RawHeaders(SubSeq(hs, 1, h - 1)), <<hs[h].key>>, TrimEnd(SubSeq(hs[h].val, 1, y)))
         /\ y = Len(hs[h].val) => Shortened(hs, h, y) = SubSeq(hs, 1, h)
<1> DEFINE s == SubSeq(hs, 1, h)
           f == SubSeq(hs, 1, h - 1)
           g == Shortened(hs, h, y)
<1>1. h \in Nat /\ h <= Len(hs) /\ h - 1 \in Nat /\ h - 1 <= Len(hs) /\ (h - 1) + 1 = h /\ Len(hs) \in Nat
  BY LenProperties
<1>2. s \in Seq(Field) /\ Len(s) = h /\ \A i \in 1..h : s[i] = hs[i]
  BY <1>1, CutFront
<1>3. f \in Seq(Field) /\ Len(f) = h - 1 /\ \A i \in 1..(h - 1) : f[i] = hs[i]
  BY <1>1, CutFront
<1>4. DOMAIN s = 1..h /\ DOMAIN f = 1..(h - 1) /\ h \in 1..h
  BY <1>1, <1>2, <1>3
<1>5. hs[h] \in Field /\ s[h] = hs[h]
  BY <1>2, <1>4, ElementOfSeq
<1> HIDE DEF s, f
<1>6. g = [s EXCEPT ![h].val = SubSeq(@, 1, y)]
  BY DEF Shortened, s
<1> HIDE DEF g
<1>7. DOMAIN g = 1..((h - 1) + 1)
  BY <1>1, <1>4, <1>6
<1>8. \A i \in 1..(h - 1) : f[i] = g[i]
  <2>1. \A i \in 1..(h - 1) : i \in 1..h /\ i # h
    BY <1>1
  <2>2. QED
    BY <1>2, <1>3, <1>4, <1>6, <2>1
<1>9. g[h] = [s[h] EXCEPT !.val = SubSeq(@, 1, y)]
  BY <1>4, <1>6
<1>10. g[h].key = hs[h].key /\ g[h].val = SubSeq(hs[h].val, 1, y)
  BY <1>5, <1>9 DEF Field
<1>11. RawHeaders(g) = Added(RawHeaders(f), <<g[(h - 1) + 1].key>>, TrimEnd(g[(h - 1) + 1].val))
  BY <1>1, <1>4, <1>7, <1>8, HeadersAdd
<1>12. ASSUME y = Len(hs[h].val) PROVE g = s
  <2>1. hs[h].val \in Seq(Text)
    BY <1>5 DEF Field
  <2>2. SubSeq(hs[h].val, 1, y) = hs[h].val
    BY <1>12, <2>1, SubSeqFull
  <2>3. g[h] = s[h]
    BY <1>5, <1>9, <2>2 DEF Field
  <2>4. s = [i \in 1..h |-> s[i]]
    BY <1>2, <1>4
  <2>5. g = [i \in 1..h |-> g[i]]
    BY <1>4, <1>6
  <2>6. \A i \in 1..h : g[i] = s[i]
    BY <1>4, <1>6, <2>3
  <2>7. QED
    BY <2>4, <2>5, <2>6
<1>13. QED
  BY <1>1, <1>10, <1>11, <1>12 DEF g, s, f

\* What Header takes from a header line, or from the beginning of one.
LEMMA HeaderLineRead ==
  ASSUME request \in Requests, Header, NEW h \in 1..Len(request.headers),
         NEW m, UpTo(line, Line(request, h + 1), m),
         Len(line) = m \/ line[Len(line)] = "LF"
  PROVE  \/ m < 2 /\ properties' = properties
         \/ /\ m >= 2 /\ m - 2 \in 0..Len(request.headers[h].val)
            /\ (m = Len(Line(request, h + 1)) <=> m - 2 = Len(request.headers[h].val))
            /\ properties' = Added(properties, <<request.headers[h].key>>,
                                   TrimEnd(SubSeq(request.headers[h].val, 1, m - 2)))
<1> DEFINE l == Line(request, h + 1)
           n == Len(line)
           x == request.headers[h].key
           v == request.headers[h].val
           V == Len(v)
<1>1. /\ l \in Seq(Text) /\ x \in Word \ {":"} /\ v \in Seq(Text) /\ V \in Nat
      /\ Len(l) = 2 + V /\ l[1] = x /\ l[2] = ":" /\ \A j \in 1..V : l[2 + j] = v[j]
  <2>1. h + 1 <= Len(Written(request))
    BY WrittenTyped
  <2>2. l = Written(request)[h + 1]
    BY <2>1 DEF Line
  <2> HIDE DEF l
  <2>3. QED
    BY <2>2, HeaderLine
<1>2. line \in Seq(Symbols) /\ n \in Nat
  BY LenProperties DEF UpTo
<1> HIDE DEF l, n, V
<1>3. m \in 0..(2 + V) /\ (n = m \/ (n = m + 1 /\ m = 2 + V)) /\ \A j \in 1..m : line[j] = l[j]
  BY <1>1 DEF UpTo, l, n
<1>4. m \in Nat /\ m <= 2 + V
  BY <1>1, <1>3
<1> DEFINE sep == Find(line, 1, {":"})
<1>5. properties' = IF sep <= n
                    THEN Added(properties, TrimEnd(TrimStart(SubSeq(line, 1, sep - 1))), TrimEnd(SubSeq(line, sep + 1, n)))
                    ELSE properties
  BY DEF Header, SetProperty, Added, n
<1>6. line # <<>>
  BY DEF Header
<1>7. n # 0
  BY <1>2, <1>6, EmptySeq DEF n
<1>8. 1 \in 1..m /\ line[1] = x /\ x # ":"
  <2>1. 1 \in 1..m
    BY <1>1, <1>2, <1>3, <1>4, <1>7
  <2>2. QED
    BY <1>1, <1>3, <2>1
<1>9. sep = 2
  <2>1. 1 \in 1..(n + 1) /\ 2 \in 1..(n + 1)
    BY <1>2, <1>7
  <2>2. 2 <= n => line[2] \in {":"}
    <3> SUFFICES ASSUME 2 <= n PROVE line[2] = ":"
      OBVIOUS
    <3>1. 2 \in 1..m
      BY <1>1, <1>2, <1>3, <1>4
    <3>2. QED
      BY <1>1, <1>3, <3>1
  <2>3. \A j \in 1..(2 - 1) : line[j] \notin {":"}
    <3>1. \A j \in 1..(2 - 1) : j = 1
      OBVIOUS
    <3>2. QED
      BY <1>8, <3>1
  <2>4. QED
    BY <1>2, <2>1, <2>2, <2>3, FindIs DEF n
<1> HIDE DEF sep
<1>10. CASE m < 2
  <2>1. ~(sep <= n)
    BY <1>1, <1>2, <1>3, <1>4, <1>9, <1>10
  <2>2. QED
    BY <1>5, <1>10, <2>1
<1>11. CASE m >= 2
  <2>1. sep <= n /\ sep - 1 = 1 /\ sep + 1 = 2 + 1
    BY <1>2, <1>3, <1>4, <1>9, <1>11
  <2>2. properties' = Added(properties, TrimEnd(TrimStart(SubSeq(line, 1, 1))), TrimEnd(SubSeq(line, 2 + 1, n)))
    BY <1>5, <2>1
  <2>3. TrimEnd(TrimStart(SubSeq(line, 1, 1))) = <<x>>
    <3> DEFINE u == SubSeq(line, 1, 1)
    <3>1. 1 \in Nat /\ 1 <= Len(line)
      BY <1>2, <1>7 DEF n
    <3>2. u \in Seq(Symbols) /\ Len(u) = 1 /\ \A j \in 1..1 : u[j] = line[j]
      BY <1>2, <3>1, CutFront
    <3> HIDE DEF u
    <3>3. u = <<x>>
      BY <1>8, <3>2
    <3>4. x \notin Space
      BY <1>1 DEF Word, Text, Space
    <3>5. QED
      BY <3>3, <3>4, TrimKey DEF u
  <2>4. PICK y \in 0..V : y = m - 2
    BY <1>1, <1>3, <1>11
  <2>5. y \in Nat /\ 2 + y = m /\ m <= n /\ y <= V
    BY <1>1, <1>2, <1>3, <1>4, <2>4
  <2>6. SubSeq(line, 2 + 1, m) = SubSeq(v, 1, y)
    <3>1. v \in Seq(Symbols) /\ 2 \in Nat /\ 0 \in Nat /\ 2 + y <= Len(line) /\ 0 + y <= Len(v)
      <4>1. Text \subseteq Symbols
        BY DEF Text
      <4>2. QED
        <5>1. v \in Seq(Symbols)
          BY <1>1, <4>1
        <5>2. 2 + y <= n /\ 0 + y <= V
          BY <2>5
        <5>3. QED
          BY <5>1, <5>2 DEF n, V
    <3>2. Alike(line, v, 2, 0, y)
      <4>1. ASSUME NEW j \in 1..y PROVE line[2 + j] = v[0 + j]
        <5>1. 2 + j \in 1..m /\ j \in 1..V /\ 0 + j = j
          <6>1. V \in Nat /\ y \in Nat /\ m \in Nat /\ 2 + y = m /\ y <= V
            BY <1>1, <1>4, <2>5
          <6>2. QED
            BY <6>1
        <5>2. QED
          BY <1>1, <1>3, <5>1
      <4>2. QED
        BY <4>1 DEF Alike
    <3>3. SameCuts(line, v, 2, 0, y)
      BY <1>2, <2>5, <3>1, <3>2, SameCut
    <3>4. 0 + y = y /\ 0 + 1 = 1
      BY <2>5
    <3>5. QED
      BY <2>5, <3>3, <3>4 DEF SameCuts
  <2> DEFINE u == SubSeq(line, 2 + 1, m)
             w == SubSeq(line, 2 + 1, n)
  <2>7. u \in Seq(Symbols) /\ Len(u) = m - 2 /\ \A j \in 1..(m - 2) : u[j] = line[2 + j]
    <3>1. 2 \in Nat /\ m \in Nat /\ 2 <= m /\ m <= Len(line)
      BY <1>4, <1>11, <2>5 DEF n
    <3>2. QED
      BY <1>2, <3>1, Cut
  <2>8. w \in Seq(Symbols) /\ Len(w) = n - 2 /\ \A j \in 1..(n - 2) : w[j] = line[2 + j]
    <3>1. 2 \in Nat /\ n \in Nat /\ 2 <= n /\ n <= Len(line)
      BY <1>2, <1>4, <1>11, <2>5 DEF n
    <3>2. QED
      BY <1>2, <3>1, Cut
  <2>9. TrimEnd(w) = TrimEnd(u)
    <3>1. CASE n = m
      BY <3>1
    <3>2. CASE n # m
      <4>1. n = m + 1 /\ line[n] = "LF"
        BY <1>3, <3>2 DEF n
      <4> HIDE DEF u, w
      <4>2. Append(u, "LF") = w
        <5> DEFINE z == Append(u, "LF")
        <5>1. "LF" \in Symbols
          BY SymbolAssumption
        <5>2. z \in Seq(Symbols) /\ Len(z) = Len(u) + 1 /\ z[Len(u) + 1] = "LF" /\ \A j \in 1..Len(u) : z[j] = u[j]
          BY <2>7, <5>1, AppendProperties
        <5> HIDE DEF z
        <5>3. Len(z) = y + 1 /\ Len(w) = y + 1 /\ z[y + 1] = "LF" /\ (\A j \in 1..y : z[j] = line[2 + j])
              /\ (\A j \in 1..(y + 1) : w[j] = line[2 + j])
          <6>1. m - 2 = y /\ n - 2 = y + 1
            BY <1>4, <2>5, <4>1
          <6>2. QED
            BY <2>7, <2>8, <5>2, <6>1
        <5>4. w[y + 1] = "LF"
          <6>1. y + 1 \in 1..(y + 1) /\ 2 + (y + 1) = n
            BY <1>4, <2>5, <4>1
          <6>2. QED
            BY <4>1, <5>3, <6>1
        <5>5. \A j \in 1..Len(z) : z[j] = w[j]
          <6>1. \A j \in 1..(y + 1) : (j \in 1..y \/ j = y + 1)
            BY <2>5
          <6>2. QED
            BY <5>3, <5>4, <6>1
        <5>6. z = w
          BY <2>8, <5>2, <5>3, <5>5, SeqEqual
        <5>7. QED
          BY <5>6 DEF z
      <4>3. QED
        BY <2>7, <4>2, TrimLine, SymbolAssumption
    <3>3. QED
      BY <3>1, <3>2
  <2>10. m = Len(l) <=> y = V
    BY <1>1, <2>5
  <2>11. properties' = Added(properties, <<x>>, TrimEnd(SubSeq(v, 1, y)))
    BY <2>2, <2>3, <2>6, <2>9
  <2>12. m - 2 = y
    BY <2>4
  <2>13. QED
    BY <1>11, <2>4, <2>10, <2>11, <2>12 DEF l, V
<1>12. QED
  BY <1>4, <1>10, <1>11

\* A header, or the beginning of one, is read behind all the lines before.
LEMMA HeaderRead ==
  ASSUME request \in Requests, Header, NEW h \in 1..Len(request.headers),
         properties = RawHeaders(SubSeq(request.headers, 1, h - 1)),
         NEW m, UpTo(line, Line(request, h + 1), m),
         Len(line) = m \/ line[Len(line)] = "LF"
  PROVE  /\ FieldsPrefix'
         /\ m = Len(Line(request, h + 1)) => properties' = RawHeaders(SubSeq(request.headers, 1, h))
<1> DEFINE hs == request.headers
<1>1. request' = request /\ hs \in Seq(Field) /\ Len(hs) \in Nat
  BY Asks, LenProperties DEF Header
<1>2. h \in Nat /\ h \in DOMAIN hs
  BY <1>1
<1>3. CASE m < 2 /\ properties' = properties
  <2>1. m # Len(Line(request, h + 1))
    <3>1. h + 1 <= Len(Written(request)) /\ Len(Written(request)[h + 1]) = 2 + Len(hs[h].val) /\ Len(hs[h].val) \in Nat
      <4>1. Len(Written(request)) = Len(hs) + 1
        BY WrittenTyped
      <4>2. h + 1 <= Len(Written(request))
        BY <1>1, <4>1
      <4>3. Len(Written(request)[h + 1]) = 2 + Len(hs[h].val) /\ Len(hs[h].val) \in Nat
        BY HeaderLine
      <4>4. QED
        BY <4>2, <4>3
    <3>2. Line(request, h + 1) = Written(request)[h + 1]
      BY <3>1 DEF Line
    <3> DEFINE z == Len(hs[h].val)
    <3>3. Len(Line(request, h + 1)) = 2 + z /\ z \in Nat
      BY <3>1, <3>2
    <3> HIDE DEF z
    <3>4. m \in Nat
      BY DEF UpTo
    <3>5. QED
      BY <1>3, <3>3, <3>4
  <2>2. CASE h = 1
    <3>1. SubSeq(hs, 1, h - 1) = <<>>
      BY <2>2, SubSeqEmpty
    <3>2. properties' = <<>>
      BY <1>3, <3>1, NoHeaders
    <3>3. QED
      BY <2>1, <3>2 DEF FieldsPrefix
  <2>3. CASE h # 1
    <3>1. PICK n \in 1..Len(hs) : n = h - 1
      BY <1>1, <2>3
    <3>2. PICK y \in 0..Len(hs[n].val) : y = Len(hs[n].val)
      <4>1. Len(hs[n].val) \in Nat
        BY HeaderLine
      <4>2. QED
        BY <4>1
    <3>3. Shortened(hs, n, y) = SubSeq(hs, 1, n)
      BY <1>1, <3>2, HeadersCut
    <3>4. properties' = RawHeaders(Shortened(hs, n, y)) /\ n \in DOMAIN hs
      <4>1. DOMAIN hs = 1..Len(hs)
        BY <1>1
      <4>2. properties = RawHeaders(SubSeq(hs, 1, n))
        BY <3>1
      <4>3. QED
        BY <1>3, <3>1, <3>3, <4>1, <4>2
    <3>5. QED
      BY <1>1, <2>1, <3>4 DEF FieldsPrefix, Shortened
  <2>4. QED
    BY <2>2, <2>3
<1>4. CASE /\ m >= 2 /\ m - 2 \in 0..Len(hs[h].val)
           /\ (m = Len(Line(request, h + 1)) <=> m - 2 = Len(hs[h].val))
           /\ properties' = Added(properties, <<hs[h].key>>, TrimEnd(SubSeq(hs[h].val, 1, m - 2)))
  <2>1. PICK y \in 0..Len(hs[h].val) : y = m - 2
    BY <1>4
  <2>2. /\ RawHeaders(Shortened(hs, h, y)) =
             Added(RawHeaders(SubSeq(hs, 1, h - 1)), <<hs[h].key>>, TrimEnd(SubSeq(hs[h].val, 1, y)))
        /\ y = Len(hs[h].val) => Shortened(hs, h, y) = SubSeq(hs, 1, h)
    BY <1>1, HeadersCut
  <2>3. properties' = RawHeaders(Shortened(hs, h, y))
    BY <1>4, <2>1, <2>2
  <2>4. FieldsPrefix'
    BY <1>1, <1>2, <2>3 DEF FieldsPrefix, Shortened
  <2>5. m = Len(Line(request, h + 1)) => properties' = RawHeaders(SubSeq(hs, 1, h))
    BY <1>4, <2>1, <2>2, <2>3
  <2>6. QED
    BY <2>4, <2>5
<1>5. QED
  BY <1>3, <1>4, HeaderLineRead

\* The values are made of what requests are made of.
LEMMA HeaderTyped ==
  ASSUME Header, line \in Seq(Symbols), \A key \in DOMAIN properties : properties[key] \in Seq(Symbols)
  PROVE  (\A key \in DOMAIN properties : properties[key] \in Seq(Symbols))'
<1> DEFINE sep == Find(line, 1, {":"})
           n == Len(line)
<1>1. n \in Nat /\ 1 \in 1..(n + 1)
  BY LenProperties
<1>2. sep \in 1..(n + 1)
  BY <1>1, Found
<1>3. CASE sep <= n
  <2> DEFINE key == TrimEnd(TrimStart(SubSeq(line, 1, sep - 1)))
             val == TrimEnd(SubSeq(line, sep + 1, n))
  <2>1. properties' = Added(properties, key, val)
    BY <1>3 DEF Header, SetProperty, Added
  <2>2. val \in Seq(Symbols)
    <3>1. sep \in Nat /\ n \in Nat /\ sep <= n /\ n <= Len(line)
      BY <1>1, <1>2, <1>3
    <3> HIDE DEF n, sep
    <3>2. SubSeq(line, sep + 1, n) \in Seq(Symbols)
      BY <3>1, Cut
    <3>3. QED
      BY <3>2, TrimTyped
  <2> HIDE DEF key, val
  <2>3. QED
    BY <2>1, <2>2 DEF Added
<1>4. CASE ~(sep <= n)
  <2>1. properties' = properties
    BY <1>4 DEF Header
  <2>2. QED
    BY <2>1
<1>5. QED
  BY <1>3, <1>4
-----------------------------------------------------------------------------
(* The query. *)

\* The query place by place: parameter k begins behind place ParamAt(r, k).
ParamAt(r, k)  == Len(Layers(QueryParts(r), k - 1))
ParamOf(r, k)  == ParamText(r.query[k])
QueryPlace(r, k) ==
  /\ ParamAt(r, k) \in Nat /\ Len(ParamOf(r, k)) \in Nat \ {0}
  /\ Len(Layers(QueryParts(r), k)) = ParamAt(r, k) + 1 + Len(ParamOf(r, k))
  /\ ParamAt(r, k) + Len(ParamOf(r, k)) <= Len(QueryText(r))
  /\ \A j \in 1..Len(ParamOf(r, k)) : /\ QueryText(r)[ParamAt(r, k) + j] = ParamOf(r, k)[j]
                                      /\ ParamOf(r, k)[j] # "&"
  /\ k = 1 => ParamAt(r, k) = 0
  /\ k # 1 => ParamAt(r, k) >= 1 /\ QueryText(r)[ParamAt(r, k)] = "&"

\* What a parameter is as it is written.
LEMMA ParamTyped ==
  ASSUME NEW p \in QueryParam
  PROVE  /\ p.key \in Seq(Word \ {"&", "="}) /\ Len(p.key) \in Nat \ {0}
         /\ ParamText(p) \in Seq(Word \ {"&"}) /\ Len(ParamText(p)) \in Nat /\ Len(ParamText(p)) >= Len(p.key)
         /\ \A j \in 1..Len(p.key) : ParamText(p)[j] = p.key[j] /\ p.key[j] # "="
         /\ p.val = None => Len(ParamText(p)) = Len(p.key)
         /\ p.val # None => /\ p.val \in Seq(Word \ {"&"}) /\ Len(p.val) \in Nat
                            /\ Len(ParamText(p)) = Len(p.key) + 1 + Len(p.val)
                            /\ ParamText(p)[Len(p.key) + 1] = "="
                            /\ \A j \in 1..Len(p.val) : ParamText(p)[Len(p.key) + 1 + j] = p.val[j]
<1> DEFINE S == Word \ {"&"}
           k == p.key
           v == p.val
           e == <<"=">>
           w == ParamText(p)
<1>1. k \in Seq(Word \ {"&", "="}) /\ k # <<>> /\ (v \in Seq(S) \/ v = None)
  BY DEF QueryParam
<1>2. k \in Seq(S) /\ Len(k) \in Nat \ {0} /\ \A j \in 1..Len(k) : k[j] # "="
  <2>1. Word \ {"&", "="} \subseteq S
    OBVIOUS
  <2>2. k \in Seq(S)
    BY <1>1, <2>1
  <2>3. Len(k) \in Nat /\ Len(k) # 0
    BY <1>1, EmptySeq, LenProperties
  <2>4. \A j \in 1..Len(k) : k[j] \in Word \ {"&", "="}
    BY <1>1, ElementOfSeq
  <2>5. QED
    BY <2>2, <2>3, <2>4
<1>3. e \in Seq(S) /\ Len(e) = 1 /\ e[1] = "="
  <2>1. "=" \in S
    BY SymbolAssumption DEF Word, Text
  <2>2. QED
    BY <2>1
<1>4. v = None => w = k
  BY DEF ParamText
<1>5. v # None => w = (k \o e) \o v
  BY DEF ParamText
<1> HIDE DEF k, v, e, w, S
<1>6. CASE v = None
  <2>1. w \in Seq(S) /\ Len(w) = Len(k) /\ \A j \in 1..Len(k) : w[j] = k[j]
    BY <1>2, <1>4, <1>6
  <2>2. QED
    BY <1>1, <1>2, <1>6, <2>1 DEF k, v, w, S
<1>7. CASE v # None
  <2>1. v \in Seq(S) /\ Len(v) \in Nat
    BY <1>1, <1>7, LenProperties
  <2> DEFINE u == k \o e
             z == u \o v
  <2>2. Glued(S, u, k, e) /\ u \in Seq(S)
    BY <1>2, <1>3, Glue, ConcatProperties
  <2> HIDE DEF u
  <2>3. Glued(S, z, u, v) /\ z \in Seq(S)
    BY <2>1, <2>2, Glue, ConcatProperties
  <2>4. w = z
    BY <1>5, <1>7 DEF u
  <2> HIDE DEF z
  <2>5. Len(u) = Len(k) + 1 /\ (\A j \in 1..Len(k) : u[j] = k[j]) /\ (\A j \in 1..1 : u[Len(k) + j] = e[j])
    BY <1>3, <2>2 DEF Glued
  <2>6. Len(z) = Len(u) + Len(v) /\ (\A j \in 1..Len(u) : z[j] = u[j]) /\ (\A j \in 1..Len(v) : z[Len(u) + j] = v[j])
    BY <2>3 DEF Glued
  <2>7. \A j \in 1..Len(k) : j \in 1..Len(u) /\ z[j] = k[j]
    <3>1. \A j \in 1..Len(k) : j \in 1..Len(u)
      BY <1>2, <2>5
    <3>2. QED
      BY <2>5, <2>6, <3>1
  <2>8. z[Len(k) + 1] = "="
    <3>1. Len(k) + 1 \in 1..Len(u) /\ 1 \in 1..1
      BY <1>2, <2>5
    <3>2. QED
      BY <1>3, <2>5, <2>6, <3>1
  <2>9. \A j \in 1..Len(v) : z[Len(k) + 1 + j] = v[j]
    BY <2>5, <2>6
  <2>10. Len(z) = Len(k) + 1 + Len(v) /\ Len(z) >= Len(k) /\ Len(z) \in Nat
    BY <1>2, <2>1, <2>5, <2>6
  <2>11. QED
    BY <1>1, <1>2, <1>7, <2>1, <2>3, <2>4, <2>7, <2>8, <2>9, <2>10 DEF k, v, w, S
<1>8. QED
  BY <1>6, <1>7

\* The text of a query is all of it but the question mark.
LEMMA QueryTail ==
  ASSUME NEW r \in Requests
  PROVE  /\ QueryText(r) \in Seq(Word)
         /\ Len(FlattenSeq(QueryParts(r))) \in Nat
         /\ Len(QueryText(r)) = (IF Len(FlattenSeq(QueryParts(r))) = 0 THEN 0 ELSE Len(FlattenSeq(QueryParts(r))) - 1)
         /\ \A j \in 1..Len(QueryText(r)) : QueryText(r)[j] = FlattenSeq(QueryParts(r))[1 + j]
<1> DEFINE q == FlattenSeq(QueryParts(r))
           t == SubSeq(q, 2, Len(q))
<1>1. q \in Seq(Word) /\ Len(q) \in Nat
  BY QueryMark, LenProperties
<1>2. t = QueryText(r)
  BY DEF QueryText
<1> HIDE DEF q
<1>3. CASE Len(q) = 0
  <2>1. t = <<>>
    BY <1>3, SubSeqEmpty
  <2> HIDE DEF t
  <2>2. t \in Seq(Word) /\ Len(t) = 0
    BY <2>1, EmptySeq
  <2>3. QED
    BY <1>1, <1>2, <1>3, <2>2 DEF q
<1>4. CASE Len(q) # 0
  <2>1. PICK z \in Nat : z = Len(q)
    BY <1>1
  <2>2. 1 \in Nat /\ 1 <= z /\ z <= Len(q)
    BY <1>4, <2>1
  <2>3. /\ SubSeq(q, 1 + 1, z) \in Seq(Word) /\ Len(SubSeq(q, 1 + 1, z)) = z - 1
        /\ \A j \in 1..(z - 1) : SubSeq(q, 1 + 1, z)[j] = q[1 + j]
    BY <1>1, <2>2, Cut
  <2>4. t = SubSeq(q, 1 + 1, z)
    <3>1. 1 + 1 = 2
      OBVIOUS
    <3>2. QED
      BY <2>1, <3>1, Zenon
  <2> HIDE DEF t
  <2>5. QED
    BY <1>1, <1>2, <1>4, <2>1, <2>3, <2>4 DEF q
<1>5. QED
  BY <1>3, <1>4

LEMMA QueryPlaces ==
  ASSUME NEW r \in Requests, NEW k \in 1..Len(r.query)
  PROVE  QueryPlace(r, k)
<1> DEFINE s == QueryParts(r)
           q == FlattenSeq(s)
           t == QueryText(r)
           w == ParamOf(r, k)
           a == ParamAt(r, k)
           b == Len(Layers(s, k))
           l == Len(w)
           m == IF k = 1 THEN "?" ELSE "&"
           u == <<m>>
<1>1. s \in Seq(Seq(Word)) /\ Len(s) = Len(r.query) /\ r.query[k] \in QueryParam /\ s[k] = u \o w
  BY QueryTyped DEF ParamOf
<1>2. l \in Nat \ {0} /\ w \in Seq(Word \ {"&"})
  <2> DEFINE p == r.query[k]
  <2>1. p \in QueryParam
    BY <1>1
  <2> HIDE DEF p
  <2>2. Len(p.key) \in Nat \ {0} /\ ParamText(p) \in Seq(Word \ {"&"}) /\ Len(ParamText(p)) \in Nat
        /\ Len(ParamText(p)) >= Len(p.key)
    BY <2>1, ParamTyped
  <2> DEFINE x == Len(p.key)
             y == Len(ParamText(p))
  <2>3. x \in Nat \ {0} /\ y \in Nat /\ y >= x
    BY <2>2
  <2> HIDE DEF x, y
  <2>4. y \in Nat \ {0}
    BY <2>3
  <2>5. QED
    BY <2>2, <2>4 DEF ParamOf, p, y
<1>3. /\ a \in Nat /\ Len(s[k]) \in Nat /\ Len(q) \in Nat
      /\ b = a + Len(s[k]) /\ b <= Len(q)
      /\ \A j \in 1..Len(s[k]) : q[a + j] = s[k][j]
  <2>1. k \in 1..Len(s)
    BY <1>1
  <2> HIDE DEF s
  <2>2. /\ Len(Layers(s, k - 1)) \in Nat /\ Len(s[k]) \in Nat /\ Len(FlattenSeq(s)) \in Nat
        /\ Len(Layers(s, k)) = Len(Layers(s, k - 1)) + Len(s[k])
        /\ Len(Layers(s, k)) <= Len(FlattenSeq(s))
        /\ \A j \in 1..Len(s[k]) : FlattenSeq(s)[Len(Layers(s, k - 1)) + j] = s[k][j]
    BY <1>1, <2>1, LayerBytes
  <2>3. QED
    BY <2>2 DEF ParamAt, s
<1> HIDE DEF s, q, w, a, b, l
<1>4. /\ Len(u \o w) = 1 + l /\ (u \o w)[1] = m /\ \A j \in 1..l : (u \o w)[1 + j] = w[j]
  <2>1. m \in Word /\ Word \ {"&"} \subseteq Word
    BY SymbolAssumption DEF Word, Text
  <2> HIDE DEF m
  <2>2. u \in Seq(Word) /\ Len(u) = 1 /\ u[1] = m
    BY <2>1
  <2> HIDE DEF u
  <2>3. w \in Seq(Word)
    BY <1>2, <2>1
  <2> DEFINE z == u \o w
  <2>4. Glued(Word, z, u, w)
    BY <2>2, <2>3, Glue
  <2> HIDE DEF z
  <2>5. Len(z) = 1 + l /\ z[1] = m /\ \A j \in 1..l : z[1 + j] = w[j]
    BY <2>2, <2>4 DEF Glued, l
  <2>6. QED
    BY <2>5 DEF z
<1> HIDE DEF u, m
<1>5. /\ b = a + (1 + l) /\ b <= Len(q) /\ Len(q) \in Nat /\ q[a + 1] = m
      /\ \A j \in 1..l : q[a + (1 + j)] = w[j]
  <2>1. Len(s[k]) = 1 + l
    BY <1>1, <1>4
  <2>2. 1 \in 1..(1 + l) /\ \A j \in 1..l : 1 + j \in 1..(1 + l)
    BY <1>2
  <2>3. s[k][1] = m /\ \A j \in 1..l : s[k][1 + j] = w[j]
    BY <1>1, <1>4
  <2>4. QED
    BY <1>3, <2>1, <2>2, <2>3
<1>6. /\ Len(t) = Len(q) - 1 /\ \A j \in 1..Len(t) : t[j] = q[1 + j]
  <2>1. Len(q) # 0
    BY <1>2, <1>3, <1>5
  <2>2. QED
    BY <2>1, QueryTail DEF q, s
<1> HIDE DEF t
<1>7. b = a + 1 + l /\ a + l <= Len(t)
  BY <1>2, <1>3, <1>5, <1>6
<1>8. ASSUME NEW j \in 1..l PROVE t[a + j] = w[j] /\ w[j] # "&"
  <2>1. a + j \in 1..Len(t) /\ 1 + (a + j) = a + (1 + j)
    BY <1>2, <1>3, <1>5, <1>6
  <2>2. w[j] \in Word \ {"&"}
    BY <1>2, ElementOfSeq DEF l
  <2>3. QED
    BY <1>5, <1>6, <2>1, <2>2
<1>9. ASSUME k = 1 PROVE a = 0
  <2>1. Layers(s, k - 1) = <<>> /\ Len(<<>>) = 0
    BY <1>9, LayersStart, EmptySeq
  <2>2. QED
    BY <2>1 DEF a, ParamAt, s
<1>10. ASSUME k # 1 PROVE a >= 1 /\ t[a] = "&"
  <2>1. PICK h \in 1..Len(s) : h = k - 1
    BY <1>1, <1>10
  <2>2. /\ Len(Layers(s, h - 1)) \in Nat /\ Len(s[h]) \in Nat /\ Len(Layers(s, h)) = Len(Layers(s, h - 1)) + Len(s[h])
    BY <1>1, <2>1, LayerBytes
  <2>3. Len(s[h]) >= 1
    <3>1. h \in 1..Len(r.query) /\ s[h] = (IF h = 1 THEN <<"?">> ELSE <<"&">>) \o ParamText(r.query[h])
          /\ ParamText(r.query[h]) \in Seq(Word \ {"&"})
      BY <1>1, <2>1, QueryTyped DEF s
    <3>2. "?" \in Word /\ "&" \in Word /\ Word \ {"&"} \subseteq Word
      BY SymbolAssumption DEF Word, Text
    <3> DEFINE g == ParamText(r.query[h])
               o == IF h = 1 THEN <<"?">> ELSE <<"&">>
    <3>3. o \in Seq(Word) /\ Len(o) = 1
      BY <3>2
    <3>4. g \in Seq(Word)
      BY <3>1, <3>2
    <3> HIDE DEF g, o
    <3>5. Len(o \o g) = Len(o) + Len(g) /\ Len(g) \in Nat
      BY <3>3, <3>4, ConcatProperties, LenProperties
    <3>6. s[h] = o \o g
      BY <3>1 DEF o, g
    <3>7. QED
      BY <3>3, <3>5, <3>6
  <2>4. a = Len(Layers(s, h))
    BY <2>1 DEF a, ParamAt, s
  <2> DEFINE x == Len(Layers(s, h - 1))
             y == Len(s[h])
  <2>5. a = x + y /\ x \in Nat /\ y \in Nat /\ y >= 1
    BY <2>2, <2>3, <2>4
  <2> HIDE DEF x, y
  <2>6. a >= 1
    BY <2>5
  <2>7. a \in 1..Len(t) /\ 1 + a = a + 1
    BY <1>2, <1>3, <1>7, <2>6
  <2>8. t[a] = m
    BY <1>5, <1>6, <2>7
  <2>9. QED
    BY <1>10, <2>6, <2>8 DEF m
<1>11. QED
  BY <1>2, <1>3, <1>7, <1>8, <1>9, <1>10 DEF QueryPlace, a, b, l, w, t, s

\* In which parameter a place is, and what comes behind a parameter.
LEMMA ParamOrder ==
  ASSUME NEW r \in Requests, NEW k \in 1..Len(r.query), NEW h \in 1..Len(r.query), k < h
  PROVE  ParamAt(r, k) + 1 + Len(ParamOf(r, k)) <= ParamAt(r, h)
<1> DEFINE s == QueryParts(r)
<1>1. s \in Seq(Seq(Word)) /\ Len(s) = Len(r.query) /\ Len(r.query) \in Nat
  BY QueryTyped
<1>2. k \in Nat /\ h - 1 \in Nat /\ k <= h - 1 /\ h - 1 <= Len(s)
  BY <1>1
<1> HIDE DEF s
<1>3. Len(Layers(s, k)) <= Len(Layers(s, h - 1))
  BY <1>1, <1>2, LayersLonger
<1>4. Len(Layers(s, k)) = ParamAt(r, k) + 1 + Len(ParamOf(r, k))
  BY QueryPlaces DEF QueryPlace, s
<1>5. QED
  BY <1>3, <1>4 DEF ParamAt, s

LEMMA ParamHere ==
  ASSUME NEW r \in Requests, NEW h \in 1..Len(QueryText(r))
  PROVE  \E k \in 1..Len(r.query) : ParamAt(r, k) <= h /\ h <= ParamAt(r, k) + Len(ParamOf(r, k))
<1> DEFINE s == QueryParts(r)
           q == FlattenSeq(s)
<1>1. s \in Seq(Seq(Word)) /\ Len(s) = Len(r.query) /\ Len(r.query) \in Nat
  BY QueryTyped
<1>2. /\ Len(q) \in Nat /\ Len(QueryText(r)) = IF Len(q) = 0 THEN 0 ELSE Len(q) - 1
  BY QueryTail
<1> HIDE DEF q
<1>3. h \in Nat /\ h < Len(q)
  BY <1>2
<1> HIDE DEF s
<1>4. PICK k \in 1..Len(s) : Len(Layers(s, k - 1)) <= h /\ h < Len(Layers(s, k))
  BY <1>1, <1>3, LayerOf DEF q
<1>5. k \in 1..Len(r.query)
  BY <1>1
<1>6. /\ ParamAt(r, k) \in Nat /\ Len(ParamOf(r, k)) \in Nat
      /\ Len(Layers(s, k)) = ParamAt(r, k) + 1 + Len(ParamOf(r, k))
  BY <1>5, QueryPlaces DEF QueryPlace, s
<1>7. ParamAt(r, k) <= h
  BY <1>4 DEF ParamAt, s
<1>8. h <= ParamAt(r, k) + Len(ParamOf(r, k))
  BY <1>3, <1>4, <1>6
<1>9. QED
  BY <1>5, <1>7, <1>8

LEMMA ParamNext ==
  ASSUME NEW r \in Requests, NEW k \in 1..Len(r.query),
         NEW e, e = ParamAt(r, k) + 1 + Len(ParamOf(r, k)), e <= Len(QueryText(r))
  PROVE  QueryText(r)[e] = "&"
<1> DEFINE a == ParamAt(r, k)
           l == Len(ParamOf(r, k))
<1>1. a \in Nat /\ l \in Nat /\ e = a + 1 + l
  BY QueryPlaces DEF QueryPlace
<1>2. e \in 1..Len(QueryText(r))
  <2>1. Len(QueryText(r)) \in Nat
    BY QueryTail, LenProperties
  <2> HIDE DEF a, l
  <2>2. QED
    BY <1>1, <2>1
<1>3. PICK g \in 1..Len(r.query) : ParamAt(r, g) <= e /\ e <= ParamAt(r, g) + Len(ParamOf(r, g))
  BY <1>2, ParamHere
<1> DEFINE x == ParamAt(r, g)
           y == Len(ParamOf(r, g))
<1>4. x \in Nat /\ y \in Nat /\ x <= e /\ e <= x + y /\ (g # 1 => QueryText(r)[x] = "&")
  BY <1>3, QueryPlaces DEF QueryPlace
<1>5. g < k => x + 1 + y <= a
  BY ParamOrder
<1>6. g > k => e <= x
  BY ParamOrder
<1>7. g = k => x = a /\ y = l
  OBVIOUS
<1> HIDE DEF a, l, x, y
<1>8. g > k
  BY <1>1, <1>4, <1>5, <1>7
<1>9. e = x
  BY <1>1, <1>4, <1>6, <1>8
<1>10. g # 1
  BY <1>8
<1>11. QED
  BY <1>4, <1>9, <1>10

\* How much of a parameter the first y characters of the query show.
Shown(r, y, k) == IF ParamAt(r, k) + Len(ParamOf(r, k)) <= y THEN Len(ParamOf(r, k)) ELSE y - ParamAt(r, k)
TokenOf(r, y, k) == <<ParamAt(r, k) + 1, SubSeq(ParamOf(r, k), 1, Shown(r, y, k))>>
Begun(r, y) == {k \in 1..Len(r.query) : ParamAt(r, k) < y}

IsBegin(s, h) == s[h] # "&" /\ (h = 1 \/ s[h - 1] = "&")

LEMMA TokenBegins ==
  ASSUME NEW r \in Requests, NEW y \in 0..Len(QueryText(r)), NEW s, s = SubSeq(QueryText(r), 1, y), NEW h \in 1..y
  PROVE  IsBegin(s, h) <=> \E k \in 1..Len(r.query) : h = ParamAt(r, k) + 1
<1> DEFINE t == QueryText(r)
<1>1. t \in Seq(Word) /\ Len(t) \in Nat /\ y \in Nat /\ y <= Len(t)
  BY QueryTail, LenProperties
<1>2. \A j \in 1..y : s[j] = t[j]
  BY <1>1, CutFront
<1> HIDE DEF t
<1>3. h \in 1..Len(t) /\ h \in Nat /\ h >= 1
  BY <1>1
<1>4. ASSUME NEW k \in 1..Len(r.query), h = ParamAt(r, k) + 1
      PROVE  s[h] # "&" /\ (h = 1 \/ s[h - 1] = "&")
  <2> DEFINE a == ParamAt(r, k)
             l == Len(ParamOf(r, k))
  <2>1. /\ a \in Nat /\ l \in Nat \ {0} /\ \A j \in 1..l : t[a + j] # "&"
        /\ k = 1 => a = 0
        /\ k # 1 => a >= 1 /\ t[a] = "&"
    BY QueryPlaces DEF QueryPlace, t
  <2> HIDE DEF a, l
  <2>2. h = a + 1
    BY <1>4 DEF a
  <2>3. t[h] # "&"
    <3>1. 1 \in 1..l
      BY <2>1
    <3>2. QED
      BY <2>1, <2>2, <3>1
  <2>4. CASE k = 1
    <3>1. h = 1
      BY <2>1, <2>2, <2>4
    <3>2. QED
      BY <1>2, <2>3, <3>1
  <2>5. CASE k # 1
    <3>1. h - 1 = a /\ a \in 1..y
      BY <1>1, <2>1, <2>2, <2>5
    <3>2. s[h - 1] = "&"
      BY <1>2, <2>1, <2>5, <3>1
    <3>3. QED
      BY <1>2, <2>3, <3>2
  <2>6. QED
    BY <2>4, <2>5
<1>5. ASSUME s[h] # "&", h = 1 \/ s[h - 1] = "&"
      PROVE  \E k \in 1..Len(r.query) : h = ParamAt(r, k) + 1
  <2>1. PICK k \in 1..Len(r.query) : ParamAt(r, k) <= h /\ h <= ParamAt(r, k) + Len(ParamOf(r, k))
    BY <1>3, ParamHere DEF t
  <2> DEFINE a == ParamAt(r, k)
             l == Len(ParamOf(r, k))
  <2>2. /\ a \in Nat /\ l \in Nat \ {0} /\ \A j \in 1..l : t[a + j] # "&"
        /\ k = 1 => a = 0
        /\ k # 1 => a >= 1 /\ t[a] = "&"
        /\ a <= h /\ h <= a + l
    BY <2>1, QueryPlaces DEF QueryPlace, t
  <2> HIDE DEF a, l
  <2>3. t[h] # "&"
    BY <1>2, <1>5
  <2>4. h # a
    BY <1>3, <2>2, <2>3
  <2>5. h = a + 1
    <3> SUFFICES ASSUME h # a + 1 PROVE FALSE
      OBVIOUS
    <3>1. PICK j \in 1..l : j = h - 1 - a
      BY <1>3, <2>2, <2>4
    <3>2. a + j = h - 1 /\ h - 1 \in 1..y /\ h # 1
      BY <1>3, <2>2, <2>4, <3>1
    <3>3. t[h - 1] # "&"
      BY <2>2, <3>2
    <3>4. s[h - 1] = t[h - 1]
      BY <1>2, <3>2
    <3>5. QED
      BY <1>5, <3>2, <3>3, <3>4
  <2>6. QED
    BY <2>5 DEF a
<1>6. QED
  BY <1>4, <1>5 DEF IsBegin

LEMMA TokenText ==
  ASSUME NEW r \in Requests, NEW y \in 0..Len(QueryText(r)), NEW s, s = SubSeq(QueryText(r), 1, y),
         NEW k \in Begun(r, y)
  PROVE  /\ Shown(r, y, k) \in 1..Len(ParamOf(r, k))
         /\ SubSeq(s, ParamAt(r, k) + 1, Find(s, ParamAt(r, k) + 1, {"&"}) - 1) = SubSeq(ParamOf(r, k), 1, Shown(r, y, k))
<1> DEFINE t == QueryText(r)
           a == ParamAt(r, k)
           w == ParamOf(r, k)
           l == Len(w)
           z == Shown(r, y, k)
<1>1. t \in Seq(Word) /\ Len(t) \in Nat /\ y \in Nat /\ y <= Len(t)
  BY QueryTail, LenProperties
<1>2. s \in Seq(Word) /\ Len(s) = y /\ \A j \in 1..y : s[j] = t[j]
  BY <1>1, CutFront
<1>3. k \in 1..Len(r.query) /\ a < y
  BY DEF Begun
<1>4. w \in Seq(Word)
  <2> DEFINE p == r.query[k]
  <2>1. p \in QueryParam
    BY <1>3, QueryTyped
  <2> HIDE DEF p
  <2>2. ParamText(p) \in Seq(Word \ {"&"}) /\ Word \ {"&"} \subseteq Word
    BY <2>1, ParamTyped
  <2>3. ParamText(p) \in Seq(Word)
    BY <2>2
  <2>4. QED
    BY <2>3 DEF p, ParamOf
<1>5. /\ a \in Nat /\ l \in Nat \ {0} /\ a + l <= Len(t)
      /\ \A j \in 1..l : t[a + j] = w[j] /\ w[j] # "&"
  BY <1>3, QueryPlaces DEF QueryPlace
<1>6. a + 1 + l <= Len(t) => t[a + 1 + l] = "&"
  BY <1>3, ParamNext
<1>7. z = IF a + l <= y THEN l ELSE y - a
  BY DEF Shown
<1> HIDE DEF t, a, w, l, z
<1>8. /\ z \in 1..l /\ a + z <= y /\ (z # l => a + z = y)
  <2>1. CASE a + l <= y
    BY <1>1, <1>3, <1>5, <1>7, <2>1
  <2>2. CASE ~(a + l <= y)
    BY <1>1, <1>3, <1>5, <1>7, <2>2
  <2>3. QED
    BY <2>1, <2>2
<1>9. PICK e \in Nat : e = a + z + 1
  BY <1>5, <1>8
<1>10. PICK b \in Nat : b = a + 1
  BY <1>5
<1>11. Find(s, b, {"&"}) = e
  <2>1. b \in 1..(y + 1) /\ e \in b..(y + 1)
    BY <1>1, <1>5, <1>8, <1>9, <1>10
  <2>2. ASSUME e <= y PROVE s[e] \in {"&"}
    <3>1. z = l
      BY <1>1, <1>5, <1>8, <1>9, <2>2
    <3>2. e = a + 1 + l /\ e <= Len(t) /\ e \in 1..y
      BY <1>1, <1>5, <1>9, <2>2, <3>1
    <3>3. QED
      BY <1>2, <1>6, <3>2
  <2>3. ASSUME NEW j \in b..(e - 1) PROVE s[j] \notin {"&"}
    <3>1. PICK g \in 1..l : g = j - a
      BY <1>5, <1>8, <1>9, <1>10
    <3>2. a + g = j /\ j \in 1..y
      BY <1>1, <1>5, <1>8, <1>9, <1>10, <3>1
    <3>3. s[j] = t[a + g] /\ t[a + g] = w[g] /\ w[g] # "&"
      BY <1>2, <1>5, <3>2
    <3>4. QED
      BY <3>3
  <2>4. QED
    BY <1>1, <1>2, <2>1, <2>2, <2>3, FindIs
<1>12. SubSeq(s, a + 1, a + z) = SubSeq(w, 1, z)
  <2>1. 0 \in Nat /\ z \in Nat /\ a + z <= Len(s) /\ 0 + z <= Len(w) /\ 0 + z = z /\ 0 + 1 = 1
    BY <1>2, <1>5, <1>8 DEF l
  <2>2. Alike(s, w, a, 0, z)
    <3>1. ASSUME NEW j \in 1..z PROVE s[a + j] = w[0 + j]
      <4>1. j \in 1..l /\ a + j \in 1..y /\ 0 + j = j
        BY <1>1, <1>5, <1>8
      <4>2. QED
        BY <1>2, <1>5, <4>1
    <3>2. QED
      BY <3>1 DEF Alike
  <2>3. SameCuts(s, w, a, 0, z)
    BY <1>2, <1>4, <1>5, <2>1, <2>2, SameCut
  <2>4. QED
    BY <2>1, <2>3 DEF SameCuts
<1>13. e - 1 = a + z
  BY <1>5, <1>8, <1>9
<1>14. SubSeq(s, a + 1, Find(s, a + 1, {"&"}) - 1) = SubSeq(w, 1, z)
  BY <1>10, <1>11, <1>12, <1>13
<1>15. QED
  BY <1>8, <1>14 DEF a, w, z, l

LEMMA TokensAre ==
  ASSUME NEW r \in Requests, NEW y \in 0..Len(QueryText(r))
  PROVE  Tokens(SubSeq(QueryText(r), 1, y)) = {TokenOf(r, y, k) : k \in Begun(r, y)}
<1> DEFINE s == SubSeq(QueryText(r), 1, y)
           B == {i \in 1..y : s[i] # "&" /\ (i = 1 \/ s[i - 1] = "&")}
<1>1. Len(s) = y /\ DOMAIN s = 1..y /\ y \in Nat
  <2>1. QueryText(r) \in Seq(Word) /\ Len(QueryText(r)) \in Nat
    BY QueryTail, LenProperties
  <2>2. y \in Nat /\ y <= Len(QueryText(r))
    BY <2>1
  <2>3. s \in Seq(Word) /\ Len(s) = y
    BY <2>1, <2>2, CutFront
  <2> HIDE DEF s
  <2>4. QED
    BY <2>2, <2>3
<1>2. Tokens(s) = {<<i, SubSeq(s, i, Find(s, i, {"&"}) - 1)>> : i \in B}
  <2> HIDE DEF s
  <2> QED
    BY <1>1 DEF Tokens
<1>3. ASSUME NEW i PROVE i \in B <=> \E k \in Begun(r, y) : i = ParamAt(r, k) + 1
  <2>1. ASSUME i \in B PROVE \E k \in Begun(r, y) : i = ParamAt(r, k) + 1
    <3>1. i \in 1..y /\ IsBegin(s, i)
      BY <2>1 DEF IsBegin
    <3>2. PICK k \in 1..Len(r.query) : i = ParamAt(r, k) + 1
      <4>1. s = SubSeq(QueryText(r), 1, y)
        OBVIOUS
      <4> HIDE DEF s, B
      <4>2. IsBegin(s, i) <=> \E k \in 1..Len(r.query) : i = ParamAt(r, k) + 1
        BY <3>1, <4>1, TokenBegins
      <4>3. QED
        BY <3>1, <4>2
    <3>3. ParamAt(r, k) \in Nat
      BY QueryPlaces DEF QueryPlace
    <3>4. ParamAt(r, k) < y
      BY <3>1, <3>2, <3>3
    <3>5. QED
      BY <3>2, <3>4 DEF Begun
  <2>2. ASSUME NEW k \in Begun(r, y), i = ParamAt(r, k) + 1 PROVE i \in B
    <3>1. k \in 1..Len(r.query) /\ ParamAt(r, k) < y
      BY DEF Begun
    <3>2. ParamAt(r, k) \in Nat
      BY <3>1, QueryPlaces DEF QueryPlace
    <3>3. i \in 1..y
      BY <1>1, <2>2, <3>1, <3>2
    <3>4. IsBegin(s, i)
      BY <2>2, <3>1, <3>3, TokenBegins
    <3>5. QED
      BY <3>3, <3>4 DEF IsBegin
  <2>3. QED
    BY <2>1, <2>2
<1> HIDE DEF B
<1>4. ASSUME NEW k \in Begun(r, y)
      PROVE  <<ParamAt(r, k) + 1, SubSeq(s, ParamAt(r, k) + 1, Find(s, ParamAt(r, k) + 1, {"&"}) - 1)>> = TokenOf(r, y, k)
  BY TokenText DEF TokenOf
<1> HIDE DEF s
<1>5. Tokens(s) = {TokenOf(r, y, k) : k \in Begun(r, y)}
  <2> DEFINE at(i) == <<i, SubSeq(s, i, Find(s, i, {"&"}) - 1)>>
             C == Begun(r, y)
             tok(k) == TokenOf(r, y, k)
             from(k) == ParamAt(r, k) + 1
  <2>1. Tokens(s) = {at(i) : i \in B}
    BY <1>2
  <2>2. \A k \in C : at(from(k)) = tok(k) /\ from(k) \in B
    BY <1>3, <1>4
  <2>3. \A i \in B : \E k \in C : i = from(k)
    BY <1>3
  <2> HIDE DEF at, C, tok, from
  <2>4. {at(i) : i \in B} = {tok(k) : k \in C}
    <3>1. \A i \in B : \E k \in C : at(i) = tok(k)
      BY <2>2, <2>3
    <3>2. \A k \in C : \E i \in B : at(i) = tok(k)
      BY <2>2
    <3>3. QED
      BY <3>1, <3>2
  <2>5. QED
    BY <2>1, <2>4 DEF tok, C
<1>6. QED
  BY <1>5 DEF s

\* The front of a sequence is a prefix of it.
LEMMA FrontIsPrefix ==
  ASSUME NEW S, NEW s \in Seq(S), NEW k \in 0..Len(s)
  PROVE  IsPrefix(SubSeq(s, 1, k), s)
<1>1. 0 \in Nat /\ k \in Nat /\ Len(s) \in Nat /\ 0 <= k /\ k <= Len(s) /\ 0 + 1 = 1 /\ Len(s) <= Len(s)
  BY LenProperties
<1> DEFINE u == SubSeq(s, 1, k)
           v == SubSeq(s, k + 1, Len(s))
<1>2. u \o v = s
  <2>1. PICK n \in Nat : n = Len(s)
    BY <1>1
  <2>2. k <= n /\ n <= Len(s)
    BY <1>1, <2>1
  <2>3. SubSeq(s, 0 + 1, k) \o SubSeq(s, k + 1, n) = SubSeq(s, 0 + 1, n)
    BY <1>1, <2>2, CutJoin
  <2>4. SubSeq(s, 1, Len(s)) = s
    BY SubSeqFull
  <2>5. QED
    BY <1>1, <2>1, <2>3, <2>4
<1>3. u \in Seq(S)
  BY <1>1, CutFront
<1>4. v \in Seq(S)
  <2>1. PICK n \in Nat : n = Len(s)
    BY <1>1
  <2>2. k <= n /\ n <= Len(s)
    BY <1>1, <2>1
  <2>3. SubSeq(s, k + 1, n) \in Seq(S)
    BY <1>1, <2>2, Cut
  <2>4. QED
    BY <2>1, <2>3
<1> HIDE DEF u, v
<1>5. IsPrefix(u, u \o v)
  BY <1>3, <1>4, PrefixOfConcat
<1>6. QED
  BY <1>2, <1>5 DEF u

\* What KeyOf and ValOf make of the beginning of a parameter.
KeyVal(p, z, w) ==
  /\ z <= Len(p.key) => KeyOf(w) = SubSeq(p.key, 1, z) /\ ValOf(w) = <<>>
  /\ z > Len(p.key) => /\ p.val # None /\ KeyOf(w) = p.key /\ z - Len(p.key) - 1 \in 0..Len(p.val)
                       /\ ValOf(w) = SubSeq(p.val, 1, z - Len(p.key) - 1)
  /\ z = Len(ParamText(p)) => KeyOf(w) = p.key /\ ValOf(w) = IF p.val = None THEN <<>> ELSE p.val

LEMMA KeyVals ==
  ASSUME NEW p \in QueryParam, NEW z \in 1..Len(ParamText(p)), NEW w, w = SubSeq(ParamText(p), 1, z)
  PROVE  KeyVal(p, z, w)
<1> DEFINE S == Word \ {"&"}
           k == p.key
           v == p.val
           t == ParamText(p)
           K == Len(k)
           V == Len(v)
           L == Len(t)
<1>1. /\ k \in Seq(Word \ {"&", "="}) /\ K \in Nat \ {0} /\ t \in Seq(S) /\ L \in Nat /\ L >= K
      /\ (\A j \in 1..K : t[j] = k[j] /\ k[j] # "=")
      /\ v = None => L = K
      /\ v # None => /\ v \in Seq(S) /\ V \in Nat /\ L = K + 1 + V /\ t[K + 1] = "="
                     /\ \A j \in 1..V : t[K + 1 + j] = v[j]
  BY ParamTyped
<1>2. k \in Seq(S)
  <2>1. Word \ {"&", "="} \subseteq S
    OBVIOUS
  <2>2. QED
    BY <1>1, <2>1
<1> HIDE DEF S, k, v, t
<1>3. z \in Nat /\ z >= 1 /\ z <= L /\ w \in Seq(S) /\ Len(w) = z /\ \A j \in 1..z : w[j] = t[j]
  <2>1. z \in Nat /\ z >= 1 /\ z <= L
    BY <1>1 DEF t
  <2>2. QED
    BY <1>1, <2>1, CutFront DEF t
<1> HIDE DEF K, V, L
<1>4. CASE z <= K
  <2>1. Find(w, 1, {"="}) = z + 1
    <3>1. 1 \in 1..(z + 1) /\ z + 1 \in 1..(z + 1) /\ ~(z + 1 <= z)
      BY <1>3
    <3>2. ASSUME NEW j \in 1..((z + 1) - 1) PROVE w[j] \notin {"="}
      <4>1. j \in 1..z /\ j \in 1..K
        BY <1>1, <1>3, <1>4
      <4>2. QED
        BY <1>1, <1>3, <4>1
    <3>3. QED
      BY <1>3, <3>1, <3>2, FindIs
  <2>2. KeyOf(w) = SubSeq(k, 1, z)
    <3>1. (z + 1) - 1 = z
      BY <1>3
    <3>2. KeyOf(w) = SubSeq(w, 1, z)
      BY <2>1, <3>1 DEF KeyOf
    <3>3. SubSeq(w, 1, z) = w
      BY <1>3, SubSeqFull
    <3> DEFINE u == SubSeq(k, 1, z)
    <3>4. u \in Seq(S) /\ Len(u) = z /\ \A j \in 1..z : u[j] = k[j]
      BY <1>2, <1>3, <1>4, CutFront DEF K
    <3> HIDE DEF u
    <3>5. \A j \in 1..z : w[j] = u[j]
      <4>1. \A j \in 1..z : j \in 1..K
        BY <1>1, <1>3, <1>4
      <4>2. QED
        BY <1>1, <1>3, <3>4, <4>1
    <3>6. w = u
      BY <1>3, <3>4, <3>5, SeqEqual
    <3>7. QED
      BY <3>2, <3>3, <3>6 DEF u
  <2>3. ValOf(w) = <<>>
    <3>1. (z + 1) + 1 \in Int /\ z \in Int /\ z < (z + 1) + 1
      BY <1>3
    <3>2. SubSeq(w, (z + 1) + 1, z) = <<>>
      BY <3>1, SubSeqEmpty
    <3>3. QED
      BY <1>3, <2>1, <3>2 DEF ValOf
  <2>4. ASSUME z = L PROVE KeyOf(w) = k /\ v = None
    <3>1. z = K
      BY <1>1, <1>3, <1>4, <2>4
    <3>2. SubSeq(k, 1, K) = k
      BY <1>2, SubSeqFull DEF K
    <3>3. v = None
      <4> SUFFICES ASSUME v # None PROVE FALSE
        OBVIOUS
      <4>1. L = K + 1 + V /\ V \in Nat
        BY <1>1
      <4>2. QED
        BY <1>1, <2>4, <3>1, <4>1
    <3>4. QED
      BY <2>2, <3>1, <3>2, <3>3
  <2>5. ~(z > K)
    BY <1>1, <1>3, <1>4
  <2>6. QED
    BY <1>4, <2>2, <2>3, <2>4, <2>5 DEF KeyVal, k, v, K, L, t
<1>5. CASE ~(z <= K)
  <2>1. v # None
    BY <1>1, <1>3, <1>5
  <2>2. v \in Seq(S) /\ V \in Nat /\ L = K + 1 + V /\ t[K + 1] = "=" /\ \A j \in 1..V : t[K + 1 + j] = v[j]
    BY <1>1, <2>1
  <2>3. PICK f \in Nat : f = K + 1
    BY <1>1
  <2>4. Find(w, 1, {"="}) = f
    <3>1. 1 \in 1..(z + 1) /\ f \in 1..(z + 1) /\ f \in 1..z
      BY <1>1, <1>3, <1>5, <2>3
    <3>2. w[f] \in {"="}
      BY <1>3, <2>2, <2>3, <3>1
    <3>3. ASSUME NEW j \in 1..(f - 1) PROVE w[j] \notin {"="}
      <4>1. j \in 1..z /\ j \in 1..K
        BY <1>1, <1>3, <1>5, <2>3
      <4>2. QED
        BY <1>1, <1>3, <4>1
    <3>4. QED
      BY <1>3, <3>1, <3>2, <3>3, FindIs
  <2>5. KeyOf(w) = k
    <3>1. f - 1 = K /\ K \in Nat /\ K <= z
      BY <1>1, <1>3, <1>5, <2>3
    <3>2. KeyOf(w) = SubSeq(w, 1, K)
      BY <2>4, <3>1 DEF KeyOf
    <3> DEFINE u == SubSeq(w, 1, K)
    <3>3. u \in Seq(S) /\ Len(u) = K /\ \A j \in 1..K : u[j] = w[j]
      BY <1>3, <3>1, CutFront
    <3> HIDE DEF u
    <3>4. \A j \in 1..K : u[j] = k[j]
      <4>1. \A j \in 1..K : j \in 1..z
        BY <1>1, <1>3, <3>1
      <4>2. QED
        BY <1>1, <1>3, <3>3, <4>1
    <3>5. Len(k) = K
      BY DEF K
    <3>6. u = k
      BY <1>2, <3>3, <3>4, <3>5, SeqEqual
    <3>7. QED
      BY <3>2, <3>6 DEF u
  <2>6. PICK y \in 0..V : y = z - K - 1
    BY <1>1, <1>3, <1>5, <2>2
  <2>7. ValOf(w) = SubSeq(v, 1, y)
    <3>1. y \in Nat /\ f + y = z /\ 0 + y = y /\ 0 + 1 = 1 /\ 0 \in Nat /\ f + y <= Len(w) /\ 0 + y <= Len(v)
      BY <1>1, <1>3, <2>2, <2>3, <2>6 DEF V
    <3>2. Alike(w, v, f, 0, y)
      <4>1. ASSUME NEW j \in 1..y PROVE w[f + j] = v[0 + j]
        <5>1. j \in 1..V /\ f + j \in 1..z /\ 0 + j = j /\ f + j = K + 1 + j
          BY <1>1, <1>3, <2>2, <2>3, <2>6
        <5>2. QED
          BY <1>3, <2>2, <5>1
      <4>2. QED
        BY <4>1 DEF Alike
    <3>3. SameCuts(w, v, f, 0, y)
      BY <1>3, <2>2, <3>1, <3>2, SameCut
    <3>4. SubSeq(w, f + 1, z) = SubSeq(v, 1, y)
      BY <3>1, <3>3 DEF SameCuts
    <3>5. QED
      BY <1>3, <2>4, <3>4 DEF ValOf
  <2>8. ASSUME z = L PROVE ValOf(w) = v
    <3>1. y = V
      BY <1>1, <1>3, <2>2, <2>6, <2>8
    <3>2. SubSeq(v, 1, V) = v
      BY <2>2, SubSeqFull DEF V
    <3>3. QED
      BY <2>7, <3>1, <3>2
  <2>9. ValOf(w) = SubSeq(v, 1, z - K - 1) /\ z - K - 1 \in 0..V
    BY <2>6, <2>7
  <2>10. QED
    BY <1>5, <2>1, <2>5, <2>8, <2>9 DEF KeyVal, k, v, K, L, V, t
<1>6. QED
  BY <1>4, <1>5

\* The parameters of the first y characters of a query: of each key the first.
TextOf(r, y, k) == SubSeq(ParamOf(r, k), 1, Shown(r, y, k))
FirstOf(r, y, key, k) ==
  /\ k \in Begun(r, y) /\ KeyOf(TextOf(r, y, k)) = key
  /\ \A h \in Begun(r, y) : KeyOf(TextOf(r, y, h)) = key => k <= h

LEMMA ParamsOf ==
  ASSUME NEW r \in Requests, NEW y \in 0..Len(QueryText(r)), query_string = SubSeq(QueryText(r), 1, y)
  PROVE  /\ query_params = [key \in {KeyOf(TextOf(r, y, k)) : k \in Begun(r, y)} |-> query_params[key]]
         /\ \A key \in {KeyOf(TextOf(r, y, k)) : k \in Begun(r, y)} :
              \E k \in 1..Len(r.query) : FirstOf(r, y, key, k) /\ query_params[key] = ValOf(TextOf(r, y, k))
<1> DEFINE C == Begun(r, y)
           x(k) == TextOf(r, y, k)
           toks == Tokens(query_string)
           Best(t, key) == KeyOf(t[2]) = key /\ \A u \in toks : KeyOf(u[2]) = key => t[1] <= u[1]
           D == {KeyOf(x(k)) : k \in C}
<1>1. toks = {TokenOf(r, y, k) : k \in C}
  BY TokensAre
<1>2. \A k : TokenOf(r, y, k)[1] = ParamAt(r, k) + 1 /\ TokenOf(r, y, k)[2] = x(k)
  BY DEF TokenOf, TextOf
<1>3. query_params = [key \in {KeyOf(t[2]) : t \in toks} |-> ValOf((CHOOSE t \in toks : Best(t, key))[2])]
  BY DEF query_params
<1>4. {KeyOf(t[2]) : t \in toks} = D
  <2> DEFINE tok(k) == TokenOf(r, y, k)
             key(t) == KeyOf(t[2])
             f(k) == KeyOf(x(k))
  <2>1. \A k \in C : key(tok(k)) = f(k)
    BY <1>2
  <2>2. toks = {tok(k) : k \in C}
    BY <1>1
  <2> HIDE DEF tok, key, f, toks, C, x
  <2>3. {key(t) : t \in toks} = {f(k) : k \in C}
    BY <2>1, <2>2
  <2>4. QED
    BY <2>3 DEF key, f
<1>5. ASSUME NEW k \in C PROVE k \in 1..Len(r.query) /\ ParamAt(r, k) \in Nat
  BY QueryPlaces DEF Begun, QueryPlace
<1>6. ASSUME NEW k \in C, NEW h \in C PROVE ParamAt(r, k) <= ParamAt(r, h) <=> k <= h
  <2>1. k \in Nat /\ h \in Nat /\ ParamAt(r, k) \in Nat /\ ParamAt(r, h) \in Nat
        /\ Len(ParamOf(r, k)) \in Nat /\ Len(ParamOf(r, h)) \in Nat
    BY <1>5, QueryPlaces DEF QueryPlace
  <2>2. k < h => ParamAt(r, k) + 1 + Len(ParamOf(r, k)) <= ParamAt(r, h)
    BY <1>5, ParamOrder
  <2>3. h < k => ParamAt(r, h) + 1 + Len(ParamOf(r, h)) <= ParamAt(r, k)
    BY <1>5, ParamOrder
  <2> DEFINE a == ParamAt(r, k)
             b == ParamAt(r, h)
             l == Len(ParamOf(r, k))
             m == Len(ParamOf(r, h))
  <2>4. k = h => a = b
    OBVIOUS
  <2>5. /\ k \in Nat /\ h \in Nat /\ a \in Nat /\ b \in Nat /\ l \in Nat /\ m \in Nat
        /\ (k < h => a + 1 + l <= b) /\ (h < k => b + 1 + m <= a) /\ (k = h => a = b)
    BY <2>1, <2>2, <2>3, <2>4
  <2> HIDE DEF a, b, l, m
  <2>6. a <= b <=> k <= h
    BY <2>5
  <2>7. QED
    BY <2>6 DEF a, b
<1> HIDE DEF C, x, toks, D
<1>7. ASSUME NEW key \in D
      PROVE  \E k \in 1..Len(r.query) : FirstOf(r, y, key, k) /\ query_params[key] = ValOf(x(k))
  <2> DEFINE T == {k \in C : KeyOf(x(k)) = key}
  <2>1. PICK k \in T : \A h \in T : k <= h
    <3>1. T # {}
      BY DEF D
    <3>2. T \in SUBSET Nat
      BY <1>5
    <3> HIDE DEF T
    <3>3. QED
      BY <3>1, <3>2, Smallest
  <2>2. TokenOf(r, y, k) \in toks
    BY <1>1, <2>1
  <2>3. Best(TokenOf(r, y, k), key)
    <3>1. KeyOf(TokenOf(r, y, k)[2]) = key
      BY <1>2, <2>1
    <3>2. ASSUME NEW u \in toks, KeyOf(u[2]) = key PROVE TokenOf(r, y, k)[1] <= u[1]
      <4>1. PICK h \in C : u = TokenOf(r, y, h)
        BY <1>1
      <4>2. h \in T
        BY <1>2, <3>2, <4>1
      <4>3. ParamAt(r, k) <= ParamAt(r, h) /\ ParamAt(r, k) \in Nat /\ ParamAt(r, h) \in Nat
        BY <1>5, <1>6, <2>1, <4>2
      <4>4. TokenOf(r, y, k)[1] = ParamAt(r, k) + 1 /\ u[1] = ParamAt(r, h) + 1
        BY <1>2, <4>1
      <4> HIDE DEF T
      <4>5. QED
        BY <4>3, <4>4
    <3>3. QED
      BY <3>1, <3>2
  <2> DEFINE best == CHOOSE t \in toks : Best(t, key)
  <2> HIDE DEF Best
  <2>4. best \in toks /\ Best(best, key)
    BY <2>2, <2>3
  <2>5. query_params[key] = ValOf(best[2])
    BY <1>3, <1>4
  <2> HIDE DEF best
  <2>6. PICK g \in C : best = TokenOf(r, y, g)
    BY <1>1, <2>4
  <2>7. KeyOf(x(g)) = key
    BY <1>2, <2>4, <2>6 DEF Best
  <2>8. ASSUME NEW h \in C, KeyOf(x(h)) = key PROVE g <= h
    <3>1. TokenOf(r, y, h) \in toks
      BY <1>1
    <3>2. KeyOf(TokenOf(r, y, h)[2]) = key
      BY <1>2, <2>8
    <3>3. best[1] <= TokenOf(r, y, h)[1]
      BY <2>4, <3>1, <3>2 DEF Best
    <3>4. ParamAt(r, g) + 1 <= ParamAt(r, h) + 1
      BY <1>2, <2>6, <3>3
    <3>5. ParamAt(r, g) <= ParamAt(r, h)
      BY <1>5, <3>4
    <3>6. QED
      BY <1>6, <3>5
  <2>9. FirstOf(r, y, key, g)
    BY <2>7, <2>8 DEF FirstOf, C, x
  <2>10. query_params[key] = ValOf(x(g))
    BY <1>2, <2>5, <2>6
  <2>11. QED
    BY <1>5, <2>9, <2>10
<1>8. query_params = [key \in D |-> query_params[key]]
  BY <1>3, <1>4
<1>9. QED
  BY <1>7, <1>8 DEF D, C, x

\* A query is understood as it was meant, and what was received of it as the
\* beginning of that.
LEMMA ParamsWhole ==
  ASSUME NEW r \in Requests, query_string = QueryText(r)
  PROVE  query_params = Params(r)
<1> DEFINE Y == Len(QueryText(r))
           n == Len(r.query)
           x(k) == TextOf(r, Y, k)
           C == Begun(r, Y)
           D == {KeyOf(x(k)) : k \in C}
           val(k) == IF r.query[k].val = None THEN <<>> ELSE r.query[k].val
           E == {r.query[i].key : i \in 1..n}
           I(key) == {i \in 1..n : r.query[i].key = key}
<1>1. Y \in Nat /\ Y \in 0..Y /\ query_string = SubSeq(QueryText(r), 1, Y)
  <2>1. QueryText(r) \in Seq(Word)
    BY QueryTail
  <2>2. SubSeq(QueryText(r), 1, Y) = QueryText(r) /\ Y \in Nat
    BY <2>1, SubSeqFull, LenProperties
  <2>3. QED
    BY <2>2
<1>2. n \in Nat /\ DOMAIN r.query = 1..n /\ \A i \in 1..n : r.query[i] \in QueryParam
  BY Asks, QueryTyped, LenProperties
<1>3. /\ query_params = [key \in D |-> query_params[key]]
      /\ \A key \in D : \E k \in 1..n : FirstOf(r, Y, key, k) /\ query_params[key] = ValOf(x(k))
  BY <1>1, ParamsOf
<1>4. ASSUME NEW k \in 1..n PROVE k \in C /\ KeyOf(x(k)) = r.query[k].key /\ ValOf(x(k)) = val(k)
  <2> DEFINE a == ParamAt(r, k)
             w == ParamOf(r, k)
             l == Len(w)
             p == r.query[k]
  <2>1. a \in Nat /\ l \in Nat \ {0} /\ a + l <= Y
    BY QueryPlaces DEF QueryPlace
  <2>2. Shown(r, Y, k) = l
    BY <2>1 DEF Shown
  <2>3. k \in C
    <3> HIDE DEF a, l, Y
    <3>1. a < Y
      BY <1>1, <2>1
    <3>2. QED
      BY <3>1 DEF Begun, a, Y
  <2>4. p \in QueryParam
    BY <1>2
  <2>5. w = ParamText(p) /\ x(k) = SubSeq(w, 1, l)
    BY <2>2 DEF ParamOf, TextOf
  <2> HIDE DEF p, w, l, x, a
  <2>6. l \in 1..Len(ParamText(p)) /\ l = Len(ParamText(p))
    BY <2>1, <2>5 DEF l
  <2>7. KeyVal(p, l, x(k))
    BY <2>4, <2>5, <2>6, KeyVals
  <2>8. KeyOf(x(k)) = p.key /\ ValOf(x(k)) = IF p.val = None THEN <<>> ELSE p.val
    BY <2>6, <2>7 DEF KeyVal
  <2>9. QED
    BY <2>3, <2>8 DEF p, x
<1>5. C \subseteq 1..n
  BY DEF Begun
<1> HIDE DEF C, x, val
<1>6. D = E
  BY <1>4, <1>5
<1>7. Params(r) = [key \in E |-> val(Min(I(key)))]
  BY <1>2 DEF Params, val
<1>8. ASSUME NEW key \in D PROVE query_params[key] = val(Min(I(key)))
  <2>1. PICK k \in 1..n : FirstOf(r, Y, key, k) /\ query_params[key] = ValOf(x(k))
    BY <1>3
  <2>2. /\ k \in C /\ KeyOf(x(k)) = key
        /\ \A h \in C : KeyOf(x(h)) = key => k <= h
    BY <2>1 DEF FirstOf, C, x
  <2>3. k \in I(key) /\ \A h \in I(key) : k <= h
    BY <1>4, <2>2
  <2>4. I(key) \subseteq Nat
    BY <1>2
  <2> HIDE DEF I
  <2>5. Min(I(key)) = k
    <3>1. Min(I(key)) \in I(key) /\ \A h \in I(key) : Min(I(key)) <= h
      BY <2>3 DEF Min
    <3>2. QED
      BY <2>3, <2>4, <3>1
  <2>6. QED
    BY <1>4, <2>1, <2>5
<1> HIDE DEF D, E, I
<1>9. QED
  BY <1>3, <1>6, <1>7, <1>8

ParamsPrefix ==
  \A key \in DOMAIN query_params :
    \E i \in DOMAIN request.query :
      \/ IsPrefix(key, request.query[i].key) /\ query_params[key] = <<>>
      \/ key = request.query[i].key /\ IsPrefix(query_params[key], request.query[i].val)

LEMMA ParamsCut ==
  ASSUME request \in Requests, NEW y \in 0..Len(QueryText(request)),
         query_string = SubSeq(QueryText(request), 1, y)
  PROVE  ParamsPrefix
<1> DEFINE r == request
           n == Len(r.query)
           x(k) == TextOf(r, y, k)
           D == {KeyOf(x(k)) : k \in Begun(r, y)}
<1>1. n \in Nat /\ DOMAIN r.query = 1..n /\ \A i \in 1..n : r.query[i] \in QueryParam
  BY Asks, QueryTyped, LenProperties
<1>2. /\ query_params = [key \in D |-> query_params[key]]
      /\ \A key \in D : \E k \in 1..n : FirstOf(r, y, key, k) /\ query_params[key] = ValOf(x(k))
  BY ParamsOf
<1>3. DOMAIN query_params = D
  BY <1>2
<1> HIDE DEF D, n
<1>4. ASSUME NEW key \in D
      PROVE  \E i \in DOMAIN r.query : \/ IsPrefix(key, r.query[i].key) /\ query_params[key] = <<>>
                                       \/ key = r.query[i].key /\ IsPrefix(query_params[key], r.query[i].val)
  <2>1. PICK k \in 1..n : FirstOf(r, y, key, k) /\ query_params[key] = ValOf(x(k))
    BY <1>2
  <2>2. k \in Begun(r, y) /\ KeyOf(x(k)) = key
    BY <2>1 DEF FirstOf
  <2> DEFINE p == r.query[k]
             z == Shown(r, y, k)
             w == SubSeq(ParamText(p), 1, z)
  <2>3. p \in QueryParam
    BY <1>1
  <2>4. z \in 1..Len(ParamText(p))
    <3>1. z \in 1..Len(ParamOf(r, k))
      BY <2>2, TokenText
    <3>2. QED
      BY <3>1 DEF ParamOf
  <2>5. x(k) = w
    BY DEF TextOf, ParamOf
  <2> HIDE DEF p, z, x, r
  <2>6. KeyVal(p, z, w)
    BY <2>3, <2>4, KeyVals
  <2> HIDE DEF w
  <2>7. /\ p.key \in Seq(Word \ {"&", "="}) /\ Len(p.key) \in Nat /\ z \in Nat
        /\ p.val # None => p.val \in Seq(Word \ {"&"})
    <3>1. /\ p.key \in Seq(Word \ {"&", "="}) /\ Len(p.key) \in Nat \ {0} /\ Len(ParamText(p)) \in Nat
          /\ p.val # None => p.val \in Seq(Word \ {"&"})
      BY <2>3, ParamTyped
    <3>2. QED
      BY <2>4, <3>1
  <2>8. CASE z <= Len(p.key)
    <3>1. key = SubSeq(p.key, 1, z) /\ query_params[key] = <<>>
      BY <2>1, <2>2, <2>5, <2>6, <2>8 DEF KeyVal
    <3>2. z \in 0..Len(p.key)
      BY <2>7, <2>8
    <3>3. IsPrefix(SubSeq(p.key, 1, z), p.key)
      BY <2>7, <3>2, FrontIsPrefix
    <3>4. IsPrefix(key, p.key) /\ query_params[key] = <<>>
      BY <3>1, <3>3
    <3>5. QED
      BY <1>1, <3>4 DEF p, r
  <2>9. CASE z > Len(p.key)
    <3> DEFINE o == z - Len(p.key) - 1
    <3>1. key = p.key /\ p.val # None /\ o \in 0..Len(p.val) /\ query_params[key] = SubSeq(p.val, 1, o)
      BY <2>1, <2>2, <2>5, <2>6, <2>9 DEF KeyVal
    <3> HIDE DEF o
    <3>2. IsPrefix(SubSeq(p.val, 1, o), p.val)
      BY <2>7, <3>1, FrontIsPrefix
    <3>3. key = p.key /\ IsPrefix(query_params[key], p.val)
      BY <3>1, <3>2
    <3>4. QED
      BY <1>1, <3>3 DEF p, r
  <2>10. QED
    BY <2>7, <2>8, <2>9
<1>5. QED
  BY <1>3, <1>4 DEF ParamsPrefix
-----------------------------------------------------------------------------
(* The range. *)

\* Digits and numbers.
LEMMA DigitIs ==
  /\ \A d \in DOMAIN Digits : Digits[d] \in Nat
  /\ "-" \notin DOMAIN Digits
<1> DEFINE all == <<"0", "1", "2", "3", "4", "5", "6", "7", "8", "9">>
           at(d) == CHOOSE i \in 1..10 : all[i] = d
<1>1. Digits = [d \in ToSet(all) |-> at(d) - 1]
  BY DEF Digits
<1>2. DOMAIN all = 1..10
  OBVIOUS
<1>3. ToSet(all) = {all[i] : i \in 1..10}
  BY <1>2 DEF ToSet
<1>4. \A i \in 1..10 : all[i] # "-"
  <2>1. \A i \in 1..10 : i = 1 \/ i = 2 \/ i = 3 \/ i = 4 \/ i = 5 \/ i = 6 \/ i = 7 \/ i = 8 \/ i = 9 \/ i = 10
    OBVIOUS
  <2>2. /\ all[1] # "-" /\ all[2] # "-" /\ all[3] # "-" /\ all[4] # "-" /\ all[5] # "-"
        /\ all[6] # "-" /\ all[7] # "-" /\ all[8] # "-" /\ all[9] # "-" /\ all[10] # "-"
    OBVIOUS
  <2> HIDE DEF all
  <2>3. QED
    BY <2>1, <2>2
<1> HIDE DEF all
<1>5. ASSUME NEW d \in ToSet(all) PROVE at(d) - 1 \in Nat
  <2>1. \E i \in 1..10 : all[i] = d
    BY <1>3
  <2>2. at(d) \in 1..10
    BY <2>1
  <2> HIDE DEF at
  <2>3. QED
    BY <2>2
<1> HIDE DEF at
<1>6. QED
  BY <1>1, <1>3, <1>4, <1>5

Sums(f, n, s) == f = [i \in 0..n |-> IF i = 0 THEN 0 ELSE 10 * f[i - 1] + Digits[s[i]]]

LEMMA SumsExist == ASSUME NEW s, NEW n \in Nat PROVE \E f : Sums(f, n, s)
<1> DEFINE T == {k \in Nat : \E f : Sums(f, k, s)}
<1>1. 0 \in T
  <2>1. Sums([i \in 0..0 |-> 0], 0, s)
    <3>1. \A i \in 0..0 : i = 0
      OBVIOUS
    <3>2. QED
      BY <3>1 DEF Sums
  <2>2. QED
    BY <2>1
<1>2. ASSUME NEW k \in Nat, k \in T PROVE k + 1 \in T
  <2>1. PICK f : Sums(f, k, s)
    BY <1>2
  <2> DEFINE last == 10 * f[k] + Digits[s[k + 1]]
             g == [i \in 0..(k + 1) |-> IF i <= k THEN f[i] ELSE last]
  <2>2. \A i \in 0..k : f[i] = IF i = 0 THEN 0 ELSE 10 * f[i - 1] + Digits[s[i]]
    BY <2>1 DEF Sums
  <2> HIDE DEF last
  <2>3. \A i \in 0..k : g[i] = f[i]
    OBVIOUS
  <2>4. g[k + 1] = last
    OBVIOUS
  <2>5. ASSUME NEW i \in 0..(k + 1) PROVE g[i] = IF i = 0 THEN 0 ELSE 10 * g[i - 1] + Digits[s[i]]
    <3> HIDE DEF g
    <3>1. CASE i <= k
      <4>1. i \in 0..k /\ (i # 0 => i - 1 \in 0..k)
        BY <3>1
      <4>2. QED
        BY <2>2, <2>3, <4>1
    <3>2. CASE ~(i <= k)
      <4>1. i = k + 1 /\ i # 0 /\ i - 1 = k /\ k \in 0..k
        BY <3>2
      <4>2. QED
        BY <2>3, <2>4, <4>1 DEF last
    <3>3. QED
      BY <3>1, <3>2
  <2>6. g = [i \in 0..(k + 1) |-> g[i]]
    OBVIOUS
  <2> HIDE DEF g
  <2>7. Sums(g, k + 1, s)
    BY <2>5, <2>6 DEF Sums
  <2>8. QED
    BY <2>7
<1> HIDE DEF T
<1>3. Nat \subseteq T
  BY <1>1, <1>2, Induction
<1>4. QED
  BY <1>3 DEF T

LEMMA NumberNat ==
  ASSUME NEW s \in Seq(DOMAIN Digits)
  PROVE  Number(s) \in Nat
<1> DEFINE n == Len(s)
           f == CHOOSE g : Sums(g, n, s)
<1>1. n \in Nat
  BY LenProperties
<1>2. Number(s) = f[n]
  BY DEF Number, Sums
<1>3. Sums(f, n, s)
  <2> HIDE DEF n
  <2>1. \E g : Sums(g, n, s)
    BY <1>1, SumsExist
  <2>2. QED
    BY <2>1, Zenon
<1> HIDE DEF f
<1>4. \A i \in 0..n : f[i] = IF i = 0 THEN 0 ELSE 10 * f[i - 1] + Digits[s[i]]
  <2> HIDE DEF n
  <2> QED
    BY <1>3 DEF Sums
<1> DEFINE T == {i \in Nat : i <= n => f[i] \in Nat}
<1>5. 0 \in T
  BY <1>1, <1>4
<1>6. ASSUME NEW i \in Nat, i \in T PROVE i + 1 \in T
  <2> SUFFICES ASSUME i + 1 <= n PROVE f[i + 1] \in Nat
    OBVIOUS
  <2>1. s[i + 1] \in DOMAIN Digits
    <3>1. i + 1 \in 1..n
      BY <1>1
    <3>2. QED
      BY <3>1, ElementOfSeq
  <2>2. Digits[s[i + 1]] \in Nat
    BY <2>1, DigitIs
  <2> HIDE DEF n
  <2>3. i + 1 \in 0..n /\ i + 1 # 0 /\ (i + 1) - 1 = i /\ i <= n
    BY <1>1
  <2>4. f[i] \in Nat
    BY <1>6, <2>3
  <2>5. f[i + 1] = 10 * f[i] + Digits[s[i + 1]]
    BY <1>4, <2>3
  <2>6. QED
    BY <2>2, <2>4, <2>5
<1> HIDE DEF T
<1>7. Nat \subseteq T
  BY <1>5, <1>6, Induction
<1>8. n \in T
  BY <1>1, <1>7
<1>9. QED
  BY <1>1, <1>2, <1>8 DEF T

\* The digits between two places.
LEMMA DigitsCut ==
  ASSUME NEW S, NEW s \in Seq(S), NEW i \in 1..(Len(s) + 1), NEW k \in i..(Len(s) + 1),
         \A j \in i..(k - 1) : s[j] \in DOMAIN Digits
  PROVE  Number(SubSeq(s, i, k - 1)) \in Nat
<1>1. Len(s) \in Nat
  BY LenProperties
<1>2. \A j \in i..(k - 1) : s[j] \in DOMAIN Digits
  OBVIOUS
<1>3. i \in Int /\ k - 1 \in Int
  BY <1>1
<1>4. SubSeq(s, i, k - 1) \in Seq(DOMAIN Digits)
  BY <1>2, <1>3, SubSeqProperties
<1>5. QED
  BY <1>4, NumberNat

\* Numbers that an int can hold.
LEMMA NumberFits ==
  ASSUME NEW S, NEW s \in Seq(S), NEW i \in 1..(Len(s) + 1), NEW k \in i..(Len(s) + 1),
         \A j \in i..(k - 1) : s[j] \in DOMAIN Digits, ~Overflows(s)
  PROVE  /\ AsInt(Number(SubSeq(s, i, k - 1))) = Number(SubSeq(s, i, k - 1))
         /\ Number(SubSeq(s, i, k - 1)) \in Nat
<1> DEFINE z == Number(SubSeq(s, i, k - 1))
<1>1. z \in Nat
  BY DigitsCut
<1>2. Len(s) \in Nat
  BY LenProperties
<1>3. k - 1 \in 0..Len(s)
  BY <1>2
<1>4. ~(z >= IntLimit)
  BY <1>3 DEF Overflows
<1> HIDE DEF z
<1>5. ((z + IntLimit) % (2 * IntLimit)) - IntLimit = z
  <2>1. IntLimit \in Nat \ {0}
    BY SizeAssumption
  <2> DEFINE M == 2 * IntLimit
             x == z + IntLimit
  <2>2. M \in Nat \ {0} /\ x \in 0..(M - 1)
    BY <1>1, <1>4, <2>1
  <2>3. x - IntLimit = z
    BY <1>1, <2>1
  <2> HIDE DEF M, x
  <2>4. x % M = x
    BY <2>2
  <2>5. QED
    BY <2>3, <2>4 DEF M, x
<1>6. QED
  BY <1>1, <1>5 DEF AsInt, z

\* What ParseRange makes of any value.
RangeForm(x) == x.from >= -1 /\ x.to >= -1 /\ (x.from = -1 => x.to = -1)

LEMMA ParseForm ==
  ASSUME NEW val \in Seq(Symbols), ~Overflows(val)
  PROVE  RangeForm(ParseRange(val))
<1> DEFINE n == Len(val)
           i == Find(val, 1, {"="}) + 1
           j == Skip(val, i, DOMAIN Digits)
           k == Skip(val, j + 1, DOMAIN Digits)
           z == AsInt(Number(SubSeq(val, i, j - 1)))
           y == AsInt(Number(SubSeq(val, j + 1, k - 1)))
           more == j < n /\ val[j] = "-" /\ k > j + 1
<1>1. n \in Nat
  BY LenProperties
<1>2. ParseRange(val) = IF i > n + 1 THEN NoRange ELSE [from |-> z, to |-> IF more THEN y ELSE -1]
  BY DEF ParseRange
<1>3. CASE i > n + 1
  BY <1>2, <1>3 DEF NoRange, RangeForm
<1>4. CASE ~(i > n + 1)
  <2>1. i \in 2..(n + 2)
    <3>1. 1 \in 1..(n + 1)
      BY <1>1
    <3>2. Find(val, 1, {"="}) \in 1..(n + 1)
      BY <1>1, <3>1, Found
    <3>3. QED
      BY <1>1, <3>2
  <2> HIDE DEF i
  <2>2. i \in 1..(n + 1) /\ i \in 1..(n + 2) /\ i <= n + 1
    BY <1>1, <1>4, <2>1
  <2>3. /\ j \in i..(n + 2) /\ j <= n + 1
        /\ \A h \in i..(j - 1) : val[h] \in DOMAIN Digits
    BY <1>1, <2>2, Skipped
  <2> HIDE DEF j
  <2>4. j \in i..(n + 1)
    BY <1>1, <2>2, <2>3
  <2>5. z \in Nat
    BY <2>2, <2>3, <2>4, NumberFits
  <2> HIDE DEF z
  <2>6. more => y \in Nat
    <3> SUFFICES ASSUME more PROVE y \in Nat
      OBVIOUS
    <3>1. j + 1 \in 1..(n + 1) /\ j + 1 \in 1..(n + 2) /\ j + 1 <= n + 1
      BY <1>1, <2>2, <2>4
    <3>2. /\ k \in (j + 1)..(n + 2) /\ k <= n + 1
          /\ \A h \in (j + 1)..(k - 1) : val[h] \in DOMAIN Digits
      BY <1>1, <3>1, Skipped
    <3> HIDE DEF k
    <3>3. k \in (j + 1)..(n + 1)
      BY <1>1, <3>1, <3>2
    <3> HIDE DEF more
    <3>4. QED
      BY <3>1, <3>2, <3>3, NumberFits
  <2> HIDE DEF more, y
  <2>7. ParseRange(val).from = z /\ ParseRange(val).to = IF more THEN y ELSE -1
    BY <1>2, <1>4
  <2>8. QED
    BY <2>5, <2>6, <2>7 DEF RangeForm
<1>5. QED
  BY <1>3, <1>4

\* A range is understood as it was meant.
LEMMA ParseIs ==
  ASSUME NEW val \in Seq(Symbols), NEW r \in Requests, IsAsked(val, r.range), ~Overflows(val)
  PROVE  ParseRange(val) = Asked(r)
<1> DEFINE f == r.range.first
           l == r.range.last
           n == Len(val)
           i == Find(val, 1, {"="}) + 1
           j == Skip(val, i, DOMAIN Digits)
           k == Skip(val, j + 1, DOMAIN Digits)
           z == AsInt(Number(SubSeq(val, i, j - 1)))
           y == AsInt(Number(SubSeq(val, j + 1, k - 1)))
           more == j < n /\ val[j] = "-" /\ k > j + 1
<1>1. n \in Nat /\ f \in Seq(DOMAIN Digits) /\ l \in Seq(DOMAIN Digits) /\ Len(f) \in Nat /\ Len(l) \in Nat
  <2>1. n \in Nat
    BY LenProperties
  <2>2. r.range \in ByteRange
    BY Asks
  <2>3. f \in Seq(DOMAIN Digits) /\ l \in Seq(DOMAIN Digits)
    BY <2>2 DEF ByteRange
  <2> HIDE DEF f, l
  <2>4. QED
    BY <2>1, <2>3, LenProperties
<1>2. ParseRange(val) = IF i > n + 1 THEN NoRange ELSE [from |-> z, to |-> IF more THEN y ELSE -1]
  BY DEF ParseRange
<1>3. Asked(r) = IF f = <<>> THEN NoRange ELSE [from |-> Number(f), to |-> IF l = <<>> THEN -1 ELSE Number(l)]
  BY DEF Asked
<1>4. IF f = <<>> THEN "=" \notin ToSet(val)
      ELSE \E o \in 0..n : /\ "=" \notin ToSet(SubSeq(val, 1, o))
                           /\ val = SubSeq(val, 1, o) \o <<"=">> \o f \o <<"-">> \o l
  BY DEF IsAsked
<1> HIDE DEF f, l
<1>5. CASE f = <<>>
  <2>1. \A h \in 1..n : val[h] # "="
    BY <1>4, <1>5 DEF ToSet
  <2>2. Find(val, 1, {"="}) = n + 1
    <3> HIDE DEF n
    <3>1. 1 \in 1..(n + 1) /\ n + 1 \in 1..(n + 1) /\ ~(n + 1 <= n)
      BY <1>1
    <3>2. \A h \in 1..((n + 1) - 1) : val[h] \notin {"="}
      BY <1>1, <2>1
    <3>3. QED
      BY <1>1, <3>1, <3>2, FindIs DEF n
  <2>3. i > n + 1
    BY <1>1, <2>2
  <2> HIDE DEF i, n
  <2>4. QED
    BY <1>2, <1>3, <1>5, <2>3
<1>6. CASE f # <<>>
  <2>1. PICK o \in 0..n : /\ "=" \notin ToSet(SubSeq(val, 1, o))
                          /\ val = SubSeq(val, 1, o) \o <<"=">> \o f \o <<"-">> \o l
    BY <1>4, <1>6
  <2> DEFINE a == SubSeq(val, 1, o)
             e == <<"=">>
             p == a \o e
             d == <<"-">>
             S == Symbols \cup DOMAIN Digits \cup {"-"}
             F == Len(f)
             L == Len(l)
  <2>2. o \in Nat /\ o <= n
    BY <1>1
  <2>3. a \in Seq(Symbols) /\ Len(a) = o /\ \A h \in 1..o : a[h] = val[h]
    BY <2>2, CutFront
  <2>4. \A h \in 1..o : val[h] # "="
    <3> HIDE DEF a
    <3>1. "=" \notin ToSet(a)
      BY <2>1 DEF a
    <3>2. DOMAIN a = 1..o
      BY <2>3
    <3>3. QED
      BY <2>3, <3>1, <3>2 DEF ToSet
  <2>5. "=" \in S /\ "-" \in S /\ Symbols \subseteq S /\ DOMAIN Digits \subseteq S
    BY SymbolAssumption
  <2> HIDE DEF a, S
  <2>6. a \in Seq(S) /\ f \in Seq(S) /\ l \in Seq(S) /\ val \in Seq(S)
    BY <1>1, <2>3, <2>5
  <2>7. e \in Seq(S) /\ Len(e) = 1 /\ e[1] = "=" /\ d \in Seq(S) /\ Len(d) = 1 /\ d[1] = "-"
    BY <2>5
  <2> HIDE DEF e, d
  <2>8. Glued(S, p, a, e) /\ p \in Seq(S)
    BY <2>6, <2>7, Glue, ConcatProperties
  <2>9. val = p \o f \o d \o l
    BY <2>1 DEF a, e, d
  <2> HIDE DEF p
  <2>10. InFour(S, val, p, f, d, l)
    BY <2>6, <2>7, <2>8, <2>9, FourPlaces
  <2>11. Len(p) = o + 1 /\ (\A h \in 1..o : p[h] = a[h]) /\ p[o + 1] = "="
    <3>1. 1 \in 1..1
      OBVIOUS
    <3>2. QED
      BY <2>3, <2>7, <2>8, <3>1 DEF Glued
  <2>12. /\ n = o + 1 + F + 1 + L /\ val[o + 1] = "="
         /\ \A h \in 1..F : val[o + 1 + h] = f[h]
         /\ val[o + 1 + F + 1] = "-"
         /\ \A h \in 1..L : val[o + 1 + F + 1 + h] = l[h]
    <3>1. /\ n = (o + 1) + F + 1 + L
          /\ \A h \in 1..(o + 1) : val[h] = p[h]
          /\ \A h \in 1..F : val[(o + 1) + h] = f[h]
          /\ \A h \in 1..1 : val[(o + 1) + F + h] = d[h]
          /\ \A h \in 1..L : val[(o + 1) + F + 1 + h] = l[h]
      BY <2>7, <2>10, <2>11 DEF InFour
    <3>2. o + 1 \in 1..(o + 1) /\ 1 \in 1..1
      BY <2>2
    <3>3. val[o + 1] = "="
      BY <2>11, <3>1, <3>2
    <3>4. val[o + 1 + F + 1] = "-"
      BY <2>7, <3>1, <3>2
    <3> HIDE DEF F, L, n
    <3>5. QED
      BY <3>1, <3>3, <3>4
  <2>13. F \in Nat /\ F >= 1 /\ L \in Nat /\ (L = 0 <=> l = <<>>)
    <3>1. F # 0 /\ (L = 0 <=> l = <<>>)
      BY <1>1, <1>6, EmptySeq
    <3>2. F \in Nat /\ L \in Nat
      BY <1>1
    <3> HIDE DEF F, L
    <3>3. QED
      BY <3>1, <3>2
  <2>14. (\A h \in 1..F : f[h] \in DOMAIN Digits) /\ (\A h \in 1..L : l[h] \in DOMAIN Digits) /\ "-" \notin DOMAIN Digits
    BY <1>1, ElementOfSeq, DigitIs
  <2> HIDE DEF F, L
  <2>15. i = o + 2
    <3>1. Find(val, 1, {"="}) = o + 1
      <4> HIDE DEF n
      <4>1. 1 \in 1..(n + 1) /\ o + 1 \in 1..(n + 1)
        BY <1>1, <2>2, <2>12, <2>13
      <4>2. \A h \in 1..((o + 1) - 1) : val[h] \notin {"="}
        BY <2>2, <2>4
      <4>3. val[o + 1] \in {"="}
        BY <2>12
      <4>4. QED
        BY <1>1, <4>1, <4>2, <4>3, FindIs DEF n
    <3>2. QED
      BY <2>2, <3>1
  <2> HIDE DEF i
  <2>16. PICK b \in Nat : b = o + 2
    BY <2>2
  <2>17. PICK g \in Nat : g = b + F
    BY <2>13
  <2>18. PICK m \in Nat : m = g + 1 + L
    BY <2>13
  <2>19. n = g + L /\ m = n + 1 /\ o + 1 = b - 1 /\ b >= 2
    BY <1>1, <2>2, <2>12, <2>13, <2>16, <2>17, <2>18
  <2>20. j = g /\ AsInt(Number(SubSeq(val, b, g - 1))) = Number(SubSeq(val, b, g - 1))
    <3> HIDE DEF n
    <3>1. b \in 1..(n + 1) /\ g \in b..(n + 1)
      BY <1>1, <2>13, <2>17, <2>19
    <3>2. val[g] = "-"
      <4>1. o + 1 + F + 1 = g
        BY <2>2, <2>13, <2>16, <2>17
      <4>2. QED
        BY <2>12, <4>1
    <3>3. ASSUME NEW h \in b..(g - 1) PROVE val[h] \in DOMAIN Digits
      <4>1. PICK x \in 1..F : x = h - (o + 1)
        BY <2>2, <2>13, <2>16, <2>17
      <4>2. o + 1 + x = h
        BY <2>2, <2>16, <2>17, <4>1
      <4>3. QED
        BY <2>12, <2>14, <4>1, <4>2
    <3>4. Skip(val, b, DOMAIN Digits) = g
      BY <1>1, <2>14, <3>1, <3>2, <3>3, SkipIs DEF n
    <3>5. AsInt(Number(SubSeq(val, b, g - 1))) = Number(SubSeq(val, b, g - 1))
      BY <3>1, <3>3, NumberFits DEF n
    <3>6. QED
      BY <2>15, <2>16, <3>4, <3>5
  <2> HIDE DEF j
  <2>21. k = m /\ AsInt(Number(SubSeq(val, g + 1, m - 1))) = Number(SubSeq(val, g + 1, m - 1))
    <3> HIDE DEF n
    <3>1. g + 1 \in 1..(n + 1) /\ m \in (g + 1)..(n + 1) /\ ~(m <= n)
      BY <1>1, <2>13, <2>18, <2>19
    <3>2. ASSUME NEW h \in (g + 1)..(m - 1) PROVE val[h] \in DOMAIN Digits
      <4>1. PICK x \in 1..L : x = h - g
        BY <2>13, <2>18
      <4>2. o + 1 + F + 1 + x = h
        BY <2>2, <2>13, <2>16, <2>17, <4>1
      <4>3. QED
        BY <2>12, <2>14, <4>1, <4>2
    <3>3. Skip(val, g + 1, DOMAIN Digits) = m
      BY <1>1, <3>1, <3>2, SkipIs DEF n
    <3>4. AsInt(Number(SubSeq(val, g + 1, m - 1))) = Number(SubSeq(val, g + 1, m - 1))
      BY <3>1, <3>2, NumberFits DEF n
    <3>5. QED
      BY <2>20, <3>3, <3>4
  <2> HIDE DEF k
  <2>22. SubSeq(val, i, j - 1) = f
    <3>1. PICK x \in Nat : x = o + 1
      BY <2>2
    <3>2. x + F <= Len(val) /\ 0 + F <= Len(f) /\ 0 \in Nat /\ 0 + 1 = 1 /\ 0 + F = F
      BY <1>1, <2>2, <2>12, <2>13, <3>1 DEF F
    <3>3. Alike(val, f, x, 0, F)
      <4>1. ASSUME NEW h \in 1..F PROVE val[x + h] = f[0 + h]
        <5>1. x + h = o + 1 + h /\ 0 + h = h
          BY <3>1
        <5>2. QED
          BY <2>12, <5>1
      <4>2. QED
        BY <4>1 DEF Alike
    <3>4. SameCuts(val, f, x, 0, F)
      BY <2>6, <2>13, <3>2, <3>3, SameCut
    <3>5. SubSeq(val, x + 1, x + F) = SubSeq(f, 1, F)
      BY <3>2, <3>4 DEF SameCuts
    <3>6. x + 1 = i /\ x + F = j - 1
      BY <2>2, <2>13, <2>15, <2>16, <2>17, <2>20, <3>1
    <3>7. SubSeq(f, 1, F) = f
      BY <1>1, SubSeqFull DEF F
    <3>8. QED
      BY <3>5, <3>6, <3>7
  <2>23. L # 0 => SubSeq(val, j + 1, k - 1) = l
    <3>1. g + L <= Len(val) /\ 0 + L <= Len(l) /\ 0 \in Nat /\ 0 + 1 = 1 /\ 0 + L = L
      BY <1>1, <2>13, <2>19 DEF L
    <3>2. Alike(val, l, g, 0, L)
      <4>1. ASSUME NEW h \in 1..L PROVE val[g + h] = l[0 + h]
        <5>1. g + h = o + 1 + F + 1 + h /\ 0 + h = h
          BY <2>2, <2>13, <2>16, <2>17
        <5>2. QED
          BY <2>12, <5>1
      <4>2. QED
        BY <4>1 DEF Alike
    <3>3. SameCuts(val, l, g, 0, L)
      BY <2>6, <2>13, <3>1, <3>2, SameCut
    <3>4. SubSeq(val, g + 1, g + L) = SubSeq(l, 1, L)
      BY <3>1, <3>3 DEF SameCuts
    <3>5. k - 1 = g + L
      BY <2>13, <2>18, <2>21
    <3>6. SubSeq(l, 1, L) = l
      BY <1>1, SubSeqFull DEF L
    <3>7. QED
      BY <2>20, <3>4, <3>5, <3>6
  <2>24. more <=> L # 0
    <3>1. val[j] = "-"
      <4>1. o + 1 + F + 1 = j
        BY <2>2, <2>13, <2>16, <2>17, <2>20
      <4>2. QED
        BY <2>12, <4>1
    <3>2. j < n <=> L # 0
      BY <1>1, <2>13, <2>19, <2>20
    <3>3. k > j + 1 <=> L # 0
      BY <2>13, <2>18, <2>20, <2>21
    <3>4. QED
      BY <3>1, <3>2, <3>3
  <2> HIDE DEF more
  <2>25. ~(i > n + 1)
    BY <1>1, <2>13, <2>15, <2>16, <2>17, <2>19
  <2>26. ParseRange(val) = [from |-> z, to |-> IF more THEN y ELSE -1]
    BY <1>2, <2>25
  <2>27. z = Number(f)
    BY <2>15, <2>16, <2>20, <2>22
  <2>28. L # 0 => y = Number(l)
    BY <2>20, <2>21, <2>23
  <2> HIDE DEF z, y
  <2>29. (IF more THEN y ELSE -1) = (IF l = <<>> THEN -1 ELSE Number(l))
    BY <2>13, <2>24, <2>28
  <2>30. QED
    BY <1>3, <1>6, <2>26, <2>27, <2>29
<1>7. QED
  BY <1>5, <1>6

\* The range of a request thread.
TooLarge == <<"Range">> \in DOMAIN properties /\ Overflows(properties[<<"Range">>])

LEMMA RangeTyped ==
  ASSUME \A key \in DOMAIN properties : properties[key] \in Seq(Symbols), ~TooLarge
  PROVE  RangeForm(range)
<1>1. RangeForm(NoRange)
  BY DEF RangeForm, NoRange
<1>2. CASE <<"Range">> \in DOMAIN properties
  <2>1. range = ParseRange(properties[<<"Range">>])
    BY <1>2 DEF range
  <2>2. properties[<<"Range">>] \in Seq(Symbols) /\ ~Overflows(properties[<<"Range">>])
    BY <1>2 DEF TooLarge
  <2>3. QED
    BY <2>1, <2>2, ParseForm
<1>3. CASE <<"Range">> \notin DOMAIN properties
  BY <1>1, <1>3 DEF range
<1>4. QED
  BY <1>2, <1>3

LEMMA RangeIs ==
  ASSUME request \in Requests, \A key \in DOMAIN properties : properties[key] \in Seq(Symbols),
         properties = RawHeaders(request.headers), AsksForRange(request), ~TooLarge
  PROVE  range = Asked(request)
<1>1. IF <<"Range">> \in DOMAIN properties THEN IsAsked(properties[<<"Range">>], request.range)
      ELSE request.range.first = <<>>
  BY DEF AsksForRange
<1>2. CASE <<"Range">> \in DOMAIN properties
  <2>1. /\ properties[<<"Range">>] \in Seq(Symbols) /\ ~Overflows(properties[<<"Range">>])
        /\ IsAsked(properties[<<"Range">>], request.range)
    BY <1>1, <1>2 DEF TooLarge
  <2>2. range = ParseRange(properties[<<"Range">>])
    BY <1>2 DEF range
  <2>3. QED
    BY <2>1, <2>2, ParseIs
<1>3. CASE <<"Range">> \notin DOMAIN properties
  <2>1. Asked(request) = NoRange
    BY <1>1, <1>3 DEF Asked
  <2>2. QED
    BY <1>3, <2>1 DEF range
<1>4. QED
  BY <1>2, <1>3
-----------------------------------------------------------------------------
(* What was read of a request whose lines fit. *)

\* What get_line returns when the lines fit: a line or the beginning of one.
AtLine(i, m) ==
  /\ pc = "request line" <=> i = 1
  /\ i > 1 => AllRead(i - 1)
  /\ UpTo(line, Line(request, i), m) /\ (Len(line) = m \/ line[Len(line)] = "LF")
  /\ i > Len(Written(request)) => line \in {<<>>, <<"LF">>}
  /\ socket = "open" => line # <<>> /\ (line = <<"LF">> => i > Len(Written(request)))

LEMMA LineIs ==
  ASSUME TInv, Progress, pc \in Reading, ~accident, Fits(request), LineDone, ~Dry
  PROVE  \E i \in Lines(request), m \in Nat : AtLine(i, m)
<1>1. request \in Requests /\ Len(line) <= Full
  BY DEF TInv
<1>2. PICK i \in Lines(request), n \in 0..Len(Message(request)) :
        \E b \in LineAt(request, i)..LineEnd(request, i) : Within(i, b, n)
  BY DEF Progress, Parsing
<1>3. PICK b \in LineAt(request, i)..LineEnd(request, i) : Within(i, b, n)
  BY <1>2
<1>4. Begins(i, b) /\ Place(i, b, n)
  BY <1>3 DEF Within, Settled
<1> DEFINE a == LineAt(request, i)
           e == LineEnd(request, i)
           l == Len(Line(request, i))
           N == Len(Written(request))
<1>5. b = a /\ e - b < Full /\ a \in Nat /\ e \in Nat /\ a <= e /\ e <= Len(Message(request)) /\ Len(Message(request)) \in Nat
  BY <1>1, <1>4, FitsWhole, Began
<1>6. (pc = "request line" <=> i = 1) /\ (i > 1 => AllRead(i - 1))
  <2>1. /\ pc = "request line" <=> i = 1 /\ b = 0
        /\ i > 1 => AllRead(i - 1)
    BY <1>3 DEF Within, Settled
  <2>2. LineAt(request, 1) = 0
    BY <1>1, NextLineAt
  <2>3. i = 1 => b = 0
    BY <1>5, <2>2
  <2>4. QED
    BY <2>1, <2>3
<1>7. /\ e = a + l /\ l \in Nat /\ N \in Nat
      /\ i <= N => l >= 1
      /\ i > N => l = 0
  <2>1. RowIs(request, i)
    BY <1>1, Layout
  <2>2. QED
    BY <1>1, <2>1, RowsTyped DEF RowIs
<1>8. ~FullBuffer(i, b, n)
  <2>1. FullBuffer(i, b, n) => b + Full <= e
    BY DEF FullBuffer
  <2> HIDE DEF a, e
  <2>2. ~(b + Full <= e)
    BY <1>5, FullNat
  <2>3. QED
    BY <2>1, <2>2
<1>9. AtLF(i, b, n) \/ AtCut(i, b)
  BY <1>1, <1>4, <1>8, LineEnds
<1>10. CASE line = Append(Piece(request, b, e), "LF")
  <2>1. UpTo(line, Line(request, i), l)
    BY <1>1, <1>5, <1>10, PieceUpTo
  <2>2. line[Len(line)] = "LF"
    <3> DEFINE u == Piece(request, b, e)
    <3>1. PieceIs(request, b, e)
      BY <1>1, <1>5, Pieces
    <3>2. u \in Seq(Symbols) /\ "LF" \in Symbols
      BY <3>1, SymbolAssumption DEF PieceIs
    <3> HIDE DEF u
    <3> DEFINE v == Append(u, "LF")
    <3>3. Len(v) = Len(u) + 1 /\ v[Len(u) + 1] = "LF"
      BY <3>2, AppendProperties
    <3> HIDE DEF v
    <3>4. v[Len(v)] = "LF"
      BY <3>3
    <3>5. QED
      BY <1>10, <3>4 DEF v, u
  <2>3. line # <<>> /\ (line = <<"LF">> <=> b = e)
    BY <1>1, <1>4, <1>10, FullOrEmpty
  <2>4. (i > N => line \in {<<>>, <<"LF">>}) /\ (line = <<"LF">> => i > N)
    <3>1. i \in Nat
      BY <1>7 DEF Lines
    <3> HIDE DEF a, e, l, N
    <3>2. b = e <=> l = 0
      BY <1>5, <1>7
    <3>3. l = 0 <=> i > N
      BY <1>7, <3>1
    <3>4. QED
      BY <2>3, <3>2, <3>3
  <2>5. AtLine(i, l)
    BY <1>6, <2>1, <2>2, <2>3, <2>4 DEF AtLine
  <2>6. QED
    BY <1>7, <2>5
<1>11. CASE socket # "open" /\ \E p \in b..e : p - b < Full /\ line = Piece(request, b, p)
  <2>1. PICK p \in b..e : line = Piece(request, b, p)
    BY <1>11
  <2>2. UpTo(line, Line(request, i), p - a)
    BY <1>1, <1>5, <2>1, PieceUpTo
  <2>3. p \in Nat /\ a <= p /\ p <= e
    BY <1>5
  <2>4. Len(line) = p - a
    <3>1. PieceIs(request, a, p)
      <4> HIDE DEF e
      <4>1. p <= Len(Message(request))
        BY <1>5, <2>3
      <4>2. QED
        BY <1>1, <1>5, <2>3, <4>1, Pieces
    <3>2. QED
      BY <1>5, <2>1, <3>1 DEF PieceIs
  <2>5. i > N => line \in {<<>>, <<"LF">>}
    <3> SUFFICES ASSUME i > N PROVE Len(line) = 0
      <4>1. line \in Seq(Symbols)
        BY DEF TInv
      <4>2. QED
        BY <4>1, EmptySeq
    <3>1. l = 0
      BY <1>7
    <3> HIDE DEF a, e, l
    <3>2. QED
      BY <1>5, <1>7, <2>3, <2>4, <3>1
  <2>6. AtLine(i, p - a)
    BY <1>6, <1>11, <2>2, <2>4, <2>5 DEF AtLine
  <2>7. p - a \in Nat
    <3> HIDE DEF a, e
    <3> QED
      BY <1>5, <2>3
  <2>8. QED
    BY <2>6, <2>7
<1>12. QED
  BY <1>9, <1>10, <1>11 DEF AtLF, AtCut

\* A header of a request whose lines fit.
LEMMA HeaderNext ==
  ASSUME TInv, Header, Fits(request), NEW i \in Lines(request), NEW m, i > 1 => AllRead(i - 1),
         UpTo(line, Line(request, i), m), Len(line) = m \/ line[Len(line)] = "LF",
         i # 1, i <= Len(Written(request))
  PROVE  FieldsPrefix' /\ (m = Len(Line(request, i)) => AllRead(i)')
<1>1. request \in Requests /\ request' = request /\ method' = method /\ url' = url /\ query_string' = query_string
  BY DEF TInv, Header
<1>2. Len(Written(request)) = Len(request.headers) + 1 /\ Len(request.headers) \in Nat
  BY <1>1, WrittenTyped
<1>3. PICK h \in 1..Len(request.headers) : h = i - 1
  BY <1>2 DEF Lines
<1>4. h + 1 = i /\ i > 1
  BY <1>2, <1>3 DEF Lines
<1>5. LineRead /\ properties = RawHeaders(SubSeq(request.headers, 1, (i - 1) - 1)) /\ (i - 1) - 1 = h - 1
  BY <1>3, <1>4 DEF AllRead
<1>6. properties = RawHeaders(SubSeq(request.headers, 1, h - 1))
  BY <1>5
<1>7. /\ FieldsPrefix'
      /\ m = Len(Line(request, h + 1)) => properties' = RawHeaders(SubSeq(request.headers, 1, h))
  <2>1. UpTo(line, Line(request, h + 1), m)
    BY <1>4
  <2>2. QED
    BY <1>1, <1>6, <2>1, HeaderRead
<1>8. LineRead'
  BY <1>1, <1>5 DEF LineRead
<1>9. ASSUME m = Len(Line(request, i)) PROVE AllRead(i)'
  <2>1. properties' = RawHeaders(SubSeq(request.headers, 1, i - 1))
    BY <1>3, <1>4, <1>7, <1>9
  <2>2. QED
    BY <1>1, <1>8, <2>1 DEF AllRead
<1>10. QED
  BY <1>7, <1>9
-----------------------------------------------------------------------------
(* The invariant: types. *)

LEMMA TypesStart == ASSUME Init PROVE TInv
<1>1. request \in Requests /\ rest = Message(request) /\ line = <<>> /\ properties = <<>> /\ url = <<>> /\ query_string = <<>>
  BY DEF Init
<1>2. rest \in Seq(Symbols)
  BY <1>1, Layout
<1>3. line \in Seq(Symbols) /\ Len(line) = 0
  BY <1>1, EmptySeq
<1>4. DOMAIN properties = {}
  BY <1>1, EmptySeq
<1>5. Len(line) <= Full
  BY <1>3, FullNat
<1>6. QED
  BY <1>1, <1>2, <1>3, <1>4, <1>5 DEF TInv, Init, Reading, Other

\* A character that was read, or a line feed that nobody sent.
LEMMA OneMore ==
  ASSUME NEW s \in Seq(Symbols), NEW x \in Symbols, Len(s) < Full
  PROVE  Append(s, x) \in Seq(Symbols) /\ Len(Append(s, x)) <= Full
<1>1. Append(s, x) \in Seq(Symbols) /\ Len(Append(s, x)) = Len(s) + 1
  BY AppendProperties
<1>2. Len(s) \in Nat
  BY LenProperties
<1>3. QED
  BY <1>1, <1>2, FullNat

LEMMA TypesStay == ASSUME TInv, Next PROVE TInv'
<1>1. /\ request \in Requests /\ rest \in Seq(Symbols) /\ line \in Seq(Symbols)
      /\ socket \in {"open", "nonblocking", "shut"}
      /\ c \in {"CR", "LF", Other} /\ pc \in Reading \cup Outcome /\ accident \in BOOLEAN
      /\ Len(line) <= Full /\ (c = "CR" => Len(line) < Full)
      /\ pc = "request line" => url = <<>> /\ query_string = <<>> /\ properties = <<>>
      /\ \A key \in DOMAIN properties : properties[key] \in Seq(Symbols)
      /\ accident => socket # "open"
  BY DEF TInv
<1>2. Room <=> Len(line) < Full
  BY DEF Room, Full
<1>3. Len(line) \in Nat
  BY <1>1, LenProperties
<1>4. <<>> \in Seq(Symbols) /\ Len(<<>>) = 0 /\ Len(<<>>) <= Full
  BY EmptySeq, FullNat
<1>5. rest # <<>> => Head(rest) \in Symbols /\ Tail(rest) \in Seq(Symbols)
  BY <1>1, HeadTailProperties
<1>6. ASSUME Recv PROVE TInv'
  <2>1. /\ rest # <<>> /\ rest' = Tail(rest) /\ Len(line) < Full
        /\ c' = IF Head(rest) \in {"CR", "LF"} THEN Head(rest) ELSE Other
        /\ line' = IF Head(rest) = "CR" THEN line ELSE Append(line, Head(rest))
        /\ request' = request /\ socket' = socket /\ pc' = pc /\ url' = url /\ query_string' = query_string
        /\ properties' = properties
    BY <1>2, <1>6 DEF Recv, InLine, Parsed
  <2>2. accident' = accident
    BY <1>6 DEF Recv
  <2>3. rest' \in Seq(Symbols) /\ Head(rest) \in Symbols
    BY <1>5, <2>1
  <2>4. line' \in Seq(Symbols) /\ Len(line') <= Full /\ (c' = "CR" => Len(line') < Full)
    <3>1. CASE Head(rest) = "CR"
      BY <1>1, <2>1, <3>1
    <3>2. CASE Head(rest) # "CR"
      <4>1. line' = Append(line, Head(rest)) /\ c' # "CR"
        BY <2>1, <3>2 DEF Other
      <4>2. QED
        BY <1>1, <2>1, <2>3, <4>1, OneMore
    <3>3. QED
      BY <3>1, <3>2
  <2>5. c' \in {"CR", "LF", Other}
    BY <2>1
  <2>6. QED
    BY <1>1, <2>1, <2>2, <2>3, <2>4, <2>5 DEF TInv
<1>7. ASSUME RecvFails PROVE TInv'
  <2>1. /\ Fails /\ c' = "LF" /\ line' = line /\ rest' = rest
        /\ request' = request /\ socket' = socket /\ pc' = pc /\ url' = url /\ query_string' = query_string
        /\ properties' = properties
    BY <1>7 DEF RecvFails, Parsed
  <2>2. accident' = (accident \/ rest # <<>>)
    BY <1>7 DEF RecvFails
  <2>3. accident' \in BOOLEAN
    BY <2>2
  <2>4. socket # "open"
    BY <2>1 DEF Fails
  <2>5. QED
    BY <1>1, <2>1, <2>3, <2>4 DEF TInv
<1>8. ASSUME Peek PROVE TInv'
  <2>1. /\ c = "CR" /\ c' = "LF" /\ line' = Append(line, "LF")
        /\ request' = request /\ socket' = socket /\ pc' = pc /\ url' = url /\ query_string' = query_string
        /\ properties' = properties
    BY <1>8 DEF Peek, Parsed
  <2>2. line' \in Seq(Symbols) /\ Len(line') <= Full
    BY <1>1, <2>1, OneMore, SymbolAssumption
  <2>3. CASE /\ rest # <<>> /\ rest' = IF Head(rest) = "LF" THEN Tail(rest) ELSE rest
             /\ UNCHANGED accident
    <3>1. rest' \in Seq(Symbols)
      BY <1>1, <1>5, <2>3
    <3>2. accident' = accident
      BY <2>3
    <3>3. QED
      BY <1>1, <2>1, <2>2, <3>1, <3>2 DEF TInv
  <2>4. CASE Fails /\ accident' = (accident \/ rest # <<>>) /\ UNCHANGED rest
    <3>1. accident' \in BOOLEAN
      BY <2>4
    <3>2. socket # "open" /\ rest' = rest
      BY <2>4 DEF Fails
    <3>3. QED
      BY <1>1, <2>1, <2>2, <3>1, <3>2 DEF TInv
  <2>5. QED
    BY <1>8, <2>3, <2>4 DEF Peek
<1>9. ASSUME RequestLine PROVE TInv'
  <2>1. /\ line' = <<>> /\ c' = Other /\ request' = request /\ rest' = rest /\ socket' = socket
        /\ properties' = properties /\ pc' \in {"header", "overrun"}
    BY <1>9 DEF RequestLine, NextLine
  <2>2. accident' = accident
    BY <1>9 DEF RequestLine
  <2>3. QED
    BY <1>1, <1>4, <2>1, <2>2 DEF TInv, Reading, Outcome, Other
<1>10. ASSUME Header PROVE TInv'
  <2>1. /\ line' = <<>> /\ c' = Other /\ request' = request /\ rest' = rest /\ socket' = socket
        /\ pc = "header" /\ pc' = pc
    BY <1>10 DEF Header, NextLine
  <2>2. accident' = accident
    BY <1>10 DEF Header
  <2>3. (\A key \in DOMAIN properties : properties[key] \in Seq(Symbols))'
    BY <1>1, <1>10, HeaderTyped
  <2>4. QED
    BY <1>1, <1>4, <2>1, <2>2, <2>3 DEF TInv, Reading, Outcome, Other
<1>11. ASSUME EndOfHead PROVE TInv'
  <2>1. /\ line' = <<>> /\ c' = Other /\ request' = request /\ rest' = rest /\ socket' = socket
        /\ properties' = properties /\ pc' \in {"content", "callback", "unimplemented"}
    BY <1>11 DEF EndOfHead, NextLine
  <2>2. accident' = accident
    BY <1>11 DEF EndOfHead
  <2>3. QED
    BY <1>1, <1>4, <2>1, <2>2 DEF TInv, Reading, Outcome, Other
<1>12. ASSUME Lose PROVE TInv'
  <2>1. PICK n \in 0..Len(rest) : rest' = SubSeq(rest, 1, n)
    BY <1>12 DEF Lose
  <2>2. /\ line' = line /\ c' = c /\ request' = request /\ socket' = "shut" /\ pc' = pc
        /\ url' = url /\ query_string' = query_string /\ properties' = properties
    BY <1>12 DEF Lose
  <2>3. accident' = accident
    BY <1>12 DEF Lose
  <2>4. rest' \in Seq(Symbols)
    <3>1. Len(rest) \in Nat
      BY <1>1, LenProperties
    <3>2. n \in Nat /\ n <= Len(rest)
      BY <3>1
    <3>3. QED
      BY <1>1, <2>1, <3>2, CutFront
  <2>5. QED
    BY <1>1, <2>2, <2>3, <2>4 DEF TInv
<1>13. ASSUME SetNonblocking \/ Shutdown PROVE TInv'
  <2>1. /\ line' = line /\ c' = c /\ request' = request /\ socket' \in {"nonblocking", "shut"} /\ pc' = pc
        /\ url' = url /\ query_string' = query_string /\ properties' = properties /\ rest' \in {rest, <<>>}
    BY <1>13 DEF SetNonblocking, Shutdown
  <2>2. accident' = accident
    BY <1>13 DEF SetNonblocking, Shutdown
  <2>3. QED
    BY <1>1, <1>4, <2>1, <2>2 DEF TInv
<1>14. ASSUME Done PROVE TInv'
  <2>1. /\ line' = line /\ c' = c /\ request' = request /\ socket' = socket /\ pc' = pc
        /\ url' = url /\ query_string' = query_string /\ properties' = properties /\ rest' = rest
    BY <1>14 DEF Done, vars
  <2>2. accident' = accident
    BY <1>14 DEF Done, vars
  <2>3. QED
    BY <1>1, <2>1, <2>2 DEF TInv
<1>15. QED
  BY <1>6, <1>7, <1>8, <1>9, <1>10, <1>11, <1>12, <1>13, <1>14 DEF Next, Thread
-----------------------------------------------------------------------------
(* The invariant: progress. *)

\* Where the thread is, is a place in the message.
LEMMA SomewhereNow ==
  ASSUME TInv, Progress, pc \in Reading, ~accident, ~Dry
  PROVE  \E i \in Lines(request), n \in 0..Len(Message(request)) :
           \E b \in LineAt(request, i)..LineEnd(request, i) :
             /\ Within(i, b, n) /\ Settled(i, b) /\ Begins(i, b) /\ Place(i, b, n)
             /\ request \in Requests /\ b \in Nat /\ n \in Nat
<1>1. PICK i \in Lines(request), n \in 0..Len(Message(request)) :
        \E b \in LineAt(request, i)..LineEnd(request, i) : Within(i, b, n)
  BY DEF Progress, Parsing
<1>2. PICK b \in LineAt(request, i)..LineEnd(request, i) : Within(i, b, n)
  BY <1>1
<1>3. Settled(i, b) /\ Begins(i, b) /\ Place(i, b, n)
  BY <1>2 DEF Within, Settled
<1>4. request \in Requests
  BY DEF TInv
<1>5. b \in Nat
  BY <1>3, <1>4, Began
<1>6. n \in Nat
  <2>1. Len(Message(request)) \in Nat
    BY <1>4, Layout
  <2>2. QED
    BY <2>1
<1>7. QED
  BY <1>2, <1>3, <1>4, <1>5, <1>6

LEMMA SomewhereNext ==
  ASSUME NEW i \in Lines(request), NEW n \in 0..Len(Message(request)),
         NEW b \in LineAt(request, i)..LineEnd(request, i),
         Settled(i, b)', Place(i, b, n)', request' = request
  PROVE  Progress'
<1>1. Within(i, b, n)'
  BY DEF Within
<1>2. /\ i \in Lines(request') /\ n \in 0..Len(Message(request'))
      /\ b \in LineAt(request', i)..LineEnd(request', i)
  OBVIOUS
<1>3. QED
  BY <1>1, <1>2 DEF Progress

LEMMA ProgressStart == ASSUME Init PROVE Progress
<1> DEFINE m == Len(Message(request))
<1>1. 1 \in Lines(request) /\ LineAt(request, 1) = 0 /\ Within(1, 0, m)
  BY StartOfMessage
<1>2. request \in Requests
  BY DEF Init
<1>3. m \in 0..m
  <2>1. m \in Nat
    BY <1>2, Layout
  <2> HIDE DEF m
  <2>2. QED
    BY <2>1
<1>4. 0 \in LineAt(request, 1)..LineEnd(request, 1)
  <2>1. LineEnd(request, 1) \in Nat
    BY <1>1, <1>2, LinePiece
  <2>2. QED
    BY <1>1, <2>1
<1>5. QED
  BY <1>1, <1>3, <1>4 DEF Progress

\* While a line is being read.
LEMMA InLineProgress ==
  ASSUME TInv, Progress, Recv \/ RecvFails \/ Peek
  PROVE  Progress'
<1>1. /\ Same /\ request' = request /\ pc' = pc /\ socket' = socket /\ pc \in Reading
  BY DEF Recv, RecvFails, Peek, Parsed, Same, InLine
<1>2. ASSUME ~accident' PROVE ~accident
  <2>1. CASE Recv
    BY <1>2, <2>1 DEF Recv
  <2>2. CASE RecvFails
    <3>1. accident' = (accident \/ rest # <<>>)
      BY <2>2 DEF RecvFails
    <3>2. QED
      BY <1>2, <3>1, Zenon
  <2>3. CASE Peek
    <3>1. UNCHANGED accident \/ accident' = (accident \/ rest # <<>>)
      BY <2>3 DEF Peek
    <3>2. QED
      BY <1>2, <3>1, Zenon
  <2>4. QED
    BY <2>1, <2>2, <2>3
<1> SUFFICES ASSUME ~accident' PROVE Progress'
  BY DEF Progress
<1>3. ~accident
  BY <1>2
<1>4. CASE Dry
  <2>1. RecvFails
    <3>1. ~Recv
      BY <1>4 DEF Dry, Recv
    <3>2. ~Peek
      BY <1>4 DEF Dry, Peek, Other
    <3>3. QED
      BY <3>1, <3>2
  <2>2. c' = "LF" /\ line' = line /\ rest' = rest
    BY <2>1 DEF RecvFails
  <2>3. Dry'
    BY <1>1, <1>4, <2>2 DEF Dry
  <2>4. QED
    BY <2>3 DEF Progress
<1>5. CASE ~Dry
  <2>1. PICK i \in Lines(request), n \in 0..Len(Message(request)) :
          \E b \in LineAt(request, i)..LineEnd(request, i) :
             /\ Within(i, b, n) /\ Settled(i, b) /\ Begins(i, b) /\ Place(i, b, n)
             /\ request \in Requests /\ b \in Nat /\ n \in Nat
    BY <1>1, <1>3, <1>5, SomewhereNow
  <2>2. PICK b \in LineAt(request, i)..LineEnd(request, i) :
             /\ Settled(i, b) /\ Begins(i, b) /\ Place(i, b, n)
             /\ request \in Requests /\ b \in Nat /\ n \in Nat
    BY <2>1
  <2>3. Settled(i, b)'
    BY <1>1, <2>2, SettledStays
  <2>4. Place(i, b, n)'
    <3>1. CASE Recv
      BY <2>2, <3>1, RecvPlace
    <3>2. CASE RecvFails
      BY <2>2, <3>2, FailsPlace
    <3>3. CASE Peek
      BY <2>2, <3>3, PeekPlace
    <3>4. QED
      BY <3>1, <3>2, <3>3
  <2>5. QED
    BY <1>1, <2>3, <2>4, SomewhereNext
<1>6. QED
  BY <1>4, <1>5

\* When the connection goes.
LEMMA LostProgress ==
  ASSUME TInv, Progress, Lose \/ SetNonblocking \/ Shutdown
  PROVE  Progress'
<1>1. /\ Same /\ request' = request /\ pc' = pc /\ line' = line /\ c' = c /\ pc \in Reading
  BY DEF Lose, SetNonblocking, Shutdown, Same
<1>2. accident' = accident
  BY DEF Lose, SetNonblocking, Shutdown
<1> SUFFICES ASSUME ~accident' PROVE Progress'
  BY DEF Progress
<1>3. ~accident
  BY <1>2
<1>4. CASE Dry
  <2>1. Shutdown
    BY <1>4 DEF Dry, Lose, SetNonblocking
  <2>2. rest' = <<>> /\ socket' = "shut"
    BY <2>1 DEF Shutdown
  <2>3. Dry'
    BY <1>1, <1>4, <2>2 DEF Dry
  <2>4. QED
    BY <2>3 DEF Progress
<1>5. CASE ~Dry
  <2>1. PICK i \in Lines(request), n \in 0..Len(Message(request)) :
          \E b \in LineAt(request, i)..LineEnd(request, i) :
             /\ Within(i, b, n) /\ Settled(i, b) /\ Begins(i, b) /\ Place(i, b, n)
             /\ request \in Requests /\ b \in Nat /\ n \in Nat
    BY <1>1, <1>3, <1>5, SomewhereNow
  <2>2. PICK b \in LineAt(request, i)..LineEnd(request, i) :
             /\ Settled(i, b) /\ Begins(i, b) /\ Place(i, b, n)
             /\ request \in Requests /\ b \in Nat /\ n \in Nat
    BY <2>1
  <2>3. Settled(i, b)'
    BY <1>1, <2>2, SettledStays
  <2>4. \E nn \in 0..Len(Message(request)) : Place(i, b, nn)'
    <3>1. CASE Lose
      <4>1. PICK k \in 0..Len(rest) : rest' = SubSeq(rest, 1, k)
        BY <3>1 DEF Lose
      <4>2. socket' = "shut"
        BY <3>1 DEF Lose
      <4>3. QED
        BY <1>1, <2>2, <4>1, <4>2, LostPlace
    <3>2. CASE SetNonblocking
      BY <2>2, <3>2, NonblockingPlace
    <3>3. CASE Shutdown
      <4>1. rest' = <<>> /\ socket' = "shut"
        BY <3>3 DEF Shutdown
      <4>2. rest' = SubSeq(rest, 1, 0)
        BY <4>1, SubSeqEmpty
      <4>3. 0 \in 0..Len(rest)
        <5>1. rest \in Seq(Symbols)
          BY DEF TInv
        <5>2. Len(rest) \in Nat
          BY <5>1, LenProperties
        <5>3. QED
          BY <5>2
      <4>4. QED
        BY <1>1, <2>2, <4>1, <4>2, <4>3, LostPlace
    <3>4. QED
      BY <3>1, <3>2, <3>3
  <2>5. QED
    BY <1>1, <2>3, <2>4, SomewhereNext
<1>6. QED
  BY <1>4, <1>5

\* A whole line, of a request whose lines fit.
LEMMA ReadNext ==
  ASSUME TInv, RequestLine \/ Header, Fits(request), NEW i \in Lines(request), NEW b, Settled(i, b),
         line = Append(Piece(request, b, LineEnd(request, i)), "LF"), i <= Len(Written(request))
  PROVE  AllRead(i)'
<1>1. request \in Requests
  BY DEF TInv
<1>2. Begins(i, b) /\ (pc = "request line" <=> i = 1 /\ b = 0) /\ (i > 1 => AllRead(i - 1))
  BY DEF Settled
<1>3. b = LineAt(request, i)
  BY <1>1, <1>2, FitsWhole
<1>4. UpTo(line, Line(request, i), Len(Line(request, i)))
  BY <1>1, <1>3, PieceUpTo
<1>5. LineAt(request, 1) = 0
  BY <1>1, NextLineAt
<1>6. CASE RequestLine
  <2>1. i = 1 /\ properties = <<>>
    BY <1>2, <1>6 DEF RequestLine, TInv
  <2>2. UpTo(line, Line(request, 1), Len(Line(request, 1)))
    BY <1>4, <2>1
  <2>3. LineRead'
    BY <1>1, <1>6, <2>2, FirstLineRead
  <2>4. properties' = RawHeaders(SubSeq(request'.headers, 1, 0))
    <3>1. properties' = properties
      BY <1>6 DEF RequestLine
    <3>2. SubSeq(request'.headers, 1, 0) = <<>>
      BY SubSeqEmpty
    <3>3. QED
      BY <2>1, <3>1, <3>2, NoHeaders
  <2>5. i - 1 = 0
    BY <2>1
  <2>6. QED
    BY <2>3, <2>4, <2>5 DEF AllRead
<1>7. CASE Header
  <2>1. i # 1
    BY <1>2, <1>3, <1>5, <1>7 DEF Header
  <2>2. line[Len(line)] = "LF"
    <3> DEFINE u == Piece(request, b, LineEnd(request, i))
    <3>1. u \in Seq(Symbols) /\ "LF" \in Symbols
      <4>1. PieceIs(request, b, LineEnd(request, i))
        BY <1>1, <1>2, Began, Pieces
      <4>2. QED
        BY <4>1, SymbolAssumption DEF PieceIs
    <3>2. line = Append(u, "LF")
      OBVIOUS
    <3> HIDE DEF u
    <3>3. Len(line) = Len(u) + 1 /\ line[Len(u) + 1] = "LF"
      BY <3>1, <3>2, AppendProperties
    <3>4. QED
      BY <3>3
  <2>3. QED
    BY <1>2, <1>4, <1>7, <2>1, <2>2, HeaderNext
<1>8. QED
  BY <1>6, <1>7

\* When a line has been read, the thread is at the beginning of the next one
\* or inside a long one.
LEMMA LineProgress ==
  ASSUME TInv, Progress, RequestLine \/ Header
  PROVE  Progress'
<1>1. /\ request' = request /\ rest' = rest /\ socket' = socket /\ NextLine
      /\ pc \in Reading /\ LineDone /\ pc' \in {"header", "overrun"}
  BY DEF RequestLine, Header, Reading
<1>2. accident' = accident
  BY DEF RequestLine, Header
<1> SUFFICES ASSUME pc' = "header", ~accident' PROVE Progress'
  BY <1>1 DEF Progress, Parsing, Reading
<1>3. ~accident
  BY <1>2
<1>4. ~Dry
  BY DEF Dry, RequestLine, Header
<1>5. PICK i \in Lines(request), n \in 0..Len(Message(request)) :
        \E b \in LineAt(request, i)..LineEnd(request, i) :
           /\ Within(i, b, n) /\ Settled(i, b) /\ Begins(i, b) /\ Place(i, b, n)
           /\ request \in Requests /\ b \in Nat /\ n \in Nat
  BY <1>1, <1>3, <1>4, SomewhereNow
<1>6. PICK b \in LineAt(request, i)..LineEnd(request, i) :
           /\ Settled(i, b) /\ Begins(i, b) /\ Place(i, b, n)
           /\ request \in Requests /\ b \in Nat /\ n \in Nat
  BY <1>5
<1> DEFINE N == Len(Written(request))
<1>7. (pc = "request line" <=> i = 1 /\ b = 0) /\ Whole(i)
  BY <1>6 DEF Settled
<1>8. i \in Nat /\ i >= 1
  <2>1. N \in Nat
    BY <1>6, RowsTyped
  <2>2. i \in 1..(N + 1)
    BY DEF Lines
  <2> HIDE DEF N
  <2>3. QED
    BY <2>1, <2>2
<1>9. (Whole(i) <=> Whole(i)') /\ (Fits(request)' <=> Fits(request))
  BY <1>1 DEF Whole
<1>10. FullBuffer(i, b, n) \/ AtLF(i, b, n) \/ AtCut(i, b)
  <2>1. Len(line) <= Full
    BY DEF TInv
  <2>2. QED
    BY <1>1, <1>6, <2>1, LineEnds
<1>11. CASE FullBuffer(i, b, n)
  <2>1. /\ Begins(i, b + Full)' /\ Place(i, b + Full, n)' /\ b + Full \in Nat /\ b + Full # 0
        /\ b + Full \in LineAt(request, i)..LineEnd(request, i)
    BY <1>1, <1>6, <1>11, NextBuffer
  <2>2. ~Fits(request)
    <3>1. b + Full <= LineEnd(request, i)
      BY <1>11 DEF FullBuffer
    <3>2. Fits(request) => LineEnd(request, i) - b < Full
      BY <1>6, FitsWhole
    <3>3. LineEnd(request, i) \in Nat
      BY <1>6, LinePiece
    <3>4. ~(LineEnd(request, i) - b < Full)
      BY <1>6, <3>1, <3>3, FullNat
    <3>5. QED
      BY <3>2, <3>4
  <2>3. Settled(i, b + Full)'
    BY <1>7, <1>9, <2>1, <2>2 DEF Settled
  <2>4. QED
    BY <1>1, <2>1, <2>3, SomewhereNext
<1>12. CASE AtLF(i, b, n)
  <2> DEFINE y == NextAt(request, i)
             e == LineEnd(request, i)
             l == Len(Line(request, i))
  <2>1. line = Append(Piece(request, b, e), "LF") /\ e - b < Full
    BY <1>12 DEF AtLF
  <2>2. l \in Nat /\ (i <= N => l >= 1) /\ (i > N => l = 0) /\ e = LineAt(request, i) + l /\ N \in Nat
    BY <1>6, RowsTyped, Layout DEF RowIs
  <2>3. b # e
    <3>1. CASE RequestLine
      <4>1. i = 1 /\ b = 0
        BY <1>7, <3>1 DEF RequestLine
      <4>2. LineAt(request, i) = 0 /\ i <= N
        <5>1. N \in Nat \ {0} /\ LineAt(request, 1) = 0
          BY <1>6, RowsTyped, NextLineAt
        <5>2. QED
          BY <4>1, <5>1
      <4> HIDE DEF e, l, N
      <4>3. QED
        BY <2>2, <4>1, <4>2
    <3>2. CASE Header
      <4>1. line # <<"LF">>
        BY <3>2 DEF Header
      <4>2. QED
        BY <1>6, <2>1, <4>1, FullOrEmpty
    <3>3. QED
      BY <3>1, <3>2
  <2>4. l % Full # 0
    BY <1>6, <2>1, <2>3, FullLines
  <2>5. i <= N
    <3>1. 0 % Full = 0
      BY FullNat
    <3>2. l # 0
      BY <2>4, <3>1
    <3> HIDE DEF l, N
    <3>3. QED
      BY <1>8, <2>2, <3>2
  <2>6. /\ i + 1 \in Lines(request) /\ Begins(i + 1, y)' /\ Place(i + 1, y, n)'
        /\ y \in LineAt(request, i + 1)..LineEnd(request, i + 1) /\ y \in Nat
    BY <1>1, <1>6, <1>12, <2>5, NextPlace
  <2>7. Whole(i + 1)'
    <3>1. \A j \in 1..((i + 1) - 1) : j \in 1..(i - 1) \/ j = i
      BY <1>8
    <3>2. Whole(i + 1)
      BY <1>7, <2>4, <3>1 DEF Whole
    <3>3. QED
      BY <1>1, <3>2 DEF Whole
  <2>8. ASSUME Fits(request) PROVE AllRead((i + 1) - 1)'
    <3>1. AllRead(i)'
      BY <1>6, <2>1, <2>5, <2>8, ReadNext
    <3>2. (i + 1) - 1 = i
      BY <1>8
    <3>3. QED
      BY <3>1, <3>2
  <2>9. i + 1 # 1
    BY <1>8
  <2>10. Settled(i + 1, y)'
    <3>1. Begins(i + 1, y)'
      BY <2>6
    <3> HIDE DEF y
    <3>2. QED
      BY <1>9, <2>7, <2>8, <2>9, <3>1 DEF Settled
  <2>11. QED
    BY <1>1, <2>6, <2>10, SomewhereNext
<1>13. CASE AtCut(i, b)
  <2>1. socket # "open" /\ rest = <<>>
    BY <1>13 DEF AtCut
  <2>2. Dry'
    BY <1>1, <2>1 DEF Dry, NextLine
  <2>3. QED
    BY <2>2 DEF Progress
<1>14. QED
  BY <1>10, <1>11, <1>12, <1>13

LEMMA ProgressStays == ASSUME TInv, Progress, Next PROVE Progress'
<1>1. CASE EndOfHead
  <2>1. ~Parsing'
    BY <1>1 DEF EndOfHead, Parsing, Reading
  <2>2. QED
    BY <2>1 DEF Progress
<1>2. CASE Done
  <2>1. ~Parsing'
    BY <1>2 DEF Done, vars, Parsing, Reading, Outcome
  <2>2. QED
    BY <2>1 DEF Progress
<1>3. QED
  BY <1>1, <1>2, InLineProgress, LostProgress, LineProgress DEF Next, Thread
-----------------------------------------------------------------------------
(* The invariant: what was read is what was sent. *)

LEMMA SentStart == ASSUME Init PROVE Sent
BY DEF Init, Sent

\* What is kept while nothing is parsed.
LEMMA SentSame ==
  ASSUME Sent, Same, ~accident' => ~accident, pc \in Reading
  PROVE  Sent'
<1>1. /\ request' = request /\ pc' = pc /\ method' = method /\ url' = url /\ query_string' = query_string
      /\ properties' = properties
  BY DEF Same
<1>2. (LinePrefix' <=> LinePrefix) /\ (FieldsPrefix' <=> FieldsPrefix) /\ (Fits(request)' <=> Fits(request))
  BY <1>1 DEF LinePrefix, FieldsPrefix
<1>3. ~Served'
  BY <1>1 DEF Served, Reading
<1>4. QED
  BY <1>1, <1>2, <1>3 DEF Sent

LEMMA SentStays == ASSUME TInv, Progress, Sent, Next PROVE Sent'
<1>1. request \in Requests
  BY DEF TInv
<1>2. ASSUME Recv \/ RecvFails \/ Peek \/ Lose \/ SetNonblocking \/ Shutdown PROVE Sent'
  <2>1. Same /\ pc \in Reading
    BY <1>2 DEF Recv, RecvFails, Peek, Lose, SetNonblocking, Shutdown, Parsed, Same, InLine
  <2>2. UNCHANGED accident \/ accident' = (accident \/ rest # <<>>)
    BY <1>2 DEF Recv, RecvFails, Peek, Lose, SetNonblocking, Shutdown
  <2>3. ~accident' => ~accident
    BY <2>2, Zenon
  <2>4. QED
    BY <2>1, <2>3, SentSame
<1>3. ASSUME RequestLine, Fits(request'), ~accident'
      PROVE  pc' = "header" /\ LinePrefix' /\ FieldsPrefix'
  <2>1. /\ pc = "request line" /\ LineDone /\ request' = request /\ properties' = properties
        /\ pc' = (IF Len(url') < UrlSize THEN "header" ELSE "overrun") /\ Fits(request)
    BY <1>3 DEF RequestLine
  <2>2. accident' = accident
    BY <1>3 DEF RequestLine
  <2>3. ~accident
    BY <1>3, <2>2
  <2>4. ~Dry /\ pc \in Reading
    BY <2>1 DEF Dry, Reading
  <2>5. PICK i \in Lines(request), m \in Nat : AtLine(i, m)
    BY <2>1, <2>3, <2>4, LineIs
  <2>6. UpTo(line, Line(request, 1), m)
    BY <2>1, <2>5 DEF AtLine
  <2>7. LinePrefix'
    BY <1>1, <1>3, <2>6, FirstLineRead
  <2>8. (request \in Requests /\ Fits(request) /\ LinePrefix => Len(url) < UrlSize /\ IsPrefix(url, Path(request)))'
    BY UrlShort, PTL
  <2>9. Len(url') < UrlSize
    BY <1>1, <2>1, <2>7, <2>8
  <2>10. FieldsPrefix'
    <3>1. properties' = <<>>
      BY <2>1 DEF TInv
    <3>2. QED
      BY <3>1 DEF FieldsPrefix
  <2>11. QED
    BY <2>1, <2>7, <2>9, <2>10
<1>4. ASSUME Header, Fits(request'), ~accident'
      PROVE  pc' = "header" /\ LinePrefix' /\ FieldsPrefix'
  <2>1. /\ pc = "header" /\ LineDone /\ line \notin {<<>>, <<"LF">>} /\ request' = request /\ pc' = pc
        /\ url' = url /\ query_string' = query_string /\ Fits(request)
    BY <1>4 DEF Header
  <2>2. accident' = accident
    BY <1>4 DEF Header
  <2>3. ~accident
    BY <1>4, <2>2
  <2>4. ~Dry /\ pc \in Reading
    BY <2>1 DEF Dry, Reading
  <2>5. PICK i \in Lines(request), m \in Nat : AtLine(i, m)
    BY <2>1, <2>3, <2>4, LineIs
  <2>6. i # 1 /\ i <= Len(Written(request))
    <3>1. ~(i > Len(Written(request))) /\ i # 1
      BY <2>1, <2>5 DEF AtLine
    <3>2. Len(Written(request)) \in Nat /\ i \in Nat
      BY <1>1, RowsTyped DEF Lines
    <3>3. QED
      BY <3>1, <3>2
  <2>7. FieldsPrefix'
    BY <1>4, <2>1, <2>5, <2>6, HeaderNext DEF AtLine
  <2>8. LinePrefix
    BY <2>1, <2>3 DEF Sent
  <2>9. LinePrefix'
    BY <2>1, <2>8 DEF LinePrefix
  <2>10. QED
    BY <2>1, <2>7, <2>9
<1>5. ASSUME EndOfHead, Fits(request'), ~accident'
      PROVE  /\ pc' # "overrun" /\ LinePrefix' /\ FieldsPrefix'
             /\ socket' = "open" => AllRead(Len(Written(request)))'
  <2>1. /\ pc = "header" /\ LineDone /\ line \in {<<>>, <<"LF">>} /\ request' = request /\ socket' = socket
        /\ method' = method /\ url' = url /\ query_string' = query_string /\ properties' = properties
        /\ Fits(request) /\ pc' \in {"content", "callback", "unimplemented"}
    BY <1>5 DEF EndOfHead
  <2>2. accident' = accident
    BY <1>5 DEF EndOfHead
  <2>3. ~accident
    BY <1>5, <2>2
  <2>4. LinePrefix /\ FieldsPrefix
    BY <2>1, <2>3 DEF Sent
  <2>5. LinePrefix' /\ FieldsPrefix'
    BY <2>1, <2>4 DEF LinePrefix, FieldsPrefix
  <2>6. ASSUME socket' = "open" PROVE AllRead(Len(Written(request)))'
    <3>1. ~Dry /\ pc \in Reading /\ socket = "open"
      BY <2>1, <2>6 DEF Dry, Reading
    <3>2. PICK i \in Lines(request), m \in Nat : AtLine(i, m)
      BY <2>1, <2>3, <3>1, LineIs
    <3> DEFINE N == Len(Written(request))
    <3>3. i > N /\ i > 1 => AllRead(i - 1)
      BY <3>2 DEF AtLine
    <3>4. i > N
      BY <2>1, <3>1, <3>2 DEF AtLine
    <3>5. i - 1 = N /\ i > 1
      <4>1. N \in Nat \ {0} /\ i \in 1..(N + 1)
        BY <1>1, RowsTyped DEF Lines
      <4> HIDE DEF N
      <4>2. QED
        BY <3>4, <4>1
    <3>6. AllRead(N)
      BY <3>3, <3>4, <3>5
    <3>7. QED
      BY <2>1, <3>6 DEF AllRead, LineRead
  <2>7. QED
    BY <2>1, <2>5, <2>6
<1>6. ASSUME Done PROVE Sent'
  <2>1. /\ request' = request /\ pc' = pc /\ method' = method /\ url' = url /\ query_string' = query_string
        /\ properties' = properties /\ socket' = socket
    BY <1>6 DEF Done, vars
  <2>2. accident' = accident
    BY <1>6 DEF Done, vars
  <2>3. ~accident' => ~accident
    BY <2>2
  <2>4. (LinePrefix' <=> LinePrefix) /\ (FieldsPrefix' <=> FieldsPrefix) /\ (Fits(request)' <=> Fits(request))
        /\ (AllRead(Len(Written(request)))' <=> AllRead(Len(Written(request))))
        /\ (Served' <=> Served)
    BY <2>1 DEF LinePrefix, FieldsPrefix, AllRead, LineRead, Served
  <2>5. QED
    BY <2>1, <2>3, <2>4 DEF Sent
<1>7. ASSUME RequestLine \/ Header PROVE Sent'
  <2>1. pc' \in {"header", "overrun"}
    BY <1>7 DEF RequestLine, Header
  <2>2. ~Served'
    BY <2>1 DEF Served
  <2>3. ASSUME Fits(request'), ~accident' PROVE pc' # "overrun" /\ LinePrefix' /\ FieldsPrefix'
    BY <1>3, <1>4, <1>7, <2>3
  <2>4. QED
    BY <2>2, <2>3 DEF Sent
<1>8. ASSUME EndOfHead PROVE Sent'
  <2>1. request' = request
    BY <1>8 DEF EndOfHead
  <2>2. QED
    BY <1>5, <1>8, <2>1 DEF Sent
<1>9. QED
  BY <1>2, <1>6, <1>7, <1>8 DEF Next, Thread
-----------------------------------------------------------------------------
(* The theorems. *)

LEMMA EndStays == ASSUME TInv, Progress, HeadEndsAtEmptyLine, Next PROVE HeadEndsAtEmptyLine'
<1>1. CASE EndOfHead
  BY <1>1, EndIsRight
<1>2. CASE Done
  <2>1. request' = request /\ rest' = rest /\ socket' = socket /\ pc' = pc
    BY <1>2 DEF Done, vars
  <2>2. QED
    BY <2>1 DEF HeadEndsAtEmptyLine, Served
<1>3. CASE RequestLine \/ Header
  <2>1. pc' \in {"header", "overrun"}
    BY <1>3 DEF RequestLine, Header
  <2>2. QED
    BY <2>1 DEF HeadEndsAtEmptyLine, Served
<1>4. CASE Recv \/ RecvFails \/ Peek \/ Lose \/ SetNonblocking \/ Shutdown
  <2>1. pc' = pc /\ pc \in Reading
    BY <1>4 DEF Recv, RecvFails, Peek, Lose, SetNonblocking, Shutdown, Parsed, InLine
  <2>2. QED
    BY <2>1 DEF HeadEndsAtEmptyLine, Served, Reading
<1>5. QED
  BY <1>1, <1>2, <1>3, <1>4 DEF Next, Thread

LEMMA InvariantStutters == ASSUME IInv, UNCHANGED vars PROVE IInv'
<1>1. /\ request' = request /\ rest' = rest /\ socket' = socket /\ line' = line /\ c' = c /\ pc' = pc
      /\ method' = method /\ url' = url /\ query_string' = query_string /\ properties' = properties
  BY DEF vars
<1>2. accident' = accident
  BY DEF vars
<1>3. TInv'
  BY <1>1, <1>2 DEF IInv, TInv
<1>4. Progress'
  <2>1. Same
    BY <1>1 DEF Same
  <2>2. CASE ~Parsing \/ accident
    BY <1>1, <1>2, <2>2 DEF Progress, Parsing
  <2>3. CASE Dry
    <3>1. Dry'
      BY <1>1, <2>3 DEF Dry
    <3>2. QED
      BY <3>1 DEF Progress
  <2>4. CASE Parsing /\ ~accident /\ ~Dry
    <3>1. PICK i \in Lines(request), n \in 0..Len(Message(request)) :
            \E b \in LineAt(request, i)..LineEnd(request, i) :
               /\ Within(i, b, n) /\ Settled(i, b) /\ Begins(i, b) /\ Place(i, b, n)
               /\ request \in Requests /\ b \in Nat /\ n \in Nat
      BY <2>4, SomewhereNow DEF IInv, Parsing
    <3>2. PICK b \in LineAt(request, i)..LineEnd(request, i) : Settled(i, b) /\ Place(i, b, n)
      BY <3>1
    <3>3. Settled(i, b)'
      BY <2>1, <3>2, SettledStays
    <3>4. Place(i, b, n)'
      BY <1>1, <3>2 DEF Place, InText, AtCR, AtLF, AtCut
    <3>5. QED
      BY <1>1, <3>3, <3>4, SomewhereNext
  <2>5. QED
    BY <2>2, <2>3, <2>4
<1>5. Sent'
  BY <1>1, <1>2 DEF IInv, Sent, LinePrefix, FieldsPrefix, AllRead, LineRead, Served
<1>6. HeadEndsAtEmptyLine'
  BY <1>1 DEF IInv, HeadEndsAtEmptyLine, Served
<1>7. QED
  BY <1>3, <1>4, <1>5, <1>6 DEF IInv

\* The inductive invariant: while a head is parsed the thread is at a place of
\* the message that get_line can be at, every earlier line has been taken in
\* whole, and what was parsed so far is what was sent so far.
THEOREM Invariant == Spec => []IInv
<1>1. Init => IInv
  <2>1. Init => HeadEndsAtEmptyLine
    BY DEF Init, HeadEndsAtEmptyLine, Served
  <2>2. QED
    BY <2>1, TypesStart, ProgressStart, SentStart DEF IInv
<1>2. IInv /\ [Next]_vars => IInv'
  <2> SUFFICES ASSUME IInv, [Next]_vars PROVE IInv'
    OBVIOUS
  <2>1. CASE Next
    BY <2>1, TypesStay, ProgressStays, SentStays, EndStays DEF IInv
  <2>2. CASE UNCHANGED vars
    BY <2>2, InvariantStutters
  <2>3. QED
    BY <2>1, <2>2
<1>3. QED
  BY <1>1, <1>2, PTL DEF Spec, Safety

\* The buffer of get_line never overflows, a carriage return included, and
\* everything else keeps its type.
THEOREM TypeCorrect == Spec => []TypeOK
<1>1. IInv => TypeOK
  <2> SUFFICES ASSUME TInv PROVE TypeOK
    BY DEF IInv
  <2>1. Len(line) < LineSize
    <3>1. line \in Seq(Symbols) /\ Len(line) <= Full
      BY DEF TInv
    <3>2. Len(line) \in Nat
      BY <3>1, LenProperties
    <3>3. QED
      BY <3>1, <3>2, FullNat
  <2>2. QED
    BY <2>1 DEF TInv, TypeOK
<1>2. QED
  BY <1>1, Invariant, PTL

\* parse_headers stops at the empty line the client sent, with the body still
\* to be read, unless a line is a whole number of buffers long; then it stops
\* too early or takes the line end for the empty line.
THEOREM HeadEndsRight == Spec => []HeadEndsAtEmptyLine
<1>1. IInv => HeadEndsAtEmptyLine
  BY DEF IInv
<1>2. QED
  BY <1>1, Invariant, PTL

LEMMA WholeHead ==
  ASSUME IInv, socket = "open", Fits(request), Served
  PROVE  pc # "overrun" /\ LineRead /\ properties = RawHeaders(request.headers)
<1>1. ~accident /\ request \in Requests
  BY DEF IInv, TInv
<1>2. pc # "request line"
  BY DEF Served
<1>3. AllRead(Len(Written(request)))
  BY <1>1, <1>2 DEF IInv, Sent
<1>4. Len(Written(request)) - 1 = Len(request.headers) /\ request.headers \in Seq(Field)
  BY <1>1, WrittenTyped, Asks
<1>5. SubSeq(request.headers, 1, Len(request.headers)) = request.headers
  BY <1>4, SubSeqFull
<1>6. LineRead /\ properties = RawHeaders(SubSeq(request.headers, 1, Len(Written(request)) - 1))
  BY <1>3 DEF AllRead
<1>7. QED
  BY <1>4, <1>5, <1>6 DEF Served

LEMMA Meant == ASSUME IInv PROVE ParsedAsMeant
<1>1. request \in Requests /\ (accident => socket # "open")
  BY DEF IInv, TInv
<1> SUFFICES ASSUME socket = "open", Fits(request)
             PROVE  /\ pc # "overrun"
                    /\ Served => /\ method = <<request.method>> /\ url = Path(request)
                                 /\ query_params = Params(request)
                                 /\ Values(properties) = Headers(request.headers)
  BY DEF ParsedAsMeant
<1>2. pc # "overrun"
  BY <1>1 DEF IInv, Sent
<1>3. ASSUME Served
      PROVE  /\ method = <<request.method>> /\ url = Path(request)
             /\ query_params = Params(request) /\ Values(properties) = Headers(request.headers)
  <2>1. LineRead /\ properties = RawHeaders(request.headers)
    BY <1>3, WholeHead
  <2>2. method = <<request.method>> /\ url = urldecode(PathText(request)) /\ query_string = QueryText(request)
    BY <2>1 DEF LineRead
  <2>3. url = Path(request)
    BY <1>1, <2>2, PathIs
  <2>4. query_params = Params(request)
    BY <1>1, <2>2, ParamsWhole
  <2>5. Values(properties) = Headers(request.headers)
    BY <2>1 DEF Headers
  <2>6. QED
    BY <2>2, <2>3, <2>4, <2>5
<1>4. QED
  BY <1>2, <1>3

ValuesPrefix ==
  \/ properties = <<>>
  \/ \E n \in DOMAIN request.headers : \E m \in 0..Len(request.headers[n].val) :
       Values(properties) = Headers([SubSeq(request.headers, 1, n) EXCEPT ![n].val = SubSeq(@, 1, m)])

LEMMA CutShort == ASSUME IInv PROVE CutIsPrefix
<1> SUFFICES ASSUME Served, ~accident, Fits(request)
             PROVE  IsPrefix(url, Path(request)) /\ ParamsPrefix /\ ValuesPrefix
  BY DEF CutIsPrefix, ParamsPrefix, ValuesPrefix
<1>1. request \in Requests
  BY DEF IInv, TInv
<1>2. LinePrefix /\ FieldsPrefix
  BY DEF IInv, Sent, Served
<1>3. IsPrefix(url, Path(request))
  BY <1>1, <1>2, UrlShort
<1>4. PICK y \in 0..Len(QueryText(request)) : query_string = SubSeq(QueryText(request), 1, y)
  BY <1>2 DEF LinePrefix
<1>5. ParamsPrefix
  BY <1>1, <1>4, ParamsCut
<1>6. ValuesPrefix
  BY <1>2 DEF FieldsPrefix, ValuesPrefix, Headers
<1>7. QED
  BY <1>3, <1>5, <1>6

LEMMA RangeRight == ASSUME IInv PROVE RangeAsAsked
<1>1. request \in Requests /\ \A key \in DOMAIN properties : properties[key] \in Seq(Symbols)
  BY DEF IInv, TInv
<1> SUFFICES ASSUME ~TooLarge
             PROVE  /\ RangeForm(range)
                    /\ socket = "open" /\ Served /\ Fits(request) /\ AsksForRange(request)
                         => range = Asked(request)
  BY DEF RangeAsAsked, RangeForm, TooLarge
<1>2. RangeForm(range)
  BY <1>1, RangeTyped
<1>3. ASSUME socket = "open", Served, Fits(request), AsksForRange(request) PROVE range = Asked(request)
  <2>1. properties = RawHeaders(request.headers)
    BY <1>3, WholeHead
  <2>2. QED
    BY <1>1, <1>3, <2>1, RangeIs
<1>4. QED
  BY <1>2, <1>3

\* A request whose lines fit is understood as the client meant it, one that is
\* cut off as the beginning of it, and its range as serve_bin_file needs it.
THEOREM Understood == Spec => []UnderstoodAsSent
<1>1. IInv => UnderstoodAsSent
  BY Meant, CutShort, RangeRight DEF UnderstoodAsSent
<1>2. QED
  BY <1>1, Invariant, PTL
=============================================================================
