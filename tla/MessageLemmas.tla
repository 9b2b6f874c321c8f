---------------------------- MODULE MessageLemmas ----------------------------
(***************************************************************************)
(* What the message formats of the enrollment compute, for every input:    *)
(* base64 and DER as functions of sequences of any length, and what the    *)
(* scan for a certificate makes of them.                                   *)
(***************************************************************************)
EXTENDS EstMessage, CsrGen, RaDer, CertScan, SeqLemmas

(***************************************************************************)
(* FlattenSeq of the community modules.                                    *)
(***************************************************************************)

\* What its recursive function computes.
Flattens(f, S, ss, n) ==
    /\ f \in [1..n -> Seq(S)] /\ FlattenSeq(ss) = f[n] /\ f[1] = ss[1]
    /\ \A i \in 2..n : f[i] = f[i - 1] \o ss[i]

LEMMA FlatFunction ==
    ASSUME NEW S, NEW ss \in Seq(Seq(S)), ss # <<>>
    PROVE  \E f : Flattens(f, S, ss, Len(ss))
<1> DEFINE n == Len(ss)
           Body(f) == [i \in 1..n |-> IF i = 1 THEN ss[i] ELSE f[i - 1] \o ss[i]]
           F == CHOOSE f : f = Body(f)
<1>1. n \in Nat \ {0} /\ ss \in [1..n -> Seq(S)] /\ n # 0
  BY SeqTail, SeqDomain
<1>2. FlattenSeq(ss) = F[n]
  BY <1>1, Zenon DEF FlattenSeq
<1> HIDE DEF n
<1>3. \E f : f = Body(f)
  <2> DEFINE St == [i \in 1..(n - 1) |-> [x \in Seq(S) |-> x \o ss[i + 1]]]
  <2>1. ASSUME NEW i \in 1..(n - 1), NEW x \in Seq(S)
        PROVE  x \o ss[i + 1] \in Seq(S)
    <3>1. i + 1 \in 1..n
      BY <1>1
    <3>2. ss[i + 1] \in Seq(S)
      BY <1>1, <3>1
    <3> QED
      BY <3>2, SeqConcat
  <2>2. St \in [1..(n - 1) -> [Seq(S) -> Seq(S)]]
    BY <2>1
  <2>3. \A i \in 1..(n - 1), x \in Seq(S) : St[i][x] = x \o ss[i + 1]
    OBVIOUS
  <2>4. n - 1 \in Nat /\ ss[1] \in Seq(S)
    BY <1>1
  <2> HIDE DEF St
  <2>5. PICK h \in [0..(n - 1) -> Seq(S)] :
           h[0] = ss[1] /\ \A i \in 1..(n - 1) : h[i] = St[i][h[i - 1]]
    <3> DEFINE m == n - 1
               W == Seq(S)
               b == ss[1]
    <3>1. m \in Nat /\ b \in W /\ St \in [1..m -> [W -> W]]
      BY <2>2, <2>4
    <3> HIDE DEF m, W, b
    <3>2. \E h : Computes(h, W, b, m, St)
      BY <3>1, NatRecursion
    <3> QED
      BY <3>2 DEF m, W, b, Computes
  <2> DEFINE f == [i \in 1..n |-> h[i - 1]]
  <2>6. ASSUME NEW i \in 1..n PROVE f[i] = IF i = 1 THEN ss[i] ELSE f[i - 1] \o ss[i]
    <3>1. CASE i = 1
      BY <1>1, <2>5, <3>1
    <3>2. CASE i # 1
      <4>1. i - 1 \in 1..(n - 1) /\ i - 1 \in 1..n /\ (i - 1) - 1 \in 0..(n - 1)
            /\ (i - 1) + 1 = i
        BY <1>1, <3>2
      <4>2. f[i] = h[i - 1] /\ f[i - 1] = h[(i - 1) - 1] /\ h[(i - 1) - 1] \in Seq(S)
        BY <4>1
      <4> HIDE DEF f
      <4>3. h[i - 1] = h[(i - 1) - 1] \o ss[(i - 1) + 1]
        BY <2>3, <2>5, <4>1, <4>2
      <4> QED
        BY <3>2, <4>1, <4>2, <4>3
    <3> QED
      BY <3>1, <3>2
  <2>7. f = Body(f)
    <3>1. f = [i \in 1..n |-> f[i]]
      OBVIOUS
    <3> HIDE DEF f
    <3> QED
      BY <2>6, <3>1
  <2> QED
    BY <2>7
<1>4. F = Body(F)
  <2> HIDE DEF Body
  <2> QED
    BY <1>3
<1> HIDE DEF F
<1>5. \A i \in 1..n : F[i] = IF i = 1 THEN ss[i] ELSE F[i - 1] \o ss[i]
  BY <1>4
<1>6. F[1] = ss[1] /\ \A i \in 2..n : F[i] = F[i - 1] \o ss[i]
  <2>1. 1 \in 1..n /\ \A i \in 2..n : i \in 1..n /\ i # 1
    BY <1>1
  <2> QED
    BY <1>5, <2>1
<1>7. \A i \in 1..n : F[i] \in Seq(S)
  <2> DEFINE T == {i \in Nat : i + 1 \in 1..n => F[i + 1] \in Seq(S)}
  <2>1. 0 \in T
    BY <1>1, <1>6
  <2>2. ASSUME NEW i \in 0..n, i \in T, i < n PROVE i + 1 \in T
    <3>1. SUFFICES ASSUME (i + 1) + 1 \in 1..n PROVE F[(i + 1) + 1] \in Seq(S)
      BY <2>2
    <3>2. i + 1 \in 1..n /\ (i + 1) + 1 \in 2..n /\ ((i + 1) + 1) - 1 = i + 1
      BY <1>1, <2>2, <3>1
    <3>3. F[i + 1] \in Seq(S)
      BY <2>2, <3>2
    <3>4. F[(i + 1) + 1] = F[i + 1] \o ss[(i + 1) + 1]
      BY <1>6, <3>2
    <3>5. ss[(i + 1) + 1] \in Seq(S)
      BY <1>1, <3>1
    <3> QED
      BY <3>3, <3>4, <3>5, SeqConcat
  <2>3. \A i \in 0..n : i \in T
    <3> HIDE DEF T
    <3> QED
      BY <1>1, <2>1, <2>2, NatUpTo
  <2>4. ASSUME NEW i \in 1..n PROVE F[i] \in Seq(S)
    <3>1. i - 1 \in 0..n /\ (i - 1) + 1 = i
      BY <1>1
    <3> QED
      BY <2>3, <3>1
  <2> QED
    BY <2>4
<1>8. F \in [1..n -> Seq(S)]
  <2>1. F = [i \in 1..n |-> F[i]]
    BY <1>4
  <2> QED
    BY <1>7, <2>1
<1> QED
  BY <1>2, <1>6, <1>8 DEF n, Flattens

\* Of no sequence it makes the empty one,
LEMMA FlatNone == FlattenSeq(<<>>) = <<>>
BY DEF FlattenSeq

\* of one sequence this one,
LEMMA FlatOne ==
    ASSUME NEW S, NEW s \in Seq(S)
    PROVE  FlattenSeq(<<s>>) = s
<1> DEFINE ss == <<s>>
<1>1. ss \in Seq(Seq(S)) /\ ss # <<>> /\ Len(ss) = 1 /\ ss[1] = s
  OBVIOUS
<1> HIDE DEF ss
<1>2. PICK f : Flattens(f, S, ss, 1)
  BY <1>1, FlatFunction
<1>3. FlattenSeq(ss) = s
  BY <1>1, <1>2 DEF Flattens
<1> QED
  BY <1>3 DEF ss

\* and one more is joined at the end.
LEMMA FlatAppend ==
    ASSUME NEW S, NEW ss \in Seq(Seq(S)), NEW s \in Seq(S)
    PROVE  /\ FlattenSeq(ss) \in Seq(S)
           /\ FlattenSeq(Append(ss, s)) = FlattenSeq(ss) \o s
<1> DEFINE n == Len(ss)
           tt == Append(ss, s)
<1>1. n \in Nat
  BY SeqDomain
<1>2. /\ tt \in Seq(Seq(S)) /\ Len(tt) = n + 1 /\ tt[n + 1] = s
      /\ \A i \in 1..n : tt[i] = ss[i]
  BY SeqAppend
<1> HIDE DEF tt, n
<1>3. tt # <<>>
  <2>1. Len(tt) # 0
    BY <1>1, <1>2
  <2> QED
    BY <1>2, <2>1, SeqEmpty
<1>4. CASE ss = <<>>
  <2>2. tt = <<s>>
    BY <1>4 DEF tt
  <2>3. FlattenSeq(tt) = s /\ FlattenSeq(ss) = <<>> /\ <<>> \o s = s /\ <<>> \in Seq(S)
    BY <1>4, <2>2, FlatOne, FlatNone, SeqUnit
  <2> QED
    BY <2>3 DEF tt
<1>5. CASE ss # <<>>
  <2>1. n >= 1
    BY <1>5, SeqTail DEF n
  <2>2. PICK f :
           /\ f \in [1..n -> Seq(S)] /\ FlattenSeq(ss) = f[n] /\ f[1] = ss[1]
           /\ \A i \in 2..n : f[i] = f[i - 1] \o ss[i]
    BY <1>5, FlatFunction DEF n, Flattens
  <2>3. PICK g :
           /\ g \in [1..(n + 1) -> Seq(S)] /\ FlattenSeq(tt) = g[n + 1] /\ g[1] = tt[1]
           /\ \A i \in 2..(n + 1) : g[i] = g[i - 1] \o tt[i]
    <3>1. \E g : Flattens(g, S, tt, Len(tt))
      BY <1>2, <1>3, FlatFunction
    <3>2. \E g : Flattens(g, S, tt, n + 1)
      BY <1>2, <3>1
    <3> QED
      BY <3>2 DEF Flattens
  <2> DEFINE T == {i \in Nat : i + 1 \in 1..n => g[i + 1] = f[i + 1]}
  <2>4. 0 \in T
    <3>1. 1 \in 1..n
      BY <1>1, <2>1
    <3> QED
      BY <1>2, <2>2, <2>3, <3>1
  <2>5. ASSUME NEW i \in 0..n, i \in T, i < n PROVE i + 1 \in T
    <3>1. SUFFICES ASSUME (i + 1) + 1 \in 1..n PROVE g[(i + 1) + 1] = f[(i + 1) + 1]
      BY <2>5
    <3>2. i + 1 \in 1..n /\ (i + 1) + 1 \in 2..n /\ ((i + 1) + 1) - 1 = i + 1
          /\ (i + 1) + 1 \in 2..(n + 1)
      BY <1>1, <2>5, <3>1
    <3>3. g[i + 1] = f[i + 1]
      BY <2>5, <3>2
    <3>4. g[(i + 1) + 1] = g[i + 1] \o tt[(i + 1) + 1]
      BY <2>3, <3>2
    <3>5. f[(i + 1) + 1] = f[i + 1] \o ss[(i + 1) + 1]
      BY <2>2, <3>2
    <3>6. tt[(i + 1) + 1] = ss[(i + 1) + 1]
      BY <1>2, <3>1
    <3> QED
      BY <3>3, <3>4, <3>5, <3>6
  <2>6. \A i \in 0..n : i \in T
    <3> HIDE DEF T
    <3> QED
      BY <1>1, <2>4, <2>5, NatUpTo
  <2>7. n - 1 \in 0..n /\ (n - 1) + 1 = n /\ n \in 1..n /\ n + 1 \in 2..(n + 1)
        /\ (n + 1) - 1 = n
    BY <1>1, <2>1
  <2>8. g[n] = f[n]
    BY <2>6, <2>7
  <2>9. g[n + 1] = g[n] \o tt[n + 1]
    BY <2>3, <2>7
  <2>10. f[n] \in Seq(S)
    BY <2>2, <2>7
  <2> QED
    BY <1>2, <2>2, <2>3, <2>8, <2>9, <2>10 DEF tt
<1> QED
  BY <1>4, <1>5

(***************************************************************************)
(* Parts of sequences.                                                     *)
(***************************************************************************)

\* The beginning s of t, cut anywhere.
IsPart(s, t) == \E n \in 0..Len(t) : s = SubSeq(t, 1, n)

\* Two segments next to each other.
LEMMA SegmentsJoin ==
    ASSUME NEW S, NEW s \in Seq(S), NEW a \in 0..Len(s), NEW b \in a..Len(s)
    PROVE  SubSeq(s, 1, a) \o SubSeq(s, a + 1, b) = SubSeq(s, 1, b)
<1> DEFINE x == SubSeq(s, 1, a)
           y == SubSeq(s, a + 1, b)
           z == SubSeq(s, 1, b)
           c == x \o y
<1>1. Len(s) \in Nat /\ a \in Nat /\ b \in Nat /\ a <= b /\ b <= Len(s)
  BY SeqDomain
<1>2. x \in Seq(S) /\ Len(x) = a /\ \A i \in 1..a : x[i] = s[i]
  OBVIOUS
<1>3. y \in Seq(S) /\ Len(y) = b - a /\ \A i \in 1..(b - a) : y[i] = s[a + i]
  <2>1. /\ y \in Seq(S) /\ Len(y) = b + 1 - (a + 1)
        /\ \A i \in 1..(b + 1 - (a + 1)) : y[i] = s[(a + 1) + i - 1]
    BY <1>1, SeqSegment
  <2>2. b + 1 - (a + 1) = b - a /\ \A i \in 1..(b - a) : (a + 1) + i - 1 = a + i
    BY <1>1
  <2> HIDE DEF y
  <2> QED
    BY <2>1, <2>2
<1>4. z \in Seq(S) /\ Len(z) = b /\ \A i \in 1..b : z[i] = s[i]
  OBVIOUS
<1> HIDE DEF x, y, z
<1>5. /\ c \in Seq(S) /\ Len(c) = a + (b - a)
      /\ \A i \in 1..a : c[i] = x[i]
      /\ \A i \in 1..(a + (b - a)) : i > a => c[i] = y[i - a]
  BY <1>2, <1>3, SeqConcat
<1> HIDE DEF c
<1>6. \A i \in 1..b : c[i] = z[i]
  <2> TAKE i \in 1..b
  <2>1. CASE i <= a
    BY <1>1, <1>2, <1>4, <1>5, <2>1
  <2>2. CASE i > a
    <3>1. i - a \in 1..(b - a) /\ a + (i - a) = i /\ i \in 1..(a + (b - a))
      BY <1>1, <2>2
    <3> QED
      BY <1>3, <1>4, <1>5, <2>2, <3>1
  <2> QED
    BY <1>1, <2>1, <2>2
<1>7. Len(c) = Len(z)
  BY <1>1, <1>4, <1>5
<1>8. c = z
  BY <1>4, <1>5, <1>6, <1>7, SeqSame
<1> QED
  BY <1>8 DEF c, x, y, z

\* A part of a part.
LEMMA PartOfPart ==
    ASSUME NEW S, NEW t \in Seq(S), NEW s, IsPart(s, t), NEW n \in 0..Len(s)
    PROVE  IsPart(SubSeq(s, 1, n), t)
<1>1. PICK m \in 0..Len(t) : s = SubSeq(t, 1, m)
  BY DEF IsPart
<1>2. m \in Nat /\ Len(t) \in Nat /\ m <= Len(t)
  BY SeqDomain
<1>3. s \in Seq(S) /\ Len(s) = m /\ \A i \in 1..m : s[i] = t[i]
  BY <1>1
<1>4. n \in Nat /\ n <= m /\ n \in 0..Len(t)
  BY <1>2, <1>3
<1> DEFINE u == SubSeq(s, 1, n)
           v == SubSeq(t, 1, n)
<1>5. u \in Seq(S) /\ Len(u) = n /\ \A i \in 1..n : u[i] = s[i]
  BY <1>3, <1>4
<1>6. v \in Seq(S) /\ Len(v) = n /\ \A i \in 1..n : v[i] = t[i]
  BY <1>4
<1> HIDE DEF u, v
<1>7. \A i \in 1..Len(u) : u[i] = v[i]
  BY <1>3, <1>4, <1>5, <1>6
<1>8. u = v
  BY <1>5, <1>6, <1>7, SeqSame
<1>9. u = SubSeq(t, 1, n)
  BY <1>8 DEF v
<1> QED
  BY <1>4, <1>9 DEF IsPart, u

(***************************************************************************)
(* Base64.                                                                 *)
(***************************************************************************)

Kinds   == {"GET", "POST", "status", "split", "space", "html", "digit"}
Symbols == [kind : Kinds, val : Nat, bytes : Seq(Nat)]

LEMMA SymbolType ==
    ASSUME NEW k \in Kinds, NEW v \in Nat, NEW b \in Seq(Nat)
    PROVE  /\ Symbol(k, v, b) \in Symbols
           /\ Symbol(k, v, b).kind = k /\ Symbol(k, v, b).val = v /\ Symbol(k, v, b).bytes = b
BY DEF Symbol, Symbols

\* The bytes of the first g groups.
UpTo(der, g) == IF 3 * g < Len(der) THEN 3 * g ELSE Len(der)

\* Group g follows the g before it.
LEMMA GroupFact ==
    ASSUME NEW der \in Seq(Nat), NEW g \in Nat, 3 * g < Len(der)
    PROVE  /\ GroupBytes(der, g) \in Seq(Nat)
           /\ UpTo(der, g) \in 0..Len(der)
           /\ SubSeq(der, 1, UpTo(der, g)) \in Seq(Nat)
           /\ SubSeq(der, 1, UpTo(der, g)) \o GroupBytes(der, g)
              = SubSeq(der, 1, UpTo(der, g + 1))
<1> DEFINE n == Len(der)
<1>1. n \in Nat
  BY SeqDomain
<1>2. UpTo(der, g) \in 0..n
  BY <1>1 DEF UpTo
<1>3. UpTo(der, g) = 3 * g
  BY DEF UpTo
<1>4. UpTo(der, g + 1) \in (3 * g)..n
  BY <1>1 DEF UpTo
<1>5. GroupBytes(der, g) = SubSeq(der, 3 * g + 1, UpTo(der, g + 1))
  <2>1. 3 * (g + 1) = 3 * g + 3
    OBVIOUS
  <2> QED
    BY <2>1 DEF GroupBytes, UpTo
<1>6. GroupBytes(der, g) \in Seq(Nat)
  <2> DEFINE a == 3 * g + 1
             b == UpTo(der, g + 1)
  <2>1. a \in Nat /\ a >= 1 /\ b \in Nat /\ b <= n /\ a <= b + 1
    BY <1>1 DEF UpTo
  <2> HIDE DEF a, b
  <2>2. SubSeq(der, a, b) \in Seq(Nat)
    BY <2>1, SeqSegment
  <2> QED
    BY <1>5, <2>2 DEF a, b
<1>7. SubSeq(der, 1, UpTo(der, g)) \in Seq(Nat)
  BY <1>2, SeqCut
<1>8. SubSeq(der, 1, UpTo(der, g)) \o GroupBytes(der, g) = SubSeq(der, 1, UpTo(der, g + 1))
  <2> DEFINE a == 3 * g
             b == UpTo(der, g + 1)
  <2>1. a \in 0..n /\ b \in a..n
    BY <1>1, <1>4
  <2> HIDE DEF a, b
  <2>2. SubSeq(der, 1, a) \o SubSeq(der, a + 1, b) = SubSeq(der, 1, b)
    BY <2>1, SegmentsJoin
  <2>3. UpTo(der, g) = a /\ GroupBytes(der, g) = SubSeq(der, a + 1, b)
    BY <1>3, <1>5 DEF a, b
  <2> QED
    BY <2>2, <2>3 DEF b
<1> QED
  BY <1>2, <1>6, <1>7, <1>8

\* The text of a sequence of bytes.
LEMMA TextType ==
    ASSUME NEW der \in Seq(Nat)
    PROVE  /\ Base64(der) \in Seq(Symbols) /\ Len(Base64(der)) = 4 * ((Len(der) + 2) \div 3)
           /\ Len(Base64(der)) \in Nat
           /\ \A i \in 1..Len(Base64(der)) :
                 Base64(der)[i] = Symbol("digit", (i - 1) % 4, GroupBytes(der, (i - 1) \div 4))
<1> DEFINE n == Len(der)
           m == 4 * ((n + 2) \div 3)
           Text(i) == Symbol("digit", (i - 1) % 4, GroupBytes(der, (i - 1) \div 4))
<1>1. n \in Nat
  BY SeqDomain
<1> HIDE DEF n
<1>2. m \in Nat /\ m = 4 * ((n + 2) \div 3) /\ m < 4 * n + 4
  BY <1>1
<1> HIDE DEF m
<1>3. ASSUME NEW i \in 1..m PROVE Text(i) \in Symbols
  <2> DEFINE g == (i - 1) \div 4
             v == (i - 1) % 4
  <2>1. g \in Nat /\ v \in Nat /\ 3 * g < n
    BY <1>1, <1>2
  <2> HIDE DEF g, v
  <2>2. GroupBytes(der, g) \in Seq(Nat)
    BY <2>1, GroupFact DEF n
  <2>3. Symbol("digit", v, GroupBytes(der, g)) \in Symbols
    BY <2>1, <2>2, SymbolType DEF Kinds
  <2> QED
    BY <2>3 DEF g, v
<1>4. Base64(der) = [i \in 1..m |-> Text(i)]
  BY DEF Base64, m, n
<1> HIDE DEF Text
<1>5. Base64(der) \in [1..m -> Symbols] /\ \A i \in 1..m : Base64(der)[i] = Text(i)
  BY <1>3, <1>4
<1>6. Base64(der) \in Seq(Symbols) /\ Len(Base64(der)) = m
  BY <1>2, <1>5, SeqMake
<1> QED
  BY <1>2, <1>5, <1>6 DEF m, n, Text

\* What is left of a text that was cut between two groups decodes to the bytes of
\* those groups.
LEMMA DecodedGroups ==
    ASSUME NEW der \in Seq(Nat), NEW m \in Nat, 4 * m <= Len(Base64(der))
    PROVE  Decoded(SubSeq(Base64(der), 1, 4 * m)) = SubSeq(der, 1, UpTo(der, m))
<1> DEFINE n == Len(der)
           B == Base64(der)
           t == SubSeq(B, 1, 4 * m)
           GG(k) == [g \in 1..k |-> GroupBytes(der, g - 1)]
<1>1. n \in Nat
  BY SeqDomain
<1>2. /\ B \in Seq(Symbols) /\ Len(B) = 4 * ((n + 2) \div 3)
      /\ \A i \in 1..Len(B) : B[i] = Symbol("digit", (i - 1) % 4, GroupBytes(der, (i - 1) \div 4))
  BY TextType
<1> HIDE DEF n, B
<1>3. \A k \in 0..m : k < m => 3 * k < n
  BY <1>1, <1>2 DEF B
<1>4. /\ Len(t) \div 4 = m
      /\ \A g \in 1..m : t[4 * g] = B[4 * g] /\ 4 * g \in 1..Len(B)
  <2>1. 4 * m \in Nat /\ 4 * m <= Len(B)
    BY DEF B
  <2>2. Len(t) = 4 * m /\ \A i \in 1..(4 * m) : t[i] = B[i] /\ i \in 1..Len(B)
    BY <1>2, <2>1
  <2> HIDE DEF t
  <2>3. \A g \in 1..m : 4 * g \in 1..(4 * m)
    OBVIOUS
  <2> QED
    BY <2>2, <2>3
<1> HIDE DEF t
<1>5. \A g \in 1..m : t[4 * g].bytes = GroupBytes(der, g - 1)
  <2> TAKE g \in 1..m
  <2> DEFINE v == (4 * g - 1) % 4
  <2>1. (4 * g - 1) \div 4 = g - 1 /\ v \in Nat /\ g - 1 \in Nat /\ g - 1 \in 0..m /\ g - 1 < m
    OBVIOUS
  <2> HIDE DEF v
  <2>2. B[4 * g] = Symbol("digit", v, GroupBytes(der, g - 1))
    BY <1>2, <1>4, <2>1 DEF v
  <2>3. GroupBytes(der, g - 1) \in Seq(Nat)
    BY <1>3, <2>1, GroupFact DEF n
  <2>4. Symbol("digit", v, GroupBytes(der, g - 1)).bytes = GroupBytes(der, g - 1)
    BY <2>1, <2>3, SymbolType DEF Kinds
  <2> QED
    BY <1>4, <2>2, <2>4
<1>6. Decoded(t) = FlattenSeq(GG(m))
  <2>1. Decoded(t) = FlattenSeq([g \in 1..m |-> t[4 * g].bytes])
    BY <1>4 DEF Decoded
  <2>2. [g \in 1..m |-> t[4 * g].bytes] = GG(m)
    BY <1>5
  <2> HIDE DEF GG
  <2> QED
    BY <2>1, <2>2
<1>7. ASSUME NEW k \in 0..m
      PROVE  /\ GG(k) \in Seq(Seq(Nat)) /\ Len(GG(k)) = k
             /\ \A g \in 1..k : GG(k)[g] = GroupBytes(der, g - 1)
  <2>1. ASSUME NEW g \in 1..k PROVE GroupBytes(der, g - 1) \in Seq(Nat)
    <3>1. g - 1 \in Nat /\ g - 1 \in 0..m /\ g - 1 < m
      BY <1>7
    <3> QED
      BY <1>3, <3>1, GroupFact DEF n
  <2>2. GG(k) \in [1..k -> Seq(Nat)] /\ k \in Nat
    BY <1>7, <2>1
  <2>3. \A g \in 1..k : GG(k)[g] = GroupBytes(der, g - 1)
    OBVIOUS
  <2> HIDE DEF GG
  <2>4. GG(k) \in Seq(Seq(Nat)) /\ Len(GG(k)) = k
    BY <2>2, SeqMake
  <2> QED
    BY <2>3, <2>4
<1> DEFINE T == {k \in Nat : FlattenSeq(GG(k)) = SubSeq(der, 1, UpTo(der, k))}
<1>8. 0 \in T
  <2>1. 0 \in 0..m
    OBVIOUS
  <2>2. GG(0) \in Seq(Seq(Nat)) /\ Len(GG(0)) = 0
    BY <1>7, <2>1
  <2> HIDE DEF GG
  <2>3. GG(0) = <<>>
    BY <2>2, SeqEmpty
  <2>4. UpTo(der, 0) = 0
    BY <1>1 DEF UpTo, n
  <2>5. SubSeq(der, 1, 0) = <<>>
    OBVIOUS
  <2> QED
    BY <2>3, <2>4, <2>5, FlatNone
<1>9. ASSUME NEW k \in 0..m, k \in T, k < m PROVE k + 1 \in T
  <2>1. k + 1 \in 0..m /\ k \in Nat /\ k + 1 \in Nat /\ (k + 1) - 1 = k
    BY <1>9
  <2>2. /\ GG(k) \in Seq(Seq(Nat)) /\ Len(GG(k)) = k
        /\ \A g \in 1..k : GG(k)[g] = GroupBytes(der, g - 1)
    BY <1>7
  <2>3. /\ GG(k + 1) \in Seq(Seq(Nat)) /\ Len(GG(k + 1)) = k + 1
        /\ \A g \in 1..(k + 1) : GG(k + 1)[g] = GroupBytes(der, g - 1)
    BY <1>7, <2>1
  <2>4. FlattenSeq(GG(k)) = SubSeq(der, 1, UpTo(der, k))
    BY <1>9
  <2> HIDE DEF GG, T
  <2> DEFINE b == GroupBytes(der, k)
             a == Append(GG(k), b)
  <2>5. 3 * k < n
    BY <1>3, <1>9
  <2>6. /\ b \in Seq(Nat)
        /\ SubSeq(der, 1, UpTo(der, k)) \o b = SubSeq(der, 1, UpTo(der, k + 1))
    BY <2>1, <2>5, GroupFact DEF n
  <2> HIDE DEF b
  <2>7. /\ a \in Seq(Seq(Nat)) /\ Len(a) = k + 1 /\ a[k + 1] = b
        /\ \A i \in 1..k : a[i] = GG(k)[i]
    <3> DEFINE S == Seq(Nat)
               f == GG(k)
    <3>1. f \in Seq(S) /\ Len(f) = k /\ b \in S
      BY <2>2, <2>6
    <3> HIDE DEF S, f
    <3>2. /\ Append(f, b) \in Seq(S) /\ Len(Append(f, b)) = Len(f) + 1
          /\ Append(f, b)[Len(f) + 1] = b /\ \A i \in 1..Len(f) : Append(f, b)[i] = f[i]
      BY <3>1, SeqAppend
    <3>3. /\ Append(f, b) \in Seq(S) /\ Len(Append(f, b)) = k + 1
          /\ Append(f, b)[k + 1] = b /\ \A i \in 1..k : Append(f, b)[i] = f[i]
      BY <3>1, <3>2
    <3> QED
      BY <3>3 DEF S, f
  <2> HIDE DEF a
  <2>8. \A i \in 1..(k + 1) : GG(k + 1)[i] = a[i]
    <3> TAKE i \in 1..(k + 1)
    <3>1. CASE i = k + 1
      BY <2>1, <2>3, <2>7, <3>1 DEF b
    <3>2. CASE i # k + 1
      <4>1. i \in 1..k
        BY <2>1, <3>2
      <4> QED
        BY <2>2, <2>3, <2>7, <4>1
    <3> QED
      BY <3>1, <3>2
  <2>9. GG(k + 1) = a
    BY <2>3, <2>7, <2>8, SeqSame
  <2>10. FlattenSeq(a) = FlattenSeq(GG(k)) \o b
    BY <2>2, <2>6, FlatAppend DEF a
  <2> QED
    BY <2>1, <2>4, <2>6, <2>9, <2>10 DEF T
<1>10. \A k \in 0..m : k \in T
  <2> HIDE DEF T
  <2> QED
    BY <1>8, <1>9, NatUpTo
<1>11. m \in 0..m
  OBVIOUS
<1>12. FlattenSeq(GG(m)) = SubSeq(der, 1, UpTo(der, m))
  <2> HIDE DEF GG
  <2> QED
    BY <1>10, <1>11
<1> QED
  BY <1>6, <1>12 DEF t, B

\* Compact leaves alone what has no white space in it,
LEMMA CompactSame ==
    ASSUME NEW text \in Seq(Symbols), \A i \in 1..Len(text) : text[i] # Space
    PROVE  Compact(text) = text
<1> DEFINE n == Len(text)
           ss == [i \in 1..n |-> <<text[i]>>]
           T == {k \in Nat : k <= n => FlattenSeq(SubSeq(ss, 1, k)) = SubSeq(text, 1, k)}
<1>1. n \in Nat
  BY SeqDomain
<1>2. \A i \in 1..n : text[i] \in Symbols /\ <<text[i]>> \in Seq(Symbols)
  BY SeqElt, SeqSmall
<1>3. Compact(text) = FlattenSeq(ss)
  <2>1. [i \in 1..n |-> IF text[i] = Space THEN <<>> ELSE <<text[i]>>] = ss
    OBVIOUS
  <2> HIDE DEF ss
  <2> QED
    BY <2>1 DEF Compact
<1> HIDE DEF n
<1>4. ss \in [1..n -> Seq(Symbols)] /\ \A i \in 1..n : ss[i] = <<text[i]>>
  BY <1>2
<1> HIDE DEF ss
<1>5. ss \in Seq(Seq(Symbols)) /\ Len(ss) = n
  BY <1>1, <1>4, SeqMake
<1>6. 0 \in T
  <2>1. SubSeq(ss, 1, 0) = <<>> /\ SubSeq(text, 1, 0) = <<>>
    BY <1>5
  <2> QED
    BY <2>1, FlatNone
<1>7. ASSUME NEW k \in 0..n, k \in T, k < n PROVE k + 1 \in T
  <2>1. k \in Nat /\ k + 1 \in 1..n /\ k \in 0..n
    BY <1>1, <1>7
  <2>2. FlattenSeq(SubSeq(ss, 1, k)) = SubSeq(text, 1, k)
    BY <1>1, <1>7
  <2>3. Append(SubSeq(ss, 1, k), ss[k + 1]) = SubSeq(ss, 1, k + 1)
    BY <1>5, <1>7, <2>1, SeqNext
  <2>4. Append(SubSeq(text, 1, k), text[k + 1]) = SubSeq(text, 1, k + 1)
    BY <1>7, <2>1, SeqNext DEF n
  <2>5. ss[k + 1] = <<text[k + 1]>> /\ <<text[k + 1]>> \in Seq(Symbols) /\ text[k + 1] \in Symbols
    BY <1>2, <1>4, <2>1
  <2> HIDE DEF T
  <2> DEFINE f == SubSeq(ss, 1, k)
             s == SubSeq(text, 1, k)
             x == text[k + 1]
  <2>6. f \in Seq(Seq(Symbols)) /\ s \in Seq(Symbols)
    BY <1>5, <2>1, SeqCut DEF n
  <2> HIDE DEF f, s, x
  <2>7. FlattenSeq(Append(f, <<x>>)) = FlattenSeq(f) \o <<x>>
    BY <2>5, <2>6, FlatAppend DEF x
  <2>8. Append(s, x) = s \o <<x>>
    BY <2>5, <2>6, SeqAppendConcat DEF x
  <2>9. FlattenSeq(SubSeq(ss, 1, k + 1)) = SubSeq(text, 1, k + 1)
    BY <2>2, <2>3, <2>4, <2>5, <2>7, <2>8 DEF f, s, x
  <2> QED
    BY <2>1, <2>9 DEF T
<1>8. \A k \in 0..n : k \in T
  <2> HIDE DEF T
  <2> QED
    BY <1>1, <1>6, <1>7, NatUpTo
<1>9. FlattenSeq(SubSeq(ss, 1, n)) = SubSeq(text, 1, n)
  BY <1>1, <1>8
<1>10. SubSeq(ss, 1, n) = ss
  BY <1>5, SeqAll
<1>11. SubSeq(text, 1, n) = text
  BY SeqAll DEF n
<1> QED
  BY <1>3, <1>9, <1>10, <1>11

\* A text that was cut decodes to a beginning of the bytes, or not at all.
LEMMA DecodedPart ==
    ASSUME NEW der \in Seq(Nat), NEW s, IsPart(s, Base64(der)), Decodes(Compact(s))
    PROVE  IsPart(Decoded(Compact(s)), der)
<1> DEFINE B == Base64(der)
<1>1. /\ B \in Seq(Symbols) /\ Len(B) \in Nat /\ Len(B) = 4 * ((Len(der) + 2) \div 3)
      /\ \A i \in 1..Len(B) : B[i] = Symbol("digit", (i - 1) % 4, GroupBytes(der, (i - 1) \div 4))
  BY TextType
<1> HIDE DEF B
<1>2. PICK k \in 0..Len(B) : s = SubSeq(B, 1, k)
  BY DEF IsPart, B
<1>3. /\ k \in Nat /\ k <= Len(B) /\ s \in Seq(Symbols) /\ Len(s) = k
      /\ \A i \in 1..k : s[i] = B[i]
  BY <1>1, <1>2
<1>4. \A i \in 1..Len(s) : s[i] # Space
  BY <1>1, <1>3 DEF Symbol, Space
<1>5. Compact(s) = s
  BY <1>3, <1>4, CompactSame
<1>6. k % 4 = 0
  BY <1>3, <1>5 DEF Decodes
<1>7. PICK m \in Nat : k = 4 * m
  <2>1. k = 4 * (k \div 4) /\ k \div 4 \in Nat
    BY <1>3, <1>6
  <2> QED
    BY <2>1
<1>8. Decoded(s) = SubSeq(der, 1, UpTo(der, m))
  BY <1>2, <1>3, <1>7, DecodedGroups DEF B
<1>9. UpTo(der, m) \in 0..Len(der)
  <2>1. Len(der) \in Nat
    BY SeqDomain
  <2> QED
    BY <2>1 DEF UpTo
<1> QED
  BY <1>5, <1>8, <1>9 DEF IsPart

\* The whole text decodes to the bytes.
LEMMA DecodedText ==
    ASSUME NEW der \in Seq(Nat)
    PROVE  Decodes(Compact(Base64(der))) /\ Decoded(Compact(Base64(der))) = der
<1> DEFINE B == Base64(der)
           n == Len(der)
           m == (n + 2) \div 3
<1>1. /\ B \in Seq(Symbols) /\ Len(B) \in Nat /\ Len(B) = 4 * m
      /\ \A i \in 1..Len(B) : B[i] = Symbol("digit", (i - 1) % 4, GroupBytes(der, (i - 1) \div 4))
  BY TextType
<1>2. n \in Nat
  BY SeqDomain
<1> HIDE DEF B, n
<1>3. m \in Nat /\ 3 * m >= n
  BY <1>2
<1> HIDE DEF m
<1>4. \A i \in 1..Len(B) : B[i] # Space /\ B[i].kind = "digit"
  BY <1>1 DEF Symbol, Space
<1>5. Compact(B) = B
  BY <1>1, <1>4, CompactSame
<1>6. Decodes(B)
  <2>1. Len(B) % 4 = 0
    BY <1>1, <1>3
  <2>2. DOMAIN B = 1..Len(B)
    BY <1>1, SeqDomain
  <2> QED
    BY <1>4, <2>1, <2>2 DEF Decodes
<1>7. SubSeq(B, 1, 4 * m) = B
  BY <1>1, SeqAll
<1>8. Decoded(B) = SubSeq(der, 1, UpTo(der, m))
  <2>1. 4 * m <= Len(B)
    BY <1>1, <1>3
  <2>2. Decoded(SubSeq(B, 1, 4 * m)) = SubSeq(der, 1, UpTo(der, m))
    BY <1>3, <2>1, DecodedGroups DEF B
  <2> QED
    BY <1>7, <2>2
<1>9. UpTo(der, m) = n
  BY <1>2, <1>3 DEF UpTo, n
<1>10. SubSeq(der, 1, n) = der
  BY SeqAll DEF n
<1> QED
  BY <1>5, <1>6, <1>8, <1>9, <1>10 DEF B

(***************************************************************************)
(* The numbers in a DER header.                                            *)
(***************************************************************************)

\* What the recursive function of FromBytes computes.
Values(f, bytes, n) ==
    /\ f \in [0..n -> Nat] /\ FromBytes(bytes) = f[n] /\ f[0] = 0
    /\ \A i \in 1..n : f[i] = IF f[i - 1] >= 256 * 256 THEN 256 * 256 * 256
                              ELSE f[i - 1] * 256 + bytes[i]

LEMMA ValueFunction ==
    ASSUME NEW bytes \in Seq(Nat)
    PROVE  \E f : Values(f, bytes, Len(bytes))
<1> DEFINE n == Len(bytes)
           Put(v, b) == IF v >= 256 * 256 THEN 256 * 256 * 256 ELSE v * 256 + b
           Body(f) == [i \in 0..n |-> IF i = 0 THEN 0
                                      ELSE IF f[i - 1] >= 256 * 256 THEN 256 * 256 * 256
                                      ELSE f[i - 1] * 256 + bytes[i]]
           F == CHOOSE f : f = Body(f)
<1>1. n \in Nat /\ \A i \in 1..n : bytes[i] \in Nat
  BY SeqDomain, SeqElt
<1>2. FromBytes(bytes) = F[n]
  BY Zenon DEF FromBytes
<1> HIDE DEF n
<1>3. PICK h : Computes(h, Nat, 0, n, [i \in 1..n |-> [v \in Nat |-> Put(v, bytes[i])]])
  <2> DEFINE St == [i \in 1..n |-> [v \in Nat |-> Put(v, bytes[i])]]
  <2>1. \A i \in 1..n, v \in Nat : Put(v, bytes[i]) \in Nat
    BY <1>1
  <2> HIDE DEF Put
  <2>2. St \in [1..n -> [Nat -> Nat]] /\ 0 \in Nat
    BY <2>1
  <2> HIDE DEF St
  <2>3. \E h : Computes(h, Nat, 0, n, St)
    BY <1>1, <2>2, NatRecursion
  <2> QED
    BY <2>3 DEF St
<1>4. h \in [0..n -> Nat] /\ h[0] = 0 /\ \A i \in 1..n : h[i] = Put(h[i - 1], bytes[i])
  <2> DEFINE St == [i \in 1..n |-> [v \in Nat |-> Put(v, bytes[i])]]
  <2> HIDE DEF Put
  <2>1. \A i \in 1..n, v \in Nat : St[i][v] = Put(v, bytes[i])
    OBVIOUS
  <2> HIDE DEF St
  <2>2. h \in [0..n -> Nat] /\ h[0] = 0 /\ \A i \in 1..n : h[i] = St[i][h[i - 1]]
    BY <1>3 DEF Computes, St
  <2>3. \A i \in 1..n : h[i - 1] \in Nat
    BY SMTT(60), <1>1, <2>2
  <2> QED
    BY <2>1, <2>2, <2>3
<1>5. h = Body(h)
  <2>1. h = [i \in 0..n |-> h[i]]
    BY <1>4
  <2>2. \A i \in 0..n : i # 0 => i \in 1..n
    BY <1>1
  <2> QED
    BY <1>4, <2>1, <2>2
<1>6. F = Body(F)
  <2> HIDE DEF Body
  <2> QED
    BY <1>5
<1> HIDE DEF F
<1>7. F[0] = 0 /\ \A i \in 1..n : F[i] = Put(F[i - 1], bytes[i])
  <2>1. 0 \in 0..n /\ \A i \in 1..n : i \in 0..n /\ i # 0
    BY <1>1
  <2> QED
    BY <1>6, <2>1
<1>8. \A i \in 0..n : F[i] \in Nat
  <2> DEFINE T == {i \in Nat : i <= n => F[i] \in Nat}
  <2>1. 0 \in T
    BY <1>7
  <2>2. ASSUME NEW i \in 0..n, i \in T, i < n PROVE i + 1 \in T
    <3>1. i + 1 \in 1..n /\ (i + 1) - 1 = i /\ F[i] \in Nat
      BY <1>1, <2>2
    <3>2. F[i + 1] = Put(F[i], bytes[i + 1]) /\ bytes[i + 1] \in Nat
      BY <1>1, <1>7, <3>1
    <3> QED
      BY SMTT(60), <3>1, <3>2
  <2>3. \A i \in 0..n : i \in T
    <3> HIDE DEF T
    <3> QED
      BY <1>1, <2>1, <2>2, NatUpTo
  <2> QED
    BY <1>1, <2>3
<1>9. F \in [0..n -> Nat]
  <2>1. F = [i \in 0..n |-> F[i]]
    BY <1>6
  <2> QED
    BY <1>8, <2>1
<1> QED
  BY SMTT(60), <1>2, <1>7, <1>9 DEF n, Values

\* It is a number; of one byte it is that byte, of two the value they spell.
LEMMA FromBytesFact ==
    ASSUME NEW bytes \in Seq(Nat)
    PROVE  /\ FromBytes(bytes) \in Nat
           /\ Len(bytes) = 1 => FromBytes(bytes) = bytes[1]
           /\ Len(bytes) = 2 /\ bytes[1] < 256 => FromBytes(bytes) = bytes[1] * 256 + bytes[2]
<1> DEFINE n == Len(bytes)
<1>1. n \in Nat /\ \A i \in 1..n : bytes[i] \in Nat
  BY SeqDomain, SeqElt
<1>2. PICK f : Values(f, bytes, n)
  BY ValueFunction
<1> HIDE DEF n
<1>3. /\ f \in [0..n -> Nat] /\ FromBytes(bytes) = f[n] /\ f[0] = 0
      /\ \A i \in 1..n : f[i] = IF f[i - 1] >= 256 * 256 THEN 256 * 256 * 256
                                ELSE f[i - 1] * 256 + bytes[i]
  BY <1>2 DEF Values
<1>4. n >= 1 => f[1] = bytes[1]
  <2> SUFFICES ASSUME n >= 1 PROVE f[1] = bytes[1]
    OBVIOUS
  <2>1. 1 \in 1..n /\ 1 - 1 = 0
    BY <1>1
  <2> QED
    BY <1>1, <1>3, <2>1
<1>5. n = 2 /\ bytes[1] < 256 => f[2] = bytes[1] * 256 + bytes[2]
  <2> SUFFICES ASSUME n = 2, bytes[1] < 256 PROVE f[2] = bytes[1] * 256 + bytes[2]
    OBVIOUS
  <2>1. 2 \in 1..n /\ 2 - 1 = 1 /\ 1 \in 1..n
    BY <1>1
  <2>2. f[1] = bytes[1] /\ bytes[1] \in Nat /\ bytes[1] < 256
    BY <1>1, <1>4, <2>1
  <2> QED
    BY <1>3, <2>1, <2>2
<1>6. FromBytes(bytes) \in Nat
  BY <1>1, <1>3
<1>7. n = 1 => FromBytes(bytes) = bytes[1]
  BY <1>3, <1>4
<1>8. n = 2 /\ bytes[1] < 256 => FromBytes(bytes) = bytes[1] * 256 + bytes[2]
  BY <1>3, <1>5
<1> QED
  BY <1>6, <1>7, <1>8 DEF n

(***************************************************************************)
(* Reading DER.                                                            *)
(***************************************************************************)

\* A length that the model's length fields can hold.
Fits(n) == n < 256 * 256

\* A length field has one to three octets here, and the first one says how many.
LEMMA LengthOctets ==
    ASSUME NEW n \in Nat, Fits(n)
    PROVE  /\ der_write_len(n) \in Seq(Nat) /\ Len(der_write_len(n)) \in 1..3
           /\ der_write_len(n)[1] # 128
           /\ Len(der_write_len(n)) = 1 => der_write_len(n)[1] = n /\ n < 128
           /\ Len(der_write_len(n)) > 1 => der_write_len(n)[1] = 127 + Len(der_write_len(n))
           /\ Len(der_write_len(n)) = 2 => der_write_len(n)[2] = n
           /\ Len(der_write_len(n)) = 3 =>
                 /\ der_write_len(n)[2] \in 0..255
                 /\ der_write_len(n)[2] * 256 + der_write_len(n)[3] = n
<1>1. n \div 256 \in 0..255 /\ n % 256 \in 0..255 /\ (n \div 256) * 256 + (n % 256) = n
  BY DEF Fits
<1>2. CASE n < 128
  <2>1. der_write_len(n) = <<n>>
    BY <1>2 DEF der_write_len
  <2>2. <<n>> \in Seq(Nat) /\ Len(<<n>>) = 1 /\ <<n>>[1] = n
    OBVIOUS
  <2> QED
    BY <1>2, <2>1, <2>2
<1>3. CASE n >= 128 /\ n <= 255
  <2>1. der_write_len(n) = <<129, n>>
    BY <1>3 DEF der_write_len
  <2>2. <<129, n>> \in Seq(Nat) /\ Len(<<129, n>>) = 2 /\ <<129, n>>[1] = 129 /\ <<129, n>>[2] = n
    OBVIOUS
  <2> QED
    BY <2>1, <2>2
<1>4. CASE n > 255
  <2> DEFINE a == n \div 256
             b == n % 256
  <2>1. der_write_len(n) = <<130, a, b>>
    BY <1>4 DEF der_write_len
  <2>2. a \in 0..255 /\ b \in 0..255 /\ a * 256 + b = n /\ a \in Nat /\ b \in Nat
    BY <1>1
  <2> HIDE DEF a, b
  <2>3. /\ <<130, a, b>> \in Seq(Nat) /\ Len(<<130, a, b>>) = 3
        /\ <<130, a, b>>[1] = 130 /\ <<130, a, b>>[2] = a /\ <<130, a, b>>[3] = b
    BY <2>2
  <2> QED
    BY <2>1, <2>2, <2>3
<1> QED
  BY <1>2, <1>3, <1>4

\* The octets of s stand in data, from position pos on.
Stands(data, pos, s) ==
    /\ pos \in Nat \ {0} /\ pos + Len(s) <= Len(data) + 1
    /\ \A j \in 1..Len(s) : data[pos + j - 1] = s[j]

\* What stands there stands there in parts.
LEMMA StandsParts ==
    ASSUME NEW data \in Seq(Nat), NEW pos, NEW s \in Seq(Nat), NEW t \in Seq(Nat),
           Stands(data, pos, s \o t)
    PROVE  Stands(data, pos, s) /\ Stands(data, pos + Len(s), t)
<1> DEFINE c == s \o t
           m == Len(s)
           n == Len(t)
<1>1. m \in Nat /\ n \in Nat /\ Len(data) \in Nat
  BY SeqDomain
<1>2. /\ Len(c) = m + n
      /\ \A i \in 1..m : c[i] = s[i]
      /\ \A i \in 1..n : c[m + i] = t[i]
  BY SeqConcat
<1>3. /\ pos \in Nat \ {0} /\ pos + Len(c) <= Len(data) + 1
      /\ \A j \in 1..Len(c) : data[pos + j - 1] = c[j]
  BY DEF Stands
<1> HIDE DEF c, m, n
<1>4. Stands(data, pos, s)
  <2>1. \A j \in 1..m : j \in 1..Len(c)
    BY <1>1, <1>2
  <2>2. \A j \in 1..m : data[pos + j - 1] = s[j]
    BY <1>2, <1>3, <2>1
  <2>3. pos + m <= Len(data) + 1
    BY <1>1, <1>2, <1>3
  <2> QED
    BY <1>3, <2>2, <2>3 DEF Stands, m
<1>5. Stands(data, pos + m, t)
  <2>1. \A j \in 1..n : m + j \in 1..Len(c) /\ (pos + m) + j - 1 = pos + (m + j) - 1
    BY <1>1, <1>2, <1>3
  <2>2. \A j \in 1..n : data[(pos + m) + j - 1] = t[j]
    <3> TAKE j \in 1..n
    <3>1. m + j \in 1..Len(c) /\ (pos + m) + j - 1 = pos + (m + j) - 1
      BY <2>1
    <3>2. data[pos + (m + j) - 1] = c[m + j]
      BY <1>3, <3>1
    <3> QED
      BY <1>2, <3>1, <3>2
  <2>3. pos + m \in Nat \ {0} /\ (pos + m) + n <= Len(data) + 1
    BY <1>1, <1>2, <1>3
  <2> QED
    BY <2>2, <2>3 DEF Stands, n
<1> QED
  BY <1>4, <1>5 DEF m

\* Every sequence stands in itself.
LEMMA StandsSelf ==
    ASSUME NEW s \in Seq(Nat)
    PROVE  Stands(s, 1, s)
<1>1. Len(s) \in Nat
  BY SeqDomain
<1>2. \A j \in 1..Len(s) : 1 + j - 1 = j
  BY <1>1
<1> QED
  BY <1>1, <1>2 DEF Stands

\* The octets of a length field after the first.
LEMMA OctetsOf ==
    ASSUME NEW data \in Seq(Nat), NEW pos \in Nat \ {0}, NEW k \in Nat, k >= 1, pos + k <= Len(data)
    PROVE  /\ SubSeq(data, pos + 2, pos + k) \in Seq(Nat)
           /\ Len(SubSeq(data, pos + 2, pos + k)) = k - 1
           /\ \A i \in 1..(k - 1) : SubSeq(data, pos + 2, pos + k)[i] = data[pos + 1 + i]
<1> DEFINE a == pos + 2
           b == pos + k
<1>1. Len(data) \in Nat
  BY SeqDomain
<1>2. a \in Nat /\ a >= 1 /\ b \in Nat /\ b <= Len(data) /\ a <= b + 1
  BY <1>1
<1>3. b + 1 - a = k - 1 /\ \A i \in 1..(k - 1) : a + i - 1 = pos + 1 + i
  OBVIOUS
<1> HIDE DEF a, b
<1>4. /\ SubSeq(data, a, b) \in Seq(Nat) /\ Len(SubSeq(data, a, b)) = b + 1 - a
      /\ \A i \in 1..(b + 1 - a) : SubSeq(data, a, b)[i] = data[a + i - 1]
  BY <1>2, SeqSegment
<1>5. \A i \in 1..(k - 1) : SubSeq(data, a, b)[i] = data[pos + 1 + i]
  BY <1>3, <1>4
<1> QED
  BY <1>3, <1>4, <1>5 DEF a, b

\* A length field, as far as it is there, and how the RA's parser reads it.
LEMMA HeaderRead ==
    ASSUME NEW data \in Seq(Nat), NEW pos \in Nat \ {0}, NEW n \in Nat, Fits(n),
           pos + 1 <= Len(data),
           \A i \in 1..Len(der_write_len(n)) :
              pos + i <= Len(data) => data[pos + i] = der_write_len(n)[i]
    PROVE  /\ data[pos + 1] # 128 /\ LenLen(data, pos) = Len(der_write_len(n)) - 1
           /\ LenLen(data, pos) <= 4
           /\ ContentStart(data, pos) = pos + 1 + Len(der_write_len(n))
           /\ pos + Len(der_write_len(n)) <= Len(data) => ContentLength(data, pos) = n
<1> DEFINE l == der_write_len(n)
           k == Len(l)
<1>1. /\ l \in Seq(Nat) /\ k \in 1..3 /\ l[1] # 128
      /\ k = 1 => l[1] = n /\ n < 128
      /\ k > 1 => l[1] = 127 + k
      /\ k = 2 => l[2] = n
      /\ k = 3 => l[2] \in 0..255 /\ l[2] * 256 + l[3] = n
  BY LengthOctets
<1>2. \A i \in 1..k : pos + i <= Len(data) => data[pos + i] = l[i]
  OBVIOUS
<1> HIDE DEF l
<1>3. Len(data) \in Nat
  BY SeqDomain
<1> HIDE DEF k
<1>4. data[pos + 1] = l[1]
  <2>1. 1 \in 1..k
    BY <1>1
  <2> QED
    BY <1>2, <2>1
<1>5. LenLen(data, pos) = k - 1
  BY <1>1, <1>4 DEF LenLen
<1>6. ContentStart(data, pos) = pos + 1 + k
  BY <1>1, <1>5 DEF ContentStart
<1>7. ASSUME pos + k <= Len(data) PROVE ContentLength(data, pos) = n
  <2>1. CASE k = 1
    BY <1>1, <1>4, <2>1 DEF ContentLength
  <2>2. CASE k > 1
    <3> DEFINE s == SubSeq(data, pos + 2, pos + k)
    <3>1. ContentLength(data, pos) = FromBytes(s)
      <4>1. ContentStart(data, pos) - 1 = pos + k
        BY <1>1, <1>6
      <4>2. ~(data[pos + 1] < 128)
        BY <1>1, <1>4, <2>2
      <4> QED
        BY <4>1, <4>2 DEF ContentLength
    <3>2. s \in Seq(Nat) /\ Len(s) = k - 1 /\ \A i \in 1..(k - 1) : s[i] = data[pos + 1 + i]
      <4>1. k \in Nat /\ k >= 1 /\ pos + k <= Len(data)
        BY <1>1, <1>7
      <4> QED
        BY <4>1, OctetsOf
    <3> HIDE DEF s
    <3>3. CASE k = 2
      <4>1. 2 \in 1..k /\ 1 \in 1..(k - 1) /\ pos + 2 <= Len(data) /\ pos + 1 + 1 = pos + 2
        BY <1>7, <3>3
      <4>2. s[1] = n /\ Len(s) = 1
        BY <1>1, <1>2, <3>2, <3>3, <4>1
      <4> QED
        BY <3>1, <3>2, <4>2, FromBytesFact
    <3>4. CASE k = 3
      <4>1. /\ 2 \in 1..k /\ 3 \in 1..k /\ 1 \in 1..(k - 1) /\ 2 \in 1..(k - 1)
            /\ pos + 2 <= Len(data) /\ pos + 3 <= Len(data)
            /\ pos + 1 + 1 = pos + 2 /\ pos + 1 + 2 = pos + 3
        BY <1>3, <1>7, <3>4
      <4>2. s[1] = l[2] /\ s[2] = l[3] /\ Len(s) = 2
        <5>1. s[1] = data[pos + 2] /\ s[2] = data[pos + 3]
          BY <3>2, <4>1
        <5>2. data[pos + 2] = l[2] /\ data[pos + 3] = l[3]
          BY <1>2, <4>1
        <5>3. Len(s) = 2
          BY <3>2, <3>4
        <5> QED
          BY <5>1, <5>2, <5>3
      <4>3. l[2] < 256 /\ l[2] * 256 + l[3] = n
        <5>1. l[2] \in 0..255 /\ l[2] * 256 + l[3] = n
          BY <1>1, <3>4, Zenon
        <5>2. \A x \in 0..255 : x < 256
          OBVIOUS
        <5> QED
          BY <5>1, <5>2, Zenon
      <4>4. FromBytes(s) = s[1] * 256 + s[2]
        BY <3>2, <4>2, <4>3, FromBytesFact
      <4> QED
        BY <3>1, <4>2, <4>3, <4>4
    <3> QED
      BY <1>1, <2>2, <3>3, <3>4
  <2> QED
    BY <1>1, <2>1, <2>2
<1>8. l[1] # 128 /\ k - 1 <= 4
  BY <1>1
<1> QED
  BY <1>4, <1>5, <1>6, <1>7, <1>8 DEF k, l

\* An object is its tag, its length field and its content, one after the other.
LEMMA WrapFact ==
    ASSUME NEW tag \in Nat, NEW content \in Seq(Nat), Fits(Len(content))
    PROVE  /\ der_wrap(tag, content) \in Seq(Nat)
           /\ Len(der_wrap(tag, content)) = 1 + Len(der_write_len(Len(content))) + Len(content)
           /\ der_wrap(tag, content)[1] = tag
           /\ \A i \in 1..Len(der_write_len(Len(content))) :
                 der_wrap(tag, content)[1 + i] = der_write_len(Len(content))[i]
           /\ \A i \in 1..Len(content) :
                 der_wrap(tag, content)[1 + Len(der_write_len(Len(content))) + i] = content[i]
<1> DEFINE n == Len(content)
           l == der_write_len(n)
           k == Len(l)
           t == <<tag>>
           u == t \o l
           w == u \o content
<1>1. n \in Nat
  BY SeqDomain
<1>2. l \in Seq(Nat) /\ k \in 1..3
  <2>1. Fits(n)
    OBVIOUS
  <2> HIDE DEF n
  <2> QED
    BY <1>1, <2>1, LengthOctets
<1>3. t \in Seq(Nat) /\ Len(t) = 1 /\ t[1] = tag
  OBVIOUS
<1>4. w = der_wrap(tag, content)
  BY DEF der_wrap
<1> HIDE DEF l, t
<1>5. u \in Seq(Nat) /\ Len(u) = 1 + k /\ u[1] = tag /\ \A i \in 1..k : u[1 + i] = l[i]
  BY <1>2, <1>3, SeqOneBefore
<1> HIDE DEF u, n
<1>6. /\ w \in Seq(Nat) /\ Len(w) = Len(u) + n
      /\ \A i \in 1..Len(u) : w[i] = u[i]
      /\ \A i \in 1..n : w[Len(u) + i] = content[i]
  <2>1. u \in Seq(Nat) /\ content \in Seq(Nat)
    BY <1>5
  <2>2. /\ u \o content \in Seq(Nat) /\ Len(u \o content) = Len(u) + Len(content)
        /\ \A i \in 1..Len(u) : (u \o content)[i] = u[i]
        /\ \A i \in 1..Len(content) : (u \o content)[Len(u) + i] = content[i]
    BY <2>1, SeqConcat
  <2> QED
    BY <2>2, Zenon DEF n
<1> HIDE DEF w, k
<1>7. Len(w) = 1 + k + n
  BY <1>5, <1>6
<1>8. w[1] = tag
  <2>1. 1 \in 1..Len(u)
    BY <1>2, <1>5
  <2> QED
    BY <1>5, <1>6, <2>1
<1>9. \A i \in 1..k : w[1 + i] = l[i]
  <2>1. \A i \in 1..k : 1 + i \in 1..Len(u)
    BY <1>2, <1>5
  <2> QED
    BY <1>5, <1>6, <2>1
<1>10. \A i \in 1..n : w[1 + k + i] = content[i]
  BY <1>5, <1>6
<1> QED
  BY <1>4, <1>6, <1>7, <1>8, <1>9, <1>10 DEF n, l, k

\* An object that stands in data is read there, and its content stands where the
\* RA's parser looks for it.
LEMMA ObjectRead ==
    ASSUME NEW data \in Seq(Nat), NEW pos \in Nat \ {0}, NEW tag \in Nat, NEW content \in Seq(Nat),
           Fits(Len(content)), Stands(data, pos, der_wrap(tag, content))
    PROVE  /\ data[pos] = tag /\ pos \in 1..Len(data)
           /\ ParsesAt(data, pos)
           /\ EndOf(data, pos) = pos + Len(der_wrap(tag, content))
           /\ SubSeq(data, pos, EndOf(data, pos) - 1) = der_wrap(tag, content)
           /\ ContentStart(data, pos) + Len(content) = EndOf(data, pos)
           /\ Stands(data, ContentStart(data, pos), content)
<1> DEFINE n == Len(content)
           l == der_write_len(n)
           k == Len(l)
           w == der_wrap(tag, content)
<1>1. n \in Nat /\ Len(data) \in Nat /\ Fits(n)
  BY SeqDomain
<1>2. /\ w \in Seq(Nat) /\ Len(w) = 1 + k + n /\ w[1] = tag
      /\ \A i \in 1..k : w[1 + i] = l[i]
      /\ \A i \in 1..n : w[1 + k + i] = content[i]
  BY WrapFact
<1>3. pos + Len(w) <= Len(data) + 1 /\ \A j \in 1..Len(w) : data[pos + j - 1] = w[j]
  BY DEF Stands
<1> HIDE DEF n
<1>4. k \in 1..3
  BY <1>1, LengthOctets
<1> HIDE DEF l
<1> HIDE DEF w, k
<1>5. data[pos] = tag /\ pos \in 1..Len(data)
  <2>1. 1 \in 1..Len(w) /\ pos + 1 - 1 = pos
    BY <1>1, <1>2, <1>4
  <2>2. data[pos] = tag
    BY <1>2, <1>3, <2>1
  <2> QED
    BY <1>1, <1>2, <1>3, <1>4, <2>2
<1>6. \A i \in 1..k : data[pos + i] = l[i]
  <2> TAKE i \in 1..k
  <2>1. 1 + i \in 1..Len(w) /\ pos + (1 + i) - 1 = pos + i
    BY <1>1, <1>2, <1>4
  <2> QED
    BY <1>2, <1>3, <2>1
<1>7. pos + k <= Len(data) /\ pos + 1 <= Len(data)
  <2>1. Len(w) = 1 + k + n /\ pos + Len(w) <= Len(data) + 1
    BY <1>2, <1>3
  <2> QED
    BY <1>1, <1>4, <2>1
<1>8. /\ data[pos + 1] # 128 /\ LenLen(data, pos) <= 4
      /\ ContentStart(data, pos) = pos + 1 + k /\ ContentLength(data, pos) = n
  BY <1>1, <1>6, <1>7, HeaderRead DEF l, k
<1>9. ParsesAt(data, pos) /\ EndOf(data, pos) = pos + Len(w)
  BY <1>1, <1>2, <1>3, <1>4, <1>7, <1>8 DEF ParsesAt, EndOf
<1>10. SubSeq(data, pos, pos + Len(w) - 1) = w
  <2> DEFINE b == pos + Len(w) - 1
             s == SubSeq(data, pos, b)
  <2>1. b \in Nat /\ pos >= 1 /\ b <= Len(data) /\ pos <= b + 1 /\ b + 1 - pos = Len(w)
    BY <1>1, <1>2, <1>3, <1>4
  <2> HIDE DEF b
  <2>2. s \in Seq(Nat) /\ Len(s) = b + 1 - pos /\ \A i \in 1..(b + 1 - pos) : s[i] = data[pos + i - 1]
    BY <2>1, SeqSegment
  <2> HIDE DEF s
  <2>3. Len(s) = Len(w) /\ \A i \in 1..Len(s) : s[i] = w[i]
    BY <1>3, <2>1, <2>2
  <2>4. s = w
    BY <1>2, <2>2, <2>3, SeqSame
  <2> QED
    BY <2>4 DEF s, b
<1>11. Stands(data, pos + 1 + k, content)
  <2>1. pos + 1 + k \in Nat \ {0} /\ (pos + 1 + k) + n <= Len(data) + 1
    BY <1>1, <1>2, <1>3, <1>4
  <2>2. \A j \in 1..n : data[(pos + 1 + k) + j - 1] = content[j]
    <3> TAKE j \in 1..n
    <3>1. 1 + k + j \in 1..Len(w) /\ (pos + 1 + k) + j - 1 = pos + (1 + k + j) - 1
      BY <1>1, <1>2, <1>4
    <3> QED
      BY <1>2, <1>3, <3>1
  <2> QED
    BY <2>1, <2>2 DEF Stands, n
<1>12. SubSeq(data, pos, EndOf(data, pos) - 1) = w
  BY <1>9, <1>10
<1>13. Stands(data, ContentStart(data, pos), content) /\ ContentStart(data, pos) + n = EndOf(data, pos)
  <2>1. ContentStart(data, pos) + n = EndOf(data, pos)
    BY <1>1, <1>2, <1>4, <1>8, <1>9
  <2> QED
    BY <1>8, <1>11, <2>1
<1> QED
  BY <1>5, <1>9, <1>12, <1>13 DEF w, n

\* A request that was cut is none: its length field asks for more than there is.
LEMMA CutObject ==
    ASSUME NEW tag \in Nat, NEW content \in Seq(Nat), Fits(Len(content)),
           NEW m \in Nat, m < Len(der_wrap(tag, content))
    PROVE  ~IsCsr(SubSeq(der_wrap(tag, content), 1, m))
<1> DEFINE n == Len(content)
           l == der_write_len(n)
           k == Len(l)
           w == der_wrap(tag, content)
           d == SubSeq(w, 1, m)
<1>1. n \in Nat /\ Fits(n)
  BY SeqDomain
<1>2. /\ w \in Seq(Nat) /\ Len(w) = 1 + k + n
      /\ \A i \in 1..k : w[1 + i] = l[i]
  BY WrapFact
<1> HIDE DEF n
<1>3. k \in 1..3
  BY <1>1, LengthOctets
<1> HIDE DEF l
<1>4. m < Len(w)
  OBVIOUS
<1> HIDE DEF w, k
<1>5. d \in Seq(Nat) /\ Len(d) = m /\ \A i \in 1..m : d[i] = w[i]
  <2>1. Len(w) \in Nat
    BY <1>2, SeqDomain
  <2>2. w \in Seq(Nat) /\ 1 \in Nat /\ 1 >= 1 /\ m <= Len(w) /\ 1 <= m + 1 /\ m + 1 - 1 = m
    BY <1>2, <1>4, <2>1
  <2>3. \A i \in 1..m : 1 + i - 1 = i
    OBVIOUS
  <2>4. /\ SubSeq(w, 1, m) \in Seq(Nat) /\ Len(SubSeq(w, 1, m)) = m + 1 - 1
        /\ \A i \in 1..(m + 1 - 1) : SubSeq(w, 1, m)[i] = w[1 + i - 1]
    BY <2>2, SeqSegment
  <2> QED
    BY <2>2, <2>3, <2>4
<1> HIDE DEF d
<1>6. ~ParsesAt(d, 1)
  <2> SUFFICES ASSUME 2 <= Len(d), ContentStart(d, 1) <= Len(d) + 1,
                      ContentStart(d, 1) + ContentLength(d, 1) <= Len(d) + 1
               PROVE  FALSE
    BY DEF ParsesAt
  <2>1. \A i \in 1..k : 1 + i <= Len(d) => d[1 + i] = l[i]
    <3> TAKE i \in 1..k
    <3> HAVE 1 + i <= Len(d)
    <3>1. 1 + i \in 1..m
      BY <1>3, <1>5
    <3> QED
      BY <1>2, <1>5, <3>1
  <2>2. /\ ContentStart(d, 1) = 1 + 1 + k
        /\ 1 + k <= Len(d) => ContentLength(d, 1) = n
    <3>1. 1 + 1 <= Len(d) /\ 1 \in Nat \ {0}
      OBVIOUS
    <3> QED
      BY ZenonT(60), <1>1, <1>5, <2>1, <3>1, HeaderRead DEF l, k
  <2>3. 1 + k <= Len(d)
    BY <1>3, <1>5, <2>2
  <2>4. 1 + 1 + k + n <= m + 1
    BY <1>5, <2>2, <2>3
  <2> QED
    BY <1>1, <1>2, <1>3, <1>4, <2>4
<1>7. der_children(d, 48) = <<>>
  BY <1>6 DEF der_children
<1>8. Len(der_children(d, 48)) # 3
  <2>1. \A x : x = <<>> => Len(x) # 3
    OBVIOUS
  <2> QED
    BY <1>7, <2>1, Zenon
<1> QED
  BY <1>8 DEF IsCsr, d, w

\* Behind an object that parses there is less left than in front of it.
LEMMA EndOfFact ==
    ASSUME NEW data \in Seq(Nat), NEW pos \in 1..Len(data), ParsesAt(data, pos)
    PROVE  EndOf(data, pos) \in (pos + 1)..(Len(data) + 1)
<1> DEFINE L == Len(data)
           k == 1 + LenLen(data, pos)
           c == ContentStart(data, pos)
<1>1. L \in Nat /\ pos \in Nat \ {0} /\ pos + 1 <= L
  BY SeqDomain DEF ParsesAt
<1>2. data[pos + 1] \in Nat
  <2>1. pos + 1 \in 1..Len(data)
    BY <1>1
  <2> QED
    BY <2>1, SeqElt
<1>3. k \in Nat /\ k >= 1 /\ c = pos + 1 + k
  <2>1. LenLen(data, pos) \in Nat
    BY <1>2 DEF LenLen
  <2>2. c = pos + 2 + LenLen(data, pos)
    BY Zenon DEF ContentStart
  <2>3. \A x \in Nat : 1 + x \in Nat /\ 1 + x >= 1 /\ pos + 2 + x = pos + 1 + (1 + x)
    BY <1>1
  <2> QED
    BY <2>1, <2>2, <2>3, Zenon
<1>4. c <= L + 1 /\ c + ContentLength(data, pos) <= L + 1
  BY DEF ParsesAt
<1>5. ContentLength(data, pos) \in Nat
  <2>1. CASE data[pos + 1] < 128
    BY <1>2, <2>1 DEF ContentLength
  <2>2. CASE ~(data[pos + 1] < 128)
    <3>1. pos + k <= Len(data) /\ c - 1 = pos + k
      BY <1>1, <1>3, <1>4
    <3>2. ContentLength(data, pos) = FromBytes(SubSeq(data, pos + 2, pos + k))
      BY <2>2, <3>1 DEF ContentLength
    <3>3. SubSeq(data, pos + 2, pos + k) \in Seq(Nat)
      BY <1>1, <1>3, <3>1, OctetsOf
    <3> QED
      BY <3>2, <3>3, FromBytesFact
  <2> QED
    BY <2>1, <2>2
<1> HIDE DEF L, c, k
<1>6. c + ContentLength(data, pos) \in (pos + 1)..(L + 1)
  BY <1>1, <1>3, <1>4, <1>5
<1> QED
  BY <1>6 DEF EndOf, L, c

\* What the recursive function of Objects computes.
Unfolds(f, data) ==
    /\ f \in [1..(Len(data) + 1) -> Seq(Seq(Nat))]
    /\ f[Len(data) + 1] = <<>>
    /\ \A pos \in 1..Len(data) :
          f[pos] = IF ~ParsesAt(data, pos) THEN <<<<>>>>
                   ELSE <<SubSeq(data, pos, EndOf(data, pos) - 1)>> \o f[EndOf(data, pos)]

LEMMA ObjectsUnfold ==
    ASSUME NEW data \in Seq(Nat)
    PROVE  Unfolds(Objects(data), data)
<1> DEFINE L == Len(data)
           O == Seq(Seq(Nat))
           Ends(p) == EndOf(data, p)
           Object(p) == SubSeq(data, p, EndOf(data, p) - 1)
           Value(f, p) == IF p = L + 1 THEN <<>>
                          ELSE IF ~ParsesAt(data, p) THEN <<<<>>>>
                          ELSE <<Object(p)>> \o f[Ends(p)]
           Body(f) == [p \in 1..(L + 1) |-> Value(f, p)]
           Good(k, f) == \A p \in 1..(L + 1) : p + k >= L + 1 => f[p] = Value(f, p)
           T == {k \in 0..L : \E f \in [1..(L + 1) -> O] : Good(k, f)}
<1>1. L \in Nat
  BY SeqDomain
<1>2. Objects(data) = CHOOSE f : f = Body(f)
  BY Zenon DEF Objects
<1>3. \A p \in 1..L : ParsesAt(data, p) => Ends(p) \in (p + 1)..(L + 1)
  BY EndOfFact
<1>4. \A p \in 1..L : ParsesAt(data, p) => Object(p) \in Seq(Nat)
  <2> TAKE p \in 1..L
  <2> HAVE ParsesAt(data, p)
  <2> DEFINE e == Ends(p)
             b == e - 1
  <2>1. e \in (p + 1)..(L + 1)
    BY <1>3
  <2> HIDE DEF e
  <2>2. p \in Nat /\ b \in Nat /\ p >= 1 /\ b <= Len(data) /\ p <= b + 1
    BY <1>1, <2>1
  <2> HIDE DEF b
  <2>3. SubSeq(data, p, b) \in Seq(Nat)
    BY <2>2, SeqSegment
  <2> QED
    BY <2>3 DEF b, e
<1> HIDE DEF L, Ends, Object
<1>5. \A f \in [1..(L + 1) -> O] : \A p \in 1..(L + 1) : Value(f, p) \in O
  <2> TAKE f \in [1..(L + 1) -> O]
  <2> TAKE p \in 1..(L + 1)
  <2>1. <<>> \in O /\ <<<<>>>> \in O
    OBVIOUS
  <2>2. CASE p # L + 1 /\ ParsesAt(data, p)
    <3>1. p \in 1..L
      BY <1>1, <2>2
    <3>2. Ends(p) \in 1..(L + 1) /\ Object(p) \in Seq(Nat)
      BY <1>1, <1>3, <1>4, <2>2, <3>1
    <3>3. f[Ends(p)] \in O
      BY <3>2
    <3>4. <<Object(p)>> \in O
      BY <3>2, SeqSmall
    <3>5. <<Object(p)>> \o f[Ends(p)] \in O
      BY <3>3, <3>4, SeqConcat
    <3> QED
      BY <2>2, <3>5
  <2> QED
    BY <2>1, <2>2
<1>6. 0 \in T
  <2> DEFINE f == [p \in 1..(L + 1) |-> <<>>]
  <2>1. f \in [1..(L + 1) -> O]
    OBVIOUS
  <2>2. Good(0, f)
    <3> SUFFICES ASSUME NEW p \in 1..(L + 1), p + 0 >= L + 1 PROVE f[p] = Value(f, p)
      OBVIOUS
    <3>1. p = L + 1
      BY <1>1
    <3> QED
      BY <3>1
  <2> HIDE DEF f, Good, O
  <2>3. \E g \in [1..(L + 1) -> O] : Good(0, g)
    BY <2>1, <2>2
  <2> QED
    BY <1>1, <2>3
<1>7. ASSUME NEW k \in 0..L, k \in T, k < L PROVE k + 1 \in T
  <2>1. PICK f \in [1..(L + 1) -> O] : Good(k, f)
    BY <1>7
  <2> DEFINE q == L - k
             v == Value(f, q)
             g == [p \in 1..(L + 1) |-> IF p = q THEN v ELSE f[p]]
  <2>2. q \in 1..L /\ q \in 1..(L + 1)
    BY <1>1, <1>7
  <2>3. v \in O
    <3> HIDE DEF O, q, Value
    <3> QED
      BY <1>5, <2>1, <2>2
  <2> HIDE DEF v
  <2>4. g \in [1..(L + 1) -> O]
    <3> HIDE DEF O, q
    <3> QED
      BY <2>1, <2>3
  <2>5. g[q] = v /\ \A p \in 1..(L + 1) : p # q => g[p] = f[p]
    <3> HIDE DEF q
    <3> QED
      BY <2>2
  <2> HIDE DEF g
  <2>6. \A p \in 1..(L + 1) : p >= q => Value(g, p) = Value(f, p)
    <3> TAKE p \in 1..(L + 1)
    <3> HAVE p >= q
    <3>1. CASE p # L + 1 /\ ParsesAt(data, p)
      <4>1. p \in 1..L
        BY <1>1, <3>1
      <4>2. Ends(p) \in (p + 1)..(L + 1)
        BY <1>3, <3>1, <4>1
      <4>3. Ends(p) \in 1..(L + 1) /\ Ends(p) # q
        BY <1>1, <2>2, <4>1, <4>2
      <4>4. g[Ends(p)] = f[Ends(p)]
        BY <2>5, <4>3
      <4> QED
        BY <4>4
    <3>2. CASE ~(p # L + 1 /\ ParsesAt(data, p))
      BY <3>2
    <3> QED
      BY <3>1, <3>2
  <2>7. Good(k + 1, g)
    <3> SUFFICES ASSUME NEW p \in 1..(L + 1), p + (k + 1) >= L + 1 PROVE g[p] = Value(g, p)
      OBVIOUS
    <3>1. p >= q /\ (p # q => p + k >= L + 1)
      BY <1>1, <1>7
    <3>2. Value(g, p) = Value(f, p)
      <4> HIDE DEF Value, q
      <4> QED
        BY <2>6, <3>1
    <3>3. CASE p = q
      <4> HIDE DEF Value, q
      <4> QED
        BY <2>5, <3>2, <3>3 DEF v
    <3>4. CASE p # q
      <4>1. f[p] = Value(f, p)
        <5> HIDE DEF Value, q
        <5> QED
          BY <2>1, <3>1, <3>4
      <4> HIDE DEF Value, q
      <4> QED
        BY <2>5, <3>2, <3>4, <4>1
    <3> QED
      BY <3>3, <3>4
  <2>8. k + 1 \in 0..L
    BY <1>1, <1>7
  <2> HIDE DEF Good, O
  <2> QED
    BY <2>4, <2>7, <2>8
<1>8. L \in T
  <2> HIDE DEF T
  <2>1. \A k \in 0..L : k \in T
    BY <1>1, <1>6, <1>7, NatUpTo
  <2> QED
    BY <1>1, <2>1
<1>9. PICK h \in [1..(L + 1) -> O] : Good(L, h)
  <2> HIDE DEF O, Good
  <2> QED
    BY <1>8
<1>10. h = Body(h)
  <2>1. \A p \in 1..(L + 1) : h[p] = Value(h, p)
    <3> TAKE p \in 1..(L + 1)
    <3>1. p + L >= L + 1
      BY <1>1
    <3> HIDE DEF Value
    <3> QED
      BY <1>9, <3>1
  <2> HIDE DEF Value, O
  <2> QED
    BY <1>9, <2>1
<1> DEFINE F == Objects(data)
<1>11. F = Body(F)
  <2>1. \E f : f = Body(f)
    <3> HIDE DEF Body
    <3> QED
      BY <1>10
  <2> HIDE DEF Body
  <2> QED
    BY <1>2, <2>1
<1> HIDE DEF F
<1>12. \A p \in 1..(L + 1) : F[p] = Value(F, p)
  <2> HIDE DEF Value
  <2> QED
    BY <1>11
<1>13. \A k \in 0..L : \A p \in 1..(L + 1) : p + k >= L + 1 => F[p] \in O
  <2> DEFINE Typed(k) == \A p \in 1..(L + 1) : p + k >= L + 1 => F[p] \in O
             U == {k \in 0..L : Typed(k)}
  <2>1. 0 \in U
    <3>1. ASSUME NEW p \in 1..(L + 1), p + 0 >= L + 1 PROVE F[p] \in O
      <4>1. p = L + 1
        BY <1>1, <3>1
      <4>2. F[p] = <<>>
        BY <1>12, <4>1
      <4> QED
        BY <4>2
    <3> QED
      BY <1>1, <3>1
  <2>2. ASSUME NEW k \in 0..L, k \in U, k < L PROVE k + 1 \in U
    <3>1. ASSUME NEW p \in 1..(L + 1), p + (k + 1) >= L + 1 PROVE F[p] \in O
      <4>1. F[p] = Value(F, p)
        <5> HIDE DEF Value
        <5> QED
          BY <1>12
      <4>2. <<>> \in O /\ <<<<>>>> \in O
        OBVIOUS
      <4>3. CASE p # L + 1 /\ ParsesAt(data, p)
        <5>1. p \in 1..L
          BY <1>1, <4>3
        <5>2. Ends(p) \in (p + 1)..(L + 1) /\ Object(p) \in Seq(Nat)
          BY <1>3, <1>4, <4>3, <5>1
        <5>3. Ends(p) \in 1..(L + 1) /\ Ends(p) + k >= L + 1
          BY <1>1, <2>2, <3>1, <5>1, <5>2
        <5>4. F[Ends(p)] \in O
          <6> HIDE DEF O
          <6> QED
            BY <2>2, <5>3
        <5>5. <<Object(p)>> \in O
          BY <5>2, SeqSmall
        <5>6. <<Object(p)>> \o F[Ends(p)] \in O
          BY <5>4, <5>5, SeqConcat
        <5> QED
          BY <4>1, <4>3, <5>6
      <4> QED
        BY <4>1, <4>2, <4>3
    <3>2. k + 1 \in 0..L
      BY <1>1, <2>2
    <3> HIDE DEF O
    <3>3. Typed(k + 1)
      BY <3>1
    <3> HIDE DEF Typed
    <3> QED
      BY <3>2, <3>3
  <2>3. \A k \in 0..L : k \in U
    <3> HIDE DEF U
    <3> QED
      BY <1>1, <2>1, <2>2, NatUpTo
  <2> HIDE DEF O
  <2> QED
    BY <2>3
<1>14. F \in [1..(L + 1) -> O]
  <2>1. \A p \in 1..(L + 1) : F[p] \in O
    <3> TAKE p \in 1..(L + 1)
    <3>1. L \in 0..L /\ p + L >= L + 1
      BY <1>1
    <3> HIDE DEF O
    <3> QED
      BY <1>13, <3>1
  <2>2. F = [p \in 1..(L + 1) |-> F[p]]
    <3> HIDE DEF Value
    <3> QED
      BY <1>11
  <2> HIDE DEF O
  <2> QED
    BY <2>1, <2>2
<1>15. F[L + 1] = <<>>
  <2>1. L + 1 \in 1..(L + 1)
    BY <1>1
  <2> QED
    BY <1>12, <2>1
<1>16. \A p \in 1..L : F[p] = IF ~ParsesAt(data, p) THEN <<<<>>>> ELSE <<Object(p)>> \o F[Ends(p)]
  <2>1. \A p \in 1..L : p \in 1..(L + 1) /\ p # L + 1
    BY <1>1
  <2> QED
    BY <1>12, <2>1
<1> QED
  BY <1>14, <1>15, <1>16, Zenon DEF Unfolds, F, L, Object, Ends

\* One object of a sequence of objects after the other: the one that stands at
\* pos, then the others.
Lists(data, pos, objects) ==
    /\ pos \in 1..(Len(data) + 1) /\ objects \in Seq(Seq(Nat) \ {<<>>})
    /\ Objects(data)[pos] = objects

LEMMA ObjectStep ==
    ASSUME NEW data \in Seq(Nat), NEW pos \in Nat \ {0}, NEW tag \in Nat, NEW content \in Seq(Nat),
           Fits(Len(content)), Stands(data, pos, der_wrap(tag, content)), NEW others,
           Lists(data, pos + Len(der_wrap(tag, content)), others)
    PROVE  Lists(data, pos, <<der_wrap(tag, content)>> \o others)
<1> DEFINE w == der_wrap(tag, content)
           f == Objects(data)
           S == Seq(Nat) \ {<<>>}
           e == EndOf(data, pos)
<1>1. /\ pos \in 1..Len(data) /\ ParsesAt(data, pos) /\ e = pos + Len(w)
      /\ SubSeq(data, pos, e - 1) = w
  BY ObjectRead
<1>2. w \in S
  <2>1. w \in Seq(Nat) /\ Len(w) = 1 + Len(der_write_len(Len(content))) + Len(content)
    BY WrapFact
  <2>2. Len(content) \in Nat /\ Len(der_write_len(Len(content))) \in 1..3
    BY SeqDomain, LengthOctets
  <2>3. Len(w) # 0
    BY <2>1, <2>2
  <2> HIDE DEF w
  <2>4. w # <<>>
    BY <2>1, <2>3, SeqEmpty
  <2> QED
    BY <2>1, <2>4
<1>3. others \in Seq(S) /\ f[e] = others
  BY <1>1 DEF Lists
<1>4. Unfolds(f, data)
  BY ObjectsUnfold
<1>5. f[pos] = <<SubSeq(data, pos, e - 1)>> \o f[e]
  <2> HIDE DEF f
  <2> QED
    BY <1>1, <1>4 DEF Unfolds
<1> HIDE DEF w, f, S, e
<1>6. f[pos] = <<w>> \o others
  BY <1>1, <1>3, <1>5
<1>7. <<w>> \in Seq(S)
  BY <1>2, SeqSmall
<1>8. <<w>> \o others \in Seq(S)
  BY <1>3, <1>7, SeqConcat
<1>9. pos \in 1..(Len(data) + 1)
  BY <1>1, SeqDomain
<1> QED
  BY <1>6, <1>8, <1>9 DEF Lists, w, f, S

\* At the end there is none.
LEMMA ObjectsEnd ==
    ASSUME NEW data \in Seq(Nat)
    PROVE  Lists(data, Len(data) + 1, <<>>)
<1> DEFINE f == Objects(data)
<1>1. Unfolds(f, data)
  BY ObjectsUnfold
<1> HIDE DEF f
<1>2. f[Len(data) + 1] = <<>>
  BY <1>1 DEF Unfolds
<1>3. <<>> \in Seq(Seq(Nat) \ {<<>>})
  BY SeqNone
<1>4. Len(data) + 1 \in 1..(Len(data) + 1)
  BY SeqDomain
<1> QED
  BY <1>2, <1>3, <1>4 DEF Lists, f

\* The children of a SEQUENCE are the objects in its content.
LEMMA ChildrenRead ==
    ASSUME NEW content \in Seq(Nat), Fits(Len(content)), NEW objects,
           Lists(der_wrap(48, content), 2 + Len(der_write_len(Len(content))), objects)
    PROVE  der_children(der_wrap(48, content), 48) = objects
<1> DEFINE w == der_wrap(48, content)
           c == ContentStart(w, 1)
           n == Len(content)
           k == Len(der_write_len(n))
<1>1. w \in Seq(Nat) /\ Len(w) = 1 + k + n
  BY WrapFact
<1>2. n \in Nat /\ k \in 1..3
  BY SeqDomain, LengthOctets
<1>3. Stands(w, 1, w)
  <2> HIDE DEF w
  <2> QED
    BY <1>1, StandsSelf
<1>4. /\ w[1] = 48 /\ ParsesAt(w, 1) /\ EndOf(w, 1) = 1 + Len(w)
      /\ c + Len(content) = EndOf(w, 1)
  BY <1>1, <1>3, ObjectRead
<1>5. Lists(w, 2 + k, objects)
  OBVIOUS
<1>6. c = 2 + k
  <2>1. c \in Nat
    <3>1. Stands(w, c, content)
      BY <1>1, <1>3, ObjectRead
    <3> QED
      BY <3>1 DEF Stands
  <2>2. c + n = 1 + (1 + k + n)
    BY <1>1, <1>4
  <2> HIDE DEF c, k, n
  <2> QED
    BY <1>2, <2>1, <2>2
<1>7. w # <<>> /\ EndOf(w, 1) = Len(w) + 1
  <2> HIDE DEF w
  <2>1. Len(w) \in Nat /\ Len(w) # 0
    BY <1>1, <1>2
  <2>2. w # <<>>
    BY <1>1, <2>1, SeqEmpty
  <2> QED
    BY <1>4, <2>1, <2>2
<1> HIDE DEF w, c, k, n
<1>8. Objects(w)[c] = objects /\ objects \in Seq(Seq(Nat) \ {<<>>})
  BY <1>5, <1>6 DEF Lists
<1>9. <<>> \notin ToSet(objects)
  <2>1. \A i \in 1..Len(objects) : objects[i] # <<>>
    BY <1>8, SeqElt
  <2>2. DOMAIN objects = 1..Len(objects)
    BY <1>8, SeqDomain
  <2> QED
    BY <2>1, <2>2 DEF ToSet
<1>10. der_children(w, 48) = objects
  BY <1>4, <1>7, <1>8, <1>9 DEF der_children, c
<1> QED
  BY <1>10 DEF w

\* An object of a length that fits.
DerObject(s) == \E tag \in Nat, content \in Seq(Nat) : Fits(Len(content)) /\ s = der_wrap(tag, content)

\* Octets that, where they are the end of data, are read as these objects.
Spells(s, objects) ==
    /\ s \in Seq(Nat) /\ objects \in Seq(Seq(Nat) \ {<<>>})
    /\ \A data \in Seq(Nat), pos \in Nat \ {0} :
          Stands(data, pos, s) /\ pos + Len(s) = Len(data) + 1 => Lists(data, pos, objects)

\* An object is a sequence of octets, and not empty.
LEMMA ObjectSeq ==
    ASSUME NEW s, DerObject(s)
    PROVE  s \in Seq(Nat) /\ s \in Seq(Nat) \ {<<>>}
<1>1. PICK tag \in Nat, content \in Seq(Nat) : Fits(Len(content)) /\ s = der_wrap(tag, content)
  BY DEF DerObject
<1> DEFINE n == Len(content)
           k == Len(der_write_len(n))
<1>2. s \in Seq(Nat) /\ Len(s) = 1 + k + n
  BY <1>1, WrapFact
<1>3. n \in Nat /\ k \in 1..3
  BY <1>1, SeqDomain, LengthOctets
<1> HIDE DEF n, k
<1>4. Len(s) # 0
  BY <1>2, <1>3
<1> QED
  BY <1>2, <1>4, SeqEmpty

LEMMA SpellsNone == Spells(<<>>, <<>>)
<1>1. <<>> \in Seq(Nat) /\ Len(<<>>) = 0 /\ <<>> \in Seq(Seq(Nat) \ {<<>>})
  BY SeqNone
<1>2. ASSUME NEW data \in Seq(Nat), NEW pos \in Nat \ {0}, pos + Len(<<>>) = Len(data) + 1
      PROVE  Lists(data, pos, <<>>)
  <2>1. pos = Len(data) + 1
    BY <1>1, <1>2
  <2> QED
    BY <2>1, ObjectsEnd
<1> QED
  BY <1>1, <1>2 DEF Spells

LEMMA SpellsMore ==
    ASSUME NEW o, DerObject(o), NEW s, NEW objects, Spells(s, objects)
    PROVE  Spells(o \o s, <<o>> \o objects)
<1>1. o \in Seq(Nat) /\ o \in Seq(Nat) \ {<<>>} /\ s \in Seq(Nat) /\ objects \in Seq(Seq(Nat) \ {<<>>})
  BY ObjectSeq DEF Spells
<1>2. o \o s \in Seq(Nat) /\ Len(o \o s) = Len(o) + Len(s)
  BY <1>1, SeqConcat
<1>3. <<o>> \o objects \in Seq(Seq(Nat) \ {<<>>})
  <2> DEFINE S == Seq(Nat) \ {<<>>}
  <2>1. o \in S /\ objects \in Seq(S)
    BY <1>1
  <2> HIDE DEF S
  <2>2. <<o>> \in Seq(S)
    BY <2>1
  <2>3. <<o>> \o objects \in Seq(S)
    BY <2>1, <2>2, SeqConcat
  <2> QED
    BY <2>3 DEF S
<1>4. ASSUME NEW data \in Seq(Nat), NEW pos \in Nat \ {0},
             Stands(data, pos, o \o s), pos + Len(o \o s) = Len(data) + 1
      PROVE  Lists(data, pos, <<o>> \o objects)
  <2>1. Stands(data, pos, o) /\ Stands(data, pos + Len(o), s)
    BY <1>1, <1>4, StandsParts
  <2>2. pos + Len(o) \in Nat \ {0} /\ pos + Len(o) + Len(s) = Len(data) + 1
    <3>1. Len(o) \in Nat /\ Len(s) \in Nat
      BY <1>1, SeqDomain
    <3>2. pos + (Len(o) + Len(s)) = Len(data) + 1
      BY <1>2, <1>4
    <3> QED
      BY <3>1, <3>2
  <2>3. Lists(data, pos + Len(o), objects)
    BY <2>1, <2>2 DEF Spells
  <2>4. PICK tag \in Nat, content \in Seq(Nat) : Fits(Len(content)) /\ o = der_wrap(tag, content)
    BY DEF DerObject
  <2> QED
    BY <2>1, <2>3, <2>4, ObjectStep
<1> QED
  BY <1>1, <1>2, <1>3, <1>4 DEF Spells

\* A SEQUENCE has the children its content spells.
LEMMA SpellsChildren ==
    ASSUME NEW content, NEW objects, Spells(content, objects), Fits(Len(content))
    PROVE  der_children(der_wrap(48, content), 48) = objects
<1> DEFINE w == der_wrap(48, content)
           n == Len(content)
           k == Len(der_write_len(n))
           c == ContentStart(w, 1)
<1>1. content \in Seq(Nat)
  BY DEF Spells
<1>2. w \in Seq(Nat) /\ Len(w) = 1 + k + n
  BY <1>1, WrapFact
<1>3. n \in Nat /\ k \in 1..3
  BY <1>1, SeqDomain, LengthOctets
<1>4. Stands(w, 1, w)
  <2> HIDE DEF w
  <2> QED
    BY <1>2, StandsSelf
<1>5. Stands(w, c, content) /\ EndOf(w, 1) = 1 + Len(w) /\ c + n = EndOf(w, 1)
  BY <1>1, <1>2, <1>4, ObjectRead
<1>6. c \in Nat \ {0}
  BY <1>5 DEF Stands
<1> HIDE DEF w, n, k, c
<1>7. c = 2 + k /\ c + n = Len(w) + 1
  BY <1>2, <1>3, <1>5, <1>6
<1>8. Lists(w, c, objects)
  BY <1>2, <1>5, <1>6, <1>7 DEF Spells, n
<1>9. Lists(w, 2 + k, objects)
  BY <1>7, <1>8
<1> QED
  BY <1>1, <1>9, ChildrenRead DEF w, n, k

\* Sequences of two to four, from the first one on.
LEMMA SeqFromFirst ==
    ASSUME NEW S, NEW a \in S, NEW b \in S, NEW c \in S
    PROVE  /\ <<a>> \o <<b>> = <<a, b>>
           /\ <<a>> \o <<b, c>> = <<a, b, c>>
<1> DEFINE o == <<a>>
<1>1. o \in Seq(S) /\ Len(o) = 1 /\ o[1] = a
  OBVIOUS
<1> HIDE DEF o
<1>2. o \o <<b>> = <<a, b>>
  <2> DEFINE t == <<b>>
             f == <<a, b>>
             u == o \o t
  <2>1. t \in Seq(S) /\ Len(t) = 1 /\ t[1] = b
    OBVIOUS
  <2>2. f \in Seq(S) /\ Len(f) = 2 /\ f[1] = a /\ f[2] = b
    OBVIOUS
  <2> HIDE DEF t, f
  <2>3. /\ u \in Seq(S) /\ Len(u) = 1 + Len(t) /\ u[1] = o[1]
        /\ \A i \in 1..Len(t) : u[1 + i] = t[i]
    <3>1. o \in Seq(S) /\ t \in Seq(S) /\ Len(o) = 1
      BY <1>1, <2>1
    <3> QED
      BY <3>1, SeqOneBefore
  <2> HIDE DEF u
  <2>4. u[1 + 1] = t[1]
    BY <2>1, <2>3
  <2>5. u[1] = a /\ u[2] = b
    BY <1>1, <2>1, <2>3, <2>4
  <2>6. \A i \in 1..Len(u) : u[i] = f[i]
    <3>1. Len(u) = 2 /\ 1..2 = {1, 2}
      BY <2>1, <2>3
    <3> QED
      BY <2>2, <2>5, <3>1
  <2>7. Len(u) = Len(f)
    BY <2>1, <2>2, <2>3
  <2>8. u = f
    BY <2>2, <2>3, <2>6, <2>7, SeqSame
  <2> QED
    BY <2>8 DEF u, f, t
<1>3. o \o <<b, c>> = <<a, b, c>>
  <2> DEFINE t == <<b, c>>
             f == <<a, b, c>>
             u == o \o t
  <2>1. t \in Seq(S) /\ Len(t) = 2 /\ t[1] = b /\ t[2] = c
    OBVIOUS
  <2>2. f \in Seq(S) /\ Len(f) = 3 /\ f[1] = a /\ f[2] = b /\ f[3] = c
    OBVIOUS
  <2> HIDE DEF t, f
  <2>3. /\ u \in Seq(S) /\ Len(u) = 1 + Len(t) /\ u[1] = o[1]
        /\ \A i \in 1..Len(t) : u[1 + i] = t[i]
    <3>1. o \in Seq(S) /\ t \in Seq(S) /\ Len(o) = 1
      BY <1>1, <2>1
    <3> QED
      BY <3>1, SeqOneBefore
  <2> HIDE DEF u
  <2>4. u[1 + 1] = t[1] /\ u[1 + 2] = t[2]
    BY <2>1, <2>3
  <2>5. u[1] = a /\ u[2] = b /\ u[3] = c
    BY <1>1, <2>1, <2>3, <2>4
  <2>6. \A i \in 1..Len(u) : u[i] = f[i]
    <3>1. Len(u) = 3 /\ 1..3 = {1, 2, 3}
      BY <2>1, <2>3
    <3> QED
      BY <2>2, <2>5, <3>1
  <2>7. Len(u) = Len(f)
    BY <2>1, <2>2, <2>3
  <2>8. u = f
    BY <2>2, <2>3, <2>6, <2>7, SeqSame
  <2> QED
    BY <2>8 DEF u, f, t
<1> QED
  BY <1>2, <1>3 DEF o

LEMMA SeqFourFromFirst ==
    ASSUME NEW S, NEW a \in S, NEW b \in S, NEW c \in S, NEW d \in S
    PROVE  <<a>> \o <<b, c, d>> = <<a, b, c, d>>
<1> DEFINE o == <<a>>
<1>1. o \in Seq(S) /\ Len(o) = 1 /\ o[1] = a
  OBVIOUS
<1> HIDE DEF o
<1>2. o \o <<b, c, d>> = <<a, b, c, d>>
  <2> DEFINE t == <<b, c, d>>
             f == <<a, b, c, d>>
             u == o \o t
  <2>1. t \in Seq(S) /\ Len(t) = 3 /\ t[1] = b /\ t[2] = c /\ t[3] = d
    OBVIOUS
  <2>2. f \in Seq(S) /\ Len(f) = 4 /\ f[1] = a /\ f[2] = b /\ f[3] = c /\ f[4] = d
    OBVIOUS
  <2> HIDE DEF t, f
  <2>3. /\ u \in Seq(S) /\ Len(u) = 1 + Len(t) /\ u[1] = o[1]
        /\ \A i \in 1..Len(t) : u[1 + i] = t[i]
    <3>1. o \in Seq(S) /\ t \in Seq(S) /\ Len(o) = 1
      BY <1>1, <2>1
    <3> QED
      BY <3>1, SeqOneBefore
  <2> HIDE DEF u
  <2>4. u[1 + 1] = t[1] /\ u[1 + 2] = t[2] /\ u[1 + 3] = t[3]
    BY <2>1, <2>3
  <2>5. u[1] = a /\ u[2] = b /\ u[3] = c /\ u[4] = d
    BY <1>1, <2>1, <2>3, <2>4
  <2>6. \A i \in 1..Len(u) : u[i] = f[i]
    <3>1. Len(u) = 4 /\ 1..4 = {1, 2, 3, 4}
      BY <2>1, <2>3
    <3> QED
      BY <2>2, <2>5, <3>1
  <2>7. Len(u) = Len(f)
    BY <2>1, <2>2, <2>3
  <2>8. u = f
    BY <2>2, <2>3, <2>6, <2>7, SeqSame
  <2> QED
    BY <2>8 DEF u, f, t
<1> QED
  BY <1>2 DEF o

LEMMA NatAssoc ==
    ASSUME NEW p \in Seq(Nat), NEW q \in Seq(Nat), NEW r \in Seq(Nat)
    PROVE  (p \o q) \o r = p \o (q \o r)
BY SMTT(60)

\* One to four objects.
LEMMA SpellsOne ==
    ASSUME NEW a, DerObject(a)
    PROVE  Spells(a, <<a>>)
<1>1. Spells(a \o <<>>, <<a>> \o <<>>)
  BY SpellsNone, SpellsMore
<1>2. a \in Seq(Nat)
  BY ObjectSeq
<1>3. a \o <<>> = a
  BY <1>2, SeqUnit
<1>4. <<a>> \in Seq(Seq(Nat))
  BY <1>2
<1>5. <<a>> \o <<>> = <<a>>
  BY <1>4, SeqUnit
<1> QED
  BY <1>1, <1>3, <1>5

LEMMA SpellsTwo ==
    ASSUME NEW a, DerObject(a), NEW b, DerObject(b)
    PROVE  Spells(a \o b, <<a, b>>)
<1>1. Spells(a \o b, <<a>> \o <<b>>)
  BY SpellsOne, SpellsMore
<1>2. a \in Seq(Nat) /\ b \in Seq(Nat)
  BY ObjectSeq
<1>3. <<a>> \o <<b>> = <<a, b>>
  BY <1>2, SeqFromFirst
<1> QED
  BY <1>1, <1>3

LEMMA SpellsThree ==
    ASSUME NEW a, DerObject(a), NEW b, DerObject(b), NEW c, DerObject(c)
    PROVE  Spells((a \o b) \o c, <<a, b, c>>)
<1>1. Spells(a \o (b \o c), <<a>> \o <<b, c>>)
  BY SpellsTwo, SpellsMore
<1>2. a \in Seq(Nat) /\ b \in Seq(Nat) /\ c \in Seq(Nat)
  BY ObjectSeq
<1>3. <<a>> \o <<b, c>> = <<a, b, c>>
  BY <1>2, SeqFromFirst
<1>4. a \o (b \o c) = (a \o b) \o c
  BY <1>2, NatAssoc, Zenon
<1> QED
  BY <1>1, <1>3, <1>4

LEMMA SpellsFour ==
    ASSUME NEW a, DerObject(a), NEW b, DerObject(b), NEW c, DerObject(c), NEW d, DerObject(d)
    PROVE  Spells(((a \o b) \o c) \o d, <<a, b, c, d>>)
<1>1. Spells(a \o ((b \o c) \o d), <<a>> \o <<b, c, d>>)
  BY SpellsThree, SpellsMore
<1>2. a \in Seq(Nat) /\ b \in Seq(Nat) /\ c \in Seq(Nat) /\ d \in Seq(Nat)
  BY ObjectSeq
<1>3. <<a>> \o <<b, c, d>> = <<a, b, c, d>>
  <2> DEFINE S == Seq(Nat)
  <2>1. a \in S /\ b \in S /\ c \in S /\ d \in S
    BY <1>2
  <2> HIDE DEF S
  <2> QED
    BY <2>1, SeqFourFromFirst
<1>4. b \o c \in Seq(Nat)
  BY <1>2, SeqConcat
<1>5. (a \o (b \o c)) \o d = a \o ((b \o c) \o d)
  <2> DEFINE e == b \o c
  <2>1. a \in Seq(Nat) /\ e \in Seq(Nat) /\ d \in Seq(Nat)
    BY <1>2, <1>4
  <2> HIDE DEF e
  <2>2. (a \o e) \o d = a \o (e \o d)
    BY <2>1, NatAssoc, Zenon
  <2> QED
    BY <2>2 DEF e
<1>6. (a \o b) \o c = a \o (b \o c)
  <2>1. a \in Seq(Nat) /\ b \in Seq(Nat) /\ c \in Seq(Nat)
    BY <1>2
  <2> QED
    BY <2>1, NatAssoc, Zenon
<1> QED
  BY <1>1, <1>3, <1>5, <1>6

(***************************************************************************)
(* The request of the firmware and the parser of the RA.                   *)
(***************************************************************************)

\* A field of at most n octets.
Within(s, n) == s \in Seq(Nat) /\ Len(s) <= n

\* A tag and a length field are at most four octets.
LEMMA WrapWithin ==
    ASSUME NEW tag \in Nat, NEW content, NEW n \in Nat, Within(content, n), Fits(n)
    PROVE  Within(der_wrap(tag, content), n + 4) /\ DerObject(der_wrap(tag, content))
           /\ Fits(Len(content))
<1> DEFINE m == Len(content)
           k == Len(der_write_len(m))
<1>1. content \in Seq(Nat) /\ m \in Nat /\ m <= n
  BY SeqDomain DEF Within
<1> HIDE DEF m
<1>2. Fits(m)
  <2>1. n < 256 * 256
    BY DEF Fits
  <2>2. m < 256 * 256
    BY <1>1, <2>1
  <2> QED
    BY <2>2 DEF Fits
<1>3. der_wrap(tag, content) \in Seq(Nat) /\ Len(der_wrap(tag, content)) = 1 + k + m
  BY <1>1, <1>2, WrapFact DEF m
<1>4. k \in 1..3
  BY <1>1, <1>2, LengthOctets
<1> HIDE DEF k
<1>5. 1 + k + m <= n + 4
  BY <1>1, <1>4
<1>6. DerObject(der_wrap(tag, content))
  BY <1>1, <1>2 DEF DerObject, m
<1> QED
  BY <1>2, <1>3, <1>5, <1>6 DEF Within, m

LEMMA ConcatWithin ==
    ASSUME NEW s, NEW t, NEW m \in Nat, NEW n \in Nat, Within(s, m), Within(t, n)
    PROVE  Within(s \o t, m + n)
<1>1. s \in Seq(Nat) /\ t \in Seq(Nat) /\ Len(s) <= m /\ Len(t) <= n
  BY DEF Within
<1>2. s \o t \in Seq(Nat) /\ Len(s \o t) = Len(s) + Len(t) /\ Len(s) \in Nat /\ Len(t) \in Nat
  BY <1>1, SeqConcat, SeqDomain
<1>3. Len(s) + Len(t) <= m + n
  BY <1>1, <1>2
<1> QED
  BY <1>2, <1>3 DEF Within

\* A smaller length fits where a larger one does.
LEMMA FitsLess ==
    ASSUME NEW n \in Nat, NEW m \in Nat, m <= n, Fits(n)
    PROVE  Fits(m)
<1>1. n < 256 * 256
  BY DEF Fits
<1>2. m < 256 * 256
  BY <1>1
<1> QED
  BY <1>2 DEF Fits

\* The content of an OBJECT IDENTIFIER is what was written.
LEMMA OidRead ==
    ASSUME NEW oid \in Seq(Nat), Fits(Len(oid))
    PROVE  der_oid_content(der_wrap(6, oid)) = oid
<1> DEFINE w == der_wrap(6, oid)
           c == ContentStart(w, 1)
           n == Len(oid)
<1>1. w \in Seq(Nat)
  BY WrapFact
<1>2. Stands(w, 1, w)
  <2> HIDE DEF w
  <2> QED
    BY <1>1, StandsSelf
<1>3. /\ w[1] = 6 /\ ParsesAt(w, 1) /\ EndOf(w, 1) = 1 + Len(w)
      /\ Stands(w, c, oid) /\ c + n = EndOf(w, 1)
  BY <1>1, <1>2, ObjectRead
<1> HIDE DEF w, c
<1>4. Len(w) \in Nat /\ n \in Nat
  BY <1>1, SeqDomain
<1>5. c \in Nat \ {0} /\ \A j \in 1..n : w[c + j - 1] = oid[j]
  BY <1>3 DEF Stands
<1>6. SubSeq(w, c, Len(w)) = oid
  <2> DEFINE b == Len(w)
             s == SubSeq(w, c, b)
  <2>1. c \in Nat /\ b \in Nat /\ c >= 1 /\ b <= Len(w) /\ c <= b + 1 /\ b + 1 - c = n
    BY <1>3, <1>4, <1>5
  <2> HIDE DEF b
  <2>2. s \in Seq(Nat) /\ Len(s) = b + 1 - c /\ \A i \in 1..(b + 1 - c) : s[i] = w[c + i - 1]
    BY <1>1, <2>1, SeqSegment
  <2> HIDE DEF s, n
  <2>3. Len(s) = n /\ \A i \in 1..Len(s) : s[i] = oid[i]
    BY <1>5, <2>1, <2>2
  <2>4. s = oid
    BY <2>2, <2>3, SeqSame DEF n
  <2> QED
    BY <2>4 DEF s, b
<1>7. EndOf(w, 1) = Len(w) + 1
  BY <1>3, <1>4
<1>8. der_oid_content(w) = SubSeq(w, c, Len(w))
  BY <1>3, <1>7 DEF der_oid_content, c
<1> QED
  BY <1>6, <1>8 DEF w

\* The AlgorithmIdentifier names ML-DSA-44.
LEMMA AlgorithmRead ==
    /\ HasAlgorithm(der_write_algorithm_identifier)
    /\ Within(der_write_algorithm_identifier, 17) /\ DerObject(der_write_algorithm_identifier)
<1> DEFINE o == der_write_oid(OID_MLDSA_44)
           a == der_write_algorithm_identifier
<1>1. OID_MLDSA_44 \in Seq(Nat) /\ Len(OID_MLDSA_44) = 9
  BY DEF OID_MLDSA_44
<1>2. Within(OID_MLDSA_44, 9) /\ 9 \in Nat /\ Fits(9) /\ Fits(13)
  BY <1>1 DEF Within, Fits
<1>3. o = der_wrap(6, OID_MLDSA_44) /\ a = der_wrap(48, o)
  BY DEF der_write_oid, der_write_algorithm_identifier
<1>4. Within(o, 9 + 4) /\ DerObject(o) /\ Fits(Len(OID_MLDSA_44))
  BY <1>2, <1>3, WrapWithin
<1>5. der_oid_content(o) = MLDSA44_OID
  <2>1. der_oid_content(o) = OID_MLDSA_44
    BY <1>1, <1>3, <1>4, OidRead
  <2>2. OID_MLDSA_44 = MLDSA44_OID
    BY DEF OID_MLDSA_44, MLDSA44_OID
  <2> QED
    BY <2>1, <2>2
<1>6. Within(a, 13 + 4) /\ DerObject(a) /\ Fits(Len(o))
  <2>1. Within(o, 13) /\ 13 \in Nat
    BY <1>4
  <2> HIDE DEF o, a
  <2> QED
    BY <1>2, <1>3, <2>1, WrapWithin
<1>7. der_children(a, 48) = <<o>>
  <2>1. Spells(o, <<o>>)
    BY <1>4, SpellsOne
  <2> HIDE DEF o, a
  <2> QED
    BY <1>3, <1>6, <2>1, SpellsChildren
<1>8. HasAlgorithm(a)
  <2> HIDE DEF o, a
  <2>1. <<o>> # <<>> /\ <<o>>[1] = o
    OBVIOUS
  <2> QED
    BY <1>5, <1>7, <2>1 DEF HasAlgorithm
<1>9. Within(a, 17)
  BY <1>6
<1> QED
  BY <1>6, <1>8, <1>9

\* A BIT STRING is an object.
LEMMA BitStringRead ==
    ASSUME NEW buf \in Seq(Nat), Fits(Len(buf) + 1)
    PROVE  Within(der_write_bit_string(buf), Len(buf) + 5) /\ DerObject(der_write_bit_string(buf))
<1> DEFINE n == Len(buf)
           z == <<0>>
           c == z \o buf
<1>1. n \in Nat /\ n + 1 \in Nat /\ 1 \in Nat
  BY SeqDomain
<1>2. Within(buf, n) /\ Within(z, 1)
  BY <1>1 DEF Within
<1> HIDE DEF z
<1>3. Within(c, 1 + n)
  BY <1>1, <1>2, ConcatWithin
<1> HIDE DEF c
<1>4. Fits(n + 1)
  OBVIOUS
<1> HIDE DEF n
<1>5. 1 + n = n + 1 /\ (n + 1) + 4 = n + 5
  BY <1>1
<1>6. Within(c, n + 1)
  BY <1>3, <1>5
<1>7. Within(der_wrap(3, c), (n + 1) + 4) /\ DerObject(der_wrap(3, c))
  BY <1>1, <1>4, <1>6, WrapWithin
<1>8. der_write_bit_string(buf) = der_wrap(3, c)
  BY DEF der_write_bit_string, c, z
<1> QED
  BY <1>5, <1>7, <1>8 DEF n

\* So is the subject,
LEMMA SubjectRead ==
    ASSUME NEW name \in Seq(Nat), Fits(Len(name) + 19)
    PROVE  Within(der_write_subject(name), Len(name) + 23) /\ DerObject(der_write_subject(name))
<1> DEFINE n == Len(name)
           o == der_write_oid(OID_COMMON_NAME)
           s == der_write_utf8_string(name)
           c == o \o s
           d == der_wrap(48, c)
           e == der_wrap(49, d)
<1>1. n \in Nat /\ 3 \in Nat /\ 7 \in Nat
  BY SeqDomain
<1>2. Fits(n + 19)
  OBVIOUS
<1>3. Within(name, n) /\ OID_COMMON_NAME \in Seq(Nat) /\ Within(OID_COMMON_NAME, 3)
  BY <1>1 DEF Within, OID_COMMON_NAME
<1>4. o = der_wrap(6, OID_COMMON_NAME) /\ s = der_wrap(12, name)
      /\ der_write_subject(name) = der_wrap(48, e)
  BY DEF der_write_oid, der_write_utf8_string, der_write_subject
<1> HIDE DEF n, o, s
<1>5. Fits(3) /\ Fits(n) /\ Fits(n + 11) /\ Fits(n + 15)
  <2>1. Fits(3)
    BY DEF Fits
  <2> QED
    BY <1>1, <1>2, <2>1, FitsLess
<1>6. Within(o, 7)
  <2>1. Within(o, 3 + 4)
    BY <1>1, <1>3, <1>4, <1>5, WrapWithin
  <2> QED
    BY <2>1
<1>7. Within(s, n + 4)
  BY <1>1, <1>3, <1>4, <1>5, WrapWithin
<1>8. Within(c, n + 11)
  <2>1. n + 4 \in Nat /\ 7 + (n + 4) = n + 11
    BY <1>1
  <2>2. Within(c, 7 + (n + 4))
    BY <1>1, <1>6, <1>7, <2>1, ConcatWithin
  <2> QED
    BY <2>1, <2>2
<1> HIDE DEF c
<1>9. Within(d, n + 15)
  <2>1. n + 11 \in Nat /\ (n + 11) + 4 = n + 15
    BY <1>1
  <2>2. Within(d, (n + 11) + 4)
    BY <1>5, <1>8, <2>1, WrapWithin
  <2> QED
    BY <2>1, <2>2
<1> HIDE DEF d
<1>10. Within(e, n + 19)
  <2>1. n + 15 \in Nat /\ (n + 15) + 4 = n + 19
    BY <1>1
  <2>2. Within(e, (n + 15) + 4)
    BY <1>5, <1>9, <2>1, WrapWithin
  <2> QED
    BY <2>1, <2>2
<1> HIDE DEF e
<1>11. Within(der_wrap(48, e), n + 23) /\ DerObject(der_wrap(48, e))
  <2>1. n + 19 \in Nat /\ (n + 19) + 4 = n + 23
    BY <1>1
  <2>2. Within(der_wrap(48, e), (n + 19) + 4) /\ DerObject(der_wrap(48, e))
    BY <1>2, <1>10, <2>1, WrapWithin
  <2> QED
    BY <2>1, <2>2
<1> QED
  BY <1>4, <1>11 DEF n

\* and the SubjectPublicKeyInfo, in which the algorithm is found.
LEMMA SpkiRead ==
    ASSUME NEW key \in Seq(Nat), Fits(Len(key) + 22)
    PROVE  /\ Within(der_write_subject_public_key_info(key), Len(key) + 26)
           /\ DerObject(der_write_subject_public_key_info(key))
           /\ der_children(der_write_subject_public_key_info(key), 48)
                 = <<der_write_algorithm_identifier, der_write_bit_string(key)>>
<1> DEFINE n == Len(key)
           a == der_write_algorithm_identifier
           b == der_write_bit_string(key)
           c == a \o b
<1>1. n \in Nat /\ n + 1 \in Nat /\ n + 5 \in Nat /\ n + 22 \in Nat /\ 17 \in Nat
      /\ 17 + (n + 5) = n + 22 /\ (n + 22) + 4 = n + 26
  <2>1. n \in Nat
    BY SeqDomain
  <2> HIDE DEF n
  <2> QED
    BY <2>1
<1>2. Fits(n + 22)
  OBVIOUS
<1>3. Fits(n + 1)
  <2> HIDE DEF n
  <2>1. n + 1 <= n + 22
    BY <1>1
  <2> QED
    BY <1>1, <1>2, <2>1, FitsLess
<1>4. Within(a, 17) /\ DerObject(a)
  BY AlgorithmRead
<1>5. Within(b, n + 5) /\ DerObject(b)
  BY <1>3, BitStringRead
<1>6. der_write_subject_public_key_info(key) = der_wrap(48, c)
  BY DEF der_write_subject_public_key_info
<1> HIDE DEF a, b, n
<1>7. Within(c, n + 22)
  <2>1. Within(c, 17 + (n + 5))
    BY <1>1, <1>4, <1>5, ConcatWithin
  <2> QED
    BY <1>1, <2>1
<1>8. Spells(c, <<a, b>>)
  BY <1>4, <1>5, SpellsTwo
<1> HIDE DEF c
<1>9. Within(der_wrap(48, c), (n + 22) + 4) /\ DerObject(der_wrap(48, c)) /\ Fits(Len(c))
  BY <1>1, <1>2, <1>7, WrapWithin
<1>10. der_children(der_wrap(48, c), 48) = <<a, b>>
  BY <1>8, <1>9, SpellsChildren
<1> QED
  BY <1>1, <1>6, <1>9, <1>10 DEF n, a, b

\* The CertificationRequestInfo has four children.
LEMMA InfoRead ==
    ASSUME NEW name \in Seq(Nat), NEW key \in Seq(Nat), Fits(Len(name) + Len(key) + 58)
    PROVE  /\ Within(csr_build_certification_request_info(name, key), Len(name) + Len(key) + 62)
           /\ DerObject(csr_build_certification_request_info(name, key))
           /\ der_children(csr_build_certification_request_info(name, key), 48)
                 = <<der_write_integer_zero, der_write_subject(name),
                     der_write_subject_public_key_info(key), der_write_empty_attributes>>
<1> DEFINE m == Len(name)
           n == Len(key)
           v == der_write_integer_zero
           s == der_write_subject(name)
           k == der_write_subject_public_key_info(key)
           a == der_write_empty_attributes
           c == ((v \o s) \o k) \o a
<1>1. m \in Nat /\ n \in Nat
  BY SeqDomain
<1>2. Fits(m + n + 58)
  OBVIOUS
<1>3. Fits(m + 19) /\ Fits(n + 22) /\ Fits(1) /\ Fits(0)
  <2> HIDE DEF m, n
  <2>1. /\ m + n + 58 \in Nat /\ m + 19 \in Nat /\ n + 22 \in Nat
        /\ m + 19 <= m + n + 58 /\ n + 22 <= m + n + 58
    BY <1>1
  <2>2. Fits(1) /\ Fits(0)
    BY DEF Fits
  <2> QED
    BY <1>2, <2>1, <2>2, FitsLess
<1>4. Within(s, m + 23) /\ DerObject(s)
  BY <1>3, SubjectRead
<1>5. Within(k, n + 26) /\ DerObject(k)
  BY <1>3, SpkiRead
<1>6. Within(v, 5) /\ DerObject(v)
  <2>1. Within(<<0>>, 1) /\ 1 \in Nat
    BY DEF Within
  <2>2. Within(der_wrap(2, <<0>>), 1 + 4) /\ DerObject(der_wrap(2, <<0>>))
    BY <1>3, <2>1, WrapWithin
  <2> QED
    BY <2>2 DEF der_write_integer_zero
<1>7. Within(a, 4) /\ DerObject(a)
  <2>1. Within(<<>>, 0) /\ 0 \in Nat
    BY SeqNone DEF Within
  <2>2. Within(der_wrap(160, <<>>), 0 + 4) /\ DerObject(der_wrap(160, <<>>))
    BY <1>3, <2>1, WrapWithin
  <2> QED
    BY <2>2 DEF der_write_empty_attributes
<1>8. csr_build_certification_request_info(name, key) = der_wrap(48, c)
  <2> DEFINE w == der_wrap(48, v \o s \o k \o a)
  <2>1. csr_build_certification_request_info(name, key) = w
    BY DEF csr_build_certification_request_info
  <2> QED
    BY <2>1
<1> HIDE DEF m, n, v, s, k, a
<1>9. Within(c, m + n + 58)
  <2>1. /\ 5 \in Nat /\ 4 \in Nat /\ m + 23 \in Nat /\ n + 26 \in Nat
        /\ 5 + (m + 23) \in Nat /\ 5 + (m + 23) + (n + 26) \in Nat
        /\ 5 + (m + 23) + (n + 26) + 4 = m + n + 58
    BY <1>1
  <2>2. Within(v \o s, 5 + (m + 23))
    BY <1>4, <1>6, <2>1, ConcatWithin
  <2>3. Within((v \o s) \o k, (5 + (m + 23)) + (n + 26))
    BY <1>5, <2>1, <2>2, ConcatWithin
  <2>4. Within(((v \o s) \o k) \o a, (5 + (m + 23) + (n + 26)) + 4)
    BY <1>7, <2>1, <2>3, ConcatWithin
  <2> QED
    BY <2>1, <2>4
<1>10. Spells(c, <<v, s, k, a>>)
  BY <1>4, <1>5, <1>6, <1>7, SpellsFour
<1> HIDE DEF c
<1>11. m + n + 58 \in Nat /\ (m + n + 58) + 4 = m + n + 62
  BY <1>1
<1>12. Within(der_wrap(48, c), (m + n + 58) + 4) /\ DerObject(der_wrap(48, c)) /\ Fits(Len(c))
  BY <1>2, <1>9, <1>11, WrapWithin
<1>13. der_children(der_wrap(48, c), 48) = <<v, s, k, a>>
  BY <1>10, <1>12, SpellsChildren
<1> QED
  BY <1>8, <1>11, <1>12, <1>13 DEF m, n, v, s, k, a

\* So has a request three,
LEMMA CsrRead ==
    ASSUME NEW name \in Seq(Nat), NEW key \in Seq(Nat), NEW sig \in Seq(Nat), NEW cri,
           cri = csr_build_certification_request_info(name, key),
           Fits(Len(name) + Len(key) + Len(sig) + 84)
    PROVE  /\ Within(csr_assemble(cri, sig), Len(name) + Len(key) + Len(sig) + 88)
           /\ DerObject(csr_assemble(cri, sig))
           /\ der_children(csr_assemble(cri, sig), 48)
                 = <<cri, der_write_algorithm_identifier, der_write_bit_string(sig)>>
<1> DEFINE m == Len(name)
           n == Len(key)
           l == Len(sig)
           a == der_write_algorithm_identifier
           b == der_write_bit_string(sig)
           c == (cri \o a) \o b
<1>1. m \in Nat /\ n \in Nat /\ l \in Nat
  BY SeqDomain
<1>2. Fits(m + n + l + 84)
  OBVIOUS
<1>3. Fits(m + n + 58) /\ Fits(l + 1)
  <2> HIDE DEF m, n, l
  <2>1. /\ m + n + l + 84 \in Nat /\ m + n + 58 \in Nat /\ l + 1 \in Nat
        /\ m + n + 58 <= m + n + l + 84 /\ l + 1 <= m + n + l + 84
    BY <1>1
  <2> QED
    BY <1>2, <2>1, FitsLess
<1>4. Within(cri, m + n + 62) /\ DerObject(cri)
  BY <1>3, InfoRead
<1>5. Within(a, 17) /\ DerObject(a)
  BY AlgorithmRead
<1>6. Within(b, l + 5) /\ DerObject(b)
  BY <1>3, BitStringRead
<1>7. csr_assemble(cri, sig) = der_wrap(48, c)
  <2> DEFINE w == der_wrap(48, cri \o a \o b)
  <2>1. csr_assemble(cri, sig) = w
    BY DEF csr_assemble
  <2> QED
    BY <2>1
<1> HIDE DEF m, n, l, a, b
<1>8. Within(c, m + n + l + 84)
  <2>1. /\ m + n + 62 \in Nat /\ 17 \in Nat /\ l + 5 \in Nat /\ (m + n + 62) + 17 \in Nat
        /\ ((m + n + 62) + 17) + (l + 5) = m + n + l + 84
    BY <1>1
  <2>2. Within(cri \o a, (m + n + 62) + 17)
    BY <1>4, <1>5, <2>1, ConcatWithin
  <2>3. Within((cri \o a) \o b, ((m + n + 62) + 17) + (l + 5))
    BY <1>6, <2>1, <2>2, ConcatWithin
  <2> QED
    BY <2>1, <2>3
<1>9. Spells(c, <<cri, a, b>>)
  BY <1>4, <1>5, <1>6, SpellsThree
<1> HIDE DEF c
<1>10. m + n + l + 84 \in Nat /\ (m + n + l + 84) + 4 = m + n + l + 88
  BY <1>1
<1>11. Within(der_wrap(48, c), (m + n + l + 84) + 4) /\ DerObject(der_wrap(48, c)) /\ Fits(Len(c))
  BY <1>2, <1>8, <1>10, WrapWithin
<1>12. der_children(der_wrap(48, c), 48) = <<cri, a, b>>
  BY <1>9, <1>11, SpellsChildren
<1> QED
  BY <1>7, <1>10, <1>11, <1>12 DEF m, n, l, a, b

\* The RA's parser reads every request the firmware can write, whatever octets are
\* in its fields and however many, and takes it apart into what csr_gen.c put together.
THEOREM CsrAccepted ==
    ASSUME NEW name \in Seq(Nat), NEW key \in Seq(Nat), NEW sig \in Seq(Nat), NEW der,
           der = csr_assemble(csr_build_certification_request_info(name, key), sig),
           Fits(Len(name) + Len(key) + Len(sig) + 84)
    PROVE  /\ IsCsr(der)
           /\ SubjectOf(der) = der_write_subject(name)
           /\ SpkiOf(der) = der_write_subject_public_key_info(key)
<1> DEFINE cri == csr_build_certification_request_info(name, key)
           v == der_write_integer_zero
           s == der_write_subject(name)
           k == der_write_subject_public_key_info(key)
           e == der_write_empty_attributes
           a == der_write_algorithm_identifier
           b == der_write_bit_string(sig)
           p == der_write_bit_string(key)
           m == Len(name)
           n == Len(key)
           l == Len(sig)
<1>1. der_children(der, 48) = <<cri, a, b>>
  BY CsrRead
<1>2. m \in Nat /\ n \in Nat /\ l \in Nat
  BY SeqDomain
<1>3. Fits(m + n + l + 84)
  OBVIOUS
<1>4. Fits(m + n + 58) /\ Fits(n + 22)
  <2> HIDE DEF m, n, l
  <2>1. /\ m + n + l + 84 \in Nat /\ m + n + 58 \in Nat /\ n + 22 \in Nat
        /\ m + n + 58 <= m + n + l + 84 /\ n + 22 <= m + n + l + 84
    BY <1>2
  <2> QED
    BY <1>3, <2>1, FitsLess
<1>5. der_children(cri, 48) = <<v, s, k, e>>
  BY <1>4, InfoRead
<1>6. der_children(k, 48) = <<a, p>>
  BY <1>4, SpkiRead
<1>7. HasAlgorithm(a)
  BY AlgorithmRead
<1> HIDE DEF cri, v, s, k, e, a, b, p
<1>8. Len(<<cri, a, b>>) = 3 /\ <<cri, a, b>>[1] = cri /\ <<cri, a, b>>[2] = a
  OBVIOUS
<1>9. Len(<<v, s, k, e>>) >= 3 /\ <<v, s, k, e>>[2] = s /\ <<v, s, k, e>>[3] = k
  OBVIOUS
<1>10. Len(<<a, p>>) = 2 /\ <<a, p>>[1] = a
  OBVIOUS
<1>11. IsCsr(der)
  BY <1>1, <1>5, <1>6, <1>7, <1>8, <1>9, <1>10 DEF IsCsr
<1>12. CriOf(der) = <<v, s, k, e>>
  BY <1>1, <1>5, <1>8 DEF CriOf
<1>13. SubjectOf(der) = s /\ SpkiOf(der) = k
  BY <1>9, <1>12 DEF SubjectOf, SpkiOf
<1> QED
  BY <1>11, <1>13 DEF s, k

(***************************************************************************)
(* The certificates of the RA, as bytes.                                   *)
(***************************************************************************)
LEMMA ToBytesFact ==
    ASSUME NEW n \in Nat
    PROVE  ToBytes(n) \in Seq(Nat) /\ ToBytes(n) # <<>>
<1> DEFINE q == n \div 256
           r == n % 256
<1>1. q \in Nat /\ r \in Nat
  OBVIOUS
<1> HIDE DEF q, r
<1>2. <<n>> \in Seq(Nat) /\ <<n>> # <<>> /\ <<q, r>> \in Seq(Nat) /\ <<q, r>> # <<>>
  BY <1>1
<1> QED
  BY <1>2 DEF ToBytes, q, r

LEMMA TlvFact ==
    ASSUME NEW tag \in Nat, NEW content \in Seq(Nat)
    PROVE  der_tlv(tag, content) \in Seq(Nat) /\ der_tlv(tag, content) # <<>>
<1> DEFINE n == Len(content)
           o == der_len(n)
<1>1. n \in Nat
  BY SeqDomain
<1> HIDE DEF n
<1>2. o \in Seq(Nat)
  <2>1. <<n>> \in Seq(Nat)
    BY <1>1
  <2>2. Len(ToBytes(n)) \in Nat /\ ToBytes(n) \in Seq(Nat)
    BY <1>1, ToBytesFact, SeqDomain
  <2> DEFINE m == 128 + Len(ToBytes(n))
  <2>3. m \in Nat
    BY <2>2
  <2> HIDE DEF m
  <2>4. <<m>> \in Seq(Nat)
    BY <2>3
  <2>5. <<m>> \o ToBytes(n) \in Seq(Nat)
    BY <2>2, <2>4, SeqConcat
  <2> QED
    BY <2>1, <2>5 DEF der_len, m
<1>3. <<tag>> \in Seq(Nat) /\ <<tag>> # <<>>
  OBVIOUS
<1> DEFINE h == <<tag>>
<1>4. h \in Seq(Nat) /\ h # <<>>
  BY <1>3
<1> HIDE DEF o, h
<1>5. h \o o \in Seq(Nat) /\ h \o o # <<>>
  BY <1>2, <1>4, SeqLonger
<1>6. (h \o o) \o content \in Seq(Nat) /\ (h \o o) \o content # <<>>
  BY <1>5, SeqLonger
<1> QED
  BY <1>6 DEF der_tlv, h, o, n

\* Literal sequences.
LEMMA SeqItems ==
    ASSUME NEW S, NEW a \in S, NEW b \in S, NEW c \in S, NEW d \in S, NEW e \in S,
           NEW f \in S, NEW g \in S
    PROVE  /\ <<a>> \in Seq(S) /\ <<a, b>> \in Seq(S) /\ <<a, b, c>> \in Seq(S)
           /\ <<a, b, c, d, e>> \in Seq(S) /\ <<a, b, c, d, e, f, g>> \in Seq(S)
OBVIOUS

LEMMA DerSeqFact ==
    ASSUME NEW items \in Seq(Seq(Nat))
    PROVE  /\ der_seq(items) \in Seq(Nat) /\ der_seq(items) # <<>>
           /\ der_set(items) \in Seq(Nat)
<1>1. <<>> \in Seq(Nat)
  BY SeqNone
<1>2. FlattenSeq(items) \in Seq(Nat)
  BY <1>1, FlatAppend
<1>3. 48 \in Nat /\ 49 \in Nat
  OBVIOUS
<1> QED
  BY <1>2, <1>3, TlvFact DEF der_seq, der_set

LEMMA DerIntFact ==
    ASSUME NEW n \in Nat
    PROVE  der_int(n) \in Seq(Nat)
<1> DEFINE data == ToBytes(n)
           content == IF data[1] >= 128 THEN <<0>> \o data ELSE data
<1>1. data \in Seq(Nat)
  BY ToBytesFact
<1> HIDE DEF data
<1>2. <<0>> \in Seq(Nat)
  OBVIOUS
<1>3. <<0>> \o data \in Seq(Nat)
  BY <1>1, <1>2, SeqConcat
<1>4. content \in Seq(Nat) /\ 2 \in Nat
  BY <1>1, <1>3
<1> HIDE DEF content
<1>5. der_tlv(2, content) \in Seq(Nat)
  BY <1>4, TlvFact
<1> QED
  BY <1>5, Zenon DEF der_int, content, data

LEMMA OidSeqs ==
    /\ der_oid(MLDSA44_OID) \in Seq(Nat) /\ der_oid(CN_OID) \in Seq(Nat)
    /\ der_oid(PKCS7_SIGNED_DATA_OID) \in Seq(Nat) /\ der_oid(PKCS7_DATA_OID) \in Seq(Nat)
<1>1. MLDSA44_OID \in Seq(Nat)
  BY DEF MLDSA44_OID
<1>2. CN_OID \in Seq(Nat)
  BY DEF CN_OID
<1>3. PKCS7_SIGNED_DATA_OID \in Seq(Nat)
  BY DEF PKCS7_SIGNED_DATA_OID
<1>4. PKCS7_DATA_OID \in Seq(Nat)
  BY DEF PKCS7_DATA_OID
<1>5. 6 \in Nat
  OBVIOUS
<1> QED
  BY <1>1, <1>2, <1>3, <1>4, <1>5, TlvFact DEF der_oid

\* What the RA's certificates consist of.
IsCertificate(cert) ==
    \E version \in Seq(Nat), no \in Seq(Nat), issuer \in Seq(Nat), validity \in Seq(Nat),
       subject \in Seq(Nat), spki \in Seq(Nat) :
        cert = der_seq(<<der_seq(<<version, no, mldsa44_algorithm_identifier, issuer, validity,
                                   subject, spki>>),
                         mldsa44_algorithm_identifier, der_bit_string(SigBytes)>>)

\* A certificate for a request that was parsed.
LEMMA CertificateParts ==
    ASSUME NEW der, NEW n \in Nat, SubjectOf(der) \in Seq(Nat), SpkiOf(der) \in Seq(Nat)
    PROVE  /\ build_mldsa44_certificate(der, n) \in Seq(Nat)
           /\ build_mldsa44_certificate(der, n) # <<>>
           /\ IsCertificate(build_mldsa44_certificate(der, n))
<1> DEFINE alg == mldsa44_algorithm_identifier
           utf == der_utf8(<<82>>)
           rdn == der_seq(<<der_oid(CN_OID), utf>>)
           set == der_set(<<rdn>>)
           issuer == der_seq(<<set>>)
           utc == der_utctime(TimeByte)
           validity == der_seq(<<utc, utc>>)
           version == der_ctx(0, der_int(2))
           no == der_int(n)
           subject == SubjectOf(der)
           spki == SpkiOf(der)
           tbs == der_seq(<<version, no, alg, issuer, validity, subject, spki>>)
           sig == der_bit_string(SigBytes)
           cert == der_seq(<<tbs, alg, sig>>)
<1> DEFINE S == Seq(Nat)
<1>1. alg \in S
  <2>1. <<der_oid(MLDSA44_OID)>> \in Seq(S)
    BY OidSeqs, SeqItems
  <2> QED
    BY <2>1, DerSeqFact DEF mldsa44_algorithm_identifier
<1>2. utf \in S /\ utc \in S
  <2>1. TimeByte \in Nat
    BY DerAssumption
  <2>2. <<82>> \in S /\ <<TimeByte>> \in S
    BY <2>1
  <2>3. 12 \in Nat /\ 23 \in Nat
    OBVIOUS
  <2> QED
    BY <2>2, <2>3, TlvFact DEF der_utf8, der_utctime
<1>3. version \in S /\ no \in S
  <2>1. der_int(2) \in S /\ no \in S
    BY DerIntFact
  <2>2. 160 + 0 \in Nat
    OBVIOUS
  <2> QED
    BY <2>1, <2>2, TlvFact DEF der_ctx
<1>4. sig \in S
  <2>1. SigBytes \in Seq(0..255) /\ 0..255 \subseteq Nat
    BY DerAssumption
  <2>2. SigBytes \in S
    BY <2>1, SeqWider
  <2>3. <<0>> \in S
    OBVIOUS
  <2>4. <<0>> \o SigBytes \in S
    BY <2>2, <2>3, SeqConcat
  <2>5. 3 \in Nat
    OBVIOUS
  <2> QED
    BY <2>4, <2>5, TlvFact DEF der_bit_string
<1>5. subject \in S /\ spki \in S
  OBVIOUS
<1> HIDE DEF alg, utf, utc, version, no, sig, subject, spki
<1>6. rdn \in S
  <2>1. <<der_oid(CN_OID), utf>> \in Seq(S)
    BY <1>2, OidSeqs, SeqItems
  <2> QED
    BY <2>1, DerSeqFact
<1> HIDE DEF rdn
<1>7. set \in S
  <2>1. <<rdn>> \in Seq(S)
    BY <1>6, SeqItems
  <2> QED
    BY <2>1, DerSeqFact
<1> HIDE DEF set
<1>8. issuer \in S
  <2>1. <<set>> \in Seq(S)
    BY <1>7, SeqItems
  <2> QED
    BY <2>1, DerSeqFact
<1> HIDE DEF issuer
<1>9. validity \in S
  <2>1. <<utc, utc>> \in Seq(S)
    BY <1>2, SeqItems
  <2> QED
    BY <2>1, DerSeqFact
<1> HIDE DEF validity
<1>10. tbs \in S
  <2>1. <<version, no, alg, issuer, validity, subject, spki>> \in Seq(S)
    BY <1>1, <1>3, <1>5, <1>8, <1>9, SeqItems
  <2> QED
    BY <2>1, DerSeqFact
<1> HIDE DEF tbs
<1>11. cert \in S /\ cert # <<>>
  <2>1. <<tbs, alg, sig>> \in Seq(S)
    BY <1>1, <1>4, <1>10, SeqItems
  <2> QED
    BY <2>1, DerSeqFact
<1>12. IsCertificate(cert)
  <2>1. cert = der_seq(<<der_seq(<<version, no, mldsa44_algorithm_identifier, issuer, validity,
                                   subject, spki>>),
                         mldsa44_algorithm_identifier, der_bit_string(SigBytes)>>)
    BY Zenon DEF tbs, alg, sig
  <2> HIDE DEF cert
  <2> QED
    BY <1>3, <1>5, <1>8, <1>9, <2>1, Zenon DEF IsCertificate
<1>13. build_mldsa44_certificate(der, n) = cert
  BY Zenon DEF build_mldsa44_certificate, tbs, validity, issuer, set, rdn, alg, utf, utc, version,
      no, sig, subject, spki
<1> HIDE DEF cert
<1> QED
  BY <1>11, <1>12, <1>13

LEMMA CertificateFact ==
    ASSUME NEW der, NEW n \in Nat, SubjectOf(der) \in Seq(Nat), SpkiOf(der) \in Seq(Nat)
    PROVE  /\ build_mldsa44_certificate(der, n) \in Seq(Nat)
           /\ build_mldsa44_certificate(der, n) # <<>>
BY CertificateParts

\* The certificate in the PKCS#7 object that carries it.
LEMMA Pkcs7Fact ==
    ASSUME NEW cert \in Seq(Nat)
    PROVE  cert_der_to_pkcs7(cert) \in Seq(Nat)
<1> DEFINE S == Seq(Nat)
           one == der_int(1)
           none == der_set(<<>>)
           data == der_seq(<<der_oid(PKCS7_DATA_OID)>>)
           certs == der_ctx(0, cert)
           signed == der_seq(<<one, none, data, certs, none>>)
           content == der_ctx(0, signed)
           p == der_seq(<<der_oid(PKCS7_SIGNED_DATA_OID), content>>)
<1>1. one \in S
  BY DerIntFact
<1>2. none \in S
  <2>1. <<>> \in Seq(S)
    BY SeqNone
  <2> QED
    BY <2>1, DerSeqFact
<1>3. data \in S
  <2>1. <<der_oid(PKCS7_DATA_OID)>> \in Seq(S)
    BY OidSeqs, SeqItems
  <2> QED
    BY <2>1, DerSeqFact
<1>4. 160 + 0 \in Nat
  OBVIOUS
<1>5. certs \in S
  BY <1>4, TlvFact DEF der_ctx
<1> HIDE DEF one, none, data, certs
<1>6. signed \in S
  <2>1. <<one, none, data, certs, none>> \in Seq(S)
    BY <1>1, <1>2, <1>3, <1>5, SeqItems
  <2> QED
    BY <2>1, DerSeqFact
<1> HIDE DEF signed
<1>7. content \in S
  BY <1>4, <1>6, TlvFact DEF der_ctx
<1> HIDE DEF content
<1>8. p \in S
  <2>1. <<der_oid(PKCS7_SIGNED_DATA_OID), content>> \in Seq(S)
    BY <1>7, OidSeqs, SeqItems
  <2> QED
    BY <2>1, DerSeqFact
<1>9. cert_der_to_pkcs7(cert) = p
  BY Zenon DEF cert_der_to_pkcs7, signed, content, one, none, data, certs
<1> HIDE DEF p
<1> QED
  BY <1>8, <1>9

(***************************************************************************)
(* The scan of main.c: what it passes over.                                *)
(***************************************************************************)

\* At the first octet of s stands nothing it takes for a certificate.
Passed(s) ==
    ~(s[1] = 48 /\ IsObject(s) /\ is_mldsa44_certificate_like(SubSeq(s, 1, TlvLen(s))))

\* It looks for a SEQUENCE that begins with a SEQUENCE.
LEMMA CertNeeds ==
    ASSUME NEW s \in Seq(Nat), ~Passed(s)
    PROVE  /\ s[1] = 48 /\ s[2] # 128 /\ LenBytes(s) \in 0..4 /\ 3 + LenBytes(s) <= Len(s)
           /\ s[3 + LenBytes(s)] = 48
<1> DEFINE n == TlvLen(s)
           buf == SubSeq(s, 1, n)
           h == HeaderLen(buf)
           tbs == From(buf, h + 1)
<1>1. s[1] = 48 /\ IsObject(s) /\ is_mldsa44_certificate_like(buf)
  BY DEF Passed
<1>2. /\ Len(s) \in Nat /\ Len(s) >= 2 /\ s[2] # 128 /\ LenBytes(s) <= 4 /\ n \in 0..Len(s)
  BY <1>1, SeqDomain DEF IsObject, IsTlv, TlvLen
<1>3. IsObject(buf) /\ IsObject(tbs)
  BY <1>1, Zenon DEF is_mldsa44_certificate_like
<1> HIDE DEF n
<1>4. buf \in Seq(Nat) /\ Len(buf) = n /\ \A i \in 1..n : buf[i] = s[i]
  <2>1. 1 \in Nat /\ n \in Nat /\ 1 >= 1 /\ n <= Len(s) /\ 1 <= n + 1 /\ n + 1 - 1 = n
    BY <1>2
  <2>2. \A i \in 1..n : 1 + i - 1 = i
    BY <2>1
  <2>3. /\ buf \in Seq(Nat) /\ Len(buf) = n + 1 - 1
        /\ \A i \in 1..(n + 1 - 1) : buf[i] = s[1 + i - 1]
    BY <2>1, SeqSegment
  <2> HIDE DEF buf
  <2> QED
    BY <2>1, <2>2, <2>3
<1> HIDE DEF buf
<1>5. Len(buf) >= 2 /\ h <= Len(buf)
  BY <1>3 DEF IsObject, IsTlv
<1>6. LenBytes(s) \in Nat
  <2>1. 2 \in 1..Len(s)
    BY <1>2
  <2>2. s[2] \in Nat
    BY <2>1, SeqElt
  <2> QED
    BY <2>2 DEF LenBytes
<1>7. h = 2 + LenBytes(s)
  <2>1. 2 \in 1..n
    BY <1>2, <1>4, <1>5
  <2>2. buf[2] = s[2]
    BY <1>4, <2>1
  <2> QED
    BY <2>2 DEF HeaderLen, LenBytes
<1> HIDE DEF h
<1>7a. Len(buf) = n /\ n \in Nat /\ h \in Nat /\ h <= n /\ n >= 2
  <2>1. n \in Nat /\ Len(buf) = n
    BY <1>2, <1>4
  <2>2. h \in Nat
    BY <1>6, <1>7
  <2> QED
    BY <1>5, <2>1, <2>2
<1>8. Len(tbs) = Len(buf) - h /\ (Len(tbs) >= 1 => tbs[1] = buf[h + 1])
  <2> DEFINE a == h + 1
             b == Len(buf)
  <2>1. a \in Nat /\ b \in Nat /\ a >= 1 /\ b <= Len(buf) /\ a <= b + 1 /\ a + 1 - 1 = a
        /\ b + 1 - a = b - h
    BY <1>7a
  <2> HIDE DEF a, b
  <2>2. /\ Len(SubSeq(buf, a, b)) = b + 1 - a
        /\ \A i \in 1..(b + 1 - a) : SubSeq(buf, a, b)[i] = buf[a + i - 1]
    BY <1>4, <2>1, SeqSegment
  <2>3. tbs = SubSeq(buf, a, b)
    BY DEF From, a, b
  <2> HIDE DEF tbs
  <2>4. ASSUME Len(tbs) >= 1 PROVE tbs[1] = buf[a]
    <3>1. 1 \in 1..(b + 1 - a)
      BY <2>1, <2>2, <2>3, <2>4
    <3> QED
      BY <2>1, <2>2, <2>3, <3>1
  <2> QED
    BY <2>1, <2>2, <2>3, <2>4 DEF a, b
<1>9. Len(tbs) >= 2 /\ tbs[1] = 48
  BY <1>3 DEF IsObject, IsTlv
<1> HIDE DEF tbs
<1>10. h + 1 \in 1..n /\ buf[h + 1] = 48
  <2>1. Len(tbs) = n - h /\ Len(tbs) >= 2
    BY <1>8, <1>9, <1>7a
  <2>2. h + 1 \in 1..n
    BY <1>7a, <2>1
  <2> QED
    BY <1>8, <1>9, <2>1, <2>2
<1>11. h + 1 = 3 + LenBytes(s)
  BY <1>6, <1>7
<1>12. s[h + 1] = 48
  BY <1>4, <1>10
<1>13. 3 + LenBytes(s) <= Len(s) /\ LenBytes(s) \in 0..4
  <2>1. n \in Nat /\ Len(s) \in Nat /\ n <= Len(s) /\ LenBytes(s) <= 4
    BY <1>2
  <2>2. h + 1 <= n
    BY <1>10, <1>7a
  <2> QED
    BY SMTT(60), <1>6, <1>11, <2>1, <2>2
<1> QED
  BY <1>1, <1>2, <1>11, <1>12, <1>13

\* In p, followed by r, it finds nothing.
Clean(p, r) == \A i \in 1..Len(p) : Passed(From(p \o r, i))

\* From a place in what follows p on, p does not matter.
LEMMA FromConcat ==
    ASSUME NEW S, NEW p \in Seq(S), NEW r \in Seq(S)
    PROVE  /\ \A i \in 1..Len(r) : From(p \o r, Len(p) + i) = From(r, i)
           /\ \A i \in 1..Len(p) : /\ From(p \o r, i) \in Seq(S)
                                   /\ From(p \o r, i) # <<>> /\ From(p \o r, i)[1] = p[i]
<1> DEFINE c == p \o r
           m == Len(p)
           n == Len(r)
<1>1. m \in Nat /\ n \in Nat
  BY SeqDomain
<1>2. /\ c \in Seq(S) /\ Len(c) = m + n
      /\ \A i \in 1..m : c[i] = p[i]
      /\ \A i \in 1..n : c[m + i] = r[i]
  BY SeqConcat
<1> HIDE DEF c, m, n
<1>3. ASSUME NEW i \in 1..n PROVE From(c, m + i) = From(r, i)
  <2> DEFINE a == m + i
             b == m + n
             x == SubSeq(c, a, b)
             y == SubSeq(r, i, n)
  <2>1. /\ a \in Nat /\ b \in Nat /\ a >= 1 /\ b <= Len(c) /\ a <= b + 1
        /\ b + 1 - a = n + 1 - i /\ i \in Nat /\ i >= 1 /\ n <= Len(r) /\ i <= n + 1
    BY <1>1, <1>2 DEF n
  <2>2. \A j \in 1..(n + 1 - i) : a + j - 1 = m + (i + j - 1) /\ i + j - 1 \in 1..n
    BY <1>1, <2>1
  <2> HIDE DEF a, b
  <2>3. x \in Seq(S) /\ Len(x) = b + 1 - a /\ \A j \in 1..(b + 1 - a) : x[j] = c[a + j - 1]
    BY <1>2, <2>1, SeqSegment
  <2>4. y \in Seq(S) /\ Len(y) = n + 1 - i /\ \A j \in 1..(n + 1 - i) : y[j] = r[i + j - 1]
    BY <1>1, <2>1, SeqSegment
  <2> HIDE DEF x, y
  <2>5. \A j \in 1..Len(x) : x[j] = y[j]
    <3> TAKE j \in 1..Len(x)
    <3>1. j \in 1..(n + 1 - i) /\ j \in 1..(b + 1 - a)
      BY <2>1, <2>3
    <3>2. x[j] = c[m + (i + j - 1)] /\ i + j - 1 \in 1..n
      BY <2>2, <2>3, <3>1
    <3> QED
      BY <1>2, <2>4, <3>1, <3>2
  <2>6. x = y
    <3>1. Len(x) = Len(y)
      BY <2>1, <2>3, <2>4
    <3> QED
      BY <2>3, <2>4, <2>5, <3>1, SeqSame
  <2> QED
    BY <1>2, <2>6 DEF From, x, y, a, b, n
<1>4. ASSUME NEW i \in 1..m PROVE From(c, i) \in Seq(S) /\ From(c, i) # <<>> /\ From(c, i)[1] = p[i]
  <2> DEFINE b == m + n
             x == SubSeq(c, i, b)
  <2>1. i \in Nat /\ b \in Nat /\ i >= 1 /\ b <= Len(c) /\ i <= b + 1 /\ 1 \in 1..(b + 1 - i)
        /\ i + 1 - 1 = i /\ b + 1 - i # 0
    BY <1>1, <1>2
  <2> HIDE DEF b
  <2>2. x \in Seq(S) /\ Len(x) = b + 1 - i /\ \A j \in 1..(b + 1 - i) : x[j] = c[i + j - 1]
    BY <1>2, <2>1, SeqSegment
  <2> HIDE DEF x
  <2>3. x # <<>> /\ x[1] = c[i]
    BY <2>1, <2>2, SeqEmpty
  <2>4. From(c, i) = x
    BY <1>2 DEF From, x, b
  <2> QED
    BY <1>2, <2>2, <2>3, <2>4
<1> QED
  BY <1>3, <1>4 DEF c, m, n

\* Two parts in which it finds nothing,
LEMMA CleanJoin ==
    ASSUME NEW p \in Seq(Nat), NEW q \in Seq(Nat), NEW r \in Seq(Nat),
           Clean(p, q \o r), Clean(q, r)
    PROVE  Clean(p \o q, r)
<1>0. (p \o q) \o r = p \o (q \o r)
  BY NatAssoc, Zenon
<1> DEFINE m == Len(p)
           n == Len(q)
           t == q \o r
           c == p \o q
<1>1. m \in Nat /\ n \in Nat
  BY SeqDomain
<1>2. t \in Seq(Nat) /\ Len(t) = n + Len(r) /\ Len(r) \in Nat
  BY SeqConcat, SeqDomain
<1>3. c \in Seq(Nat) /\ Len(c) = m + n
  BY SeqConcat
<1>4. c \o r = p \o t
  BY <1>0
<1>5. \A i \in 1..m : Passed(From(p \o t, i))
  BY DEF Clean
<1>6. \A i \in 1..n : Passed(From(t, i))
  BY DEF Clean
<1> HIDE DEF c, t, m, n
<1>7. \A i \in 1..Len(t) : From(p \o t, m + i) = From(t, i)
  BY <1>2, FromConcat DEF m
<1>8. ASSUME NEW i \in 1..Len(c) PROVE Passed(From(c \o r, i))
  <2>1. CASE i <= m
    <3>1. i \in 1..m
      BY <1>1, <1>3, <2>1
    <3> QED
      BY <1>4, <1>5, <3>1
  <2>2. CASE i > m
    <3>1. i - m \in 1..n /\ i - m \in 1..Len(t) /\ m + (i - m) = i
      BY <1>1, <1>2, <1>3, <2>2
    <3>2. From(p \o t, i) = From(t, i - m)
      BY <1>7, <3>1
    <3> QED
      BY <1>4, <1>6, <3>1, <3>2
  <2> QED
    BY <1>1, <2>1, <2>2
<1> QED
  BY <1>8 DEF Clean, c

\* octets none of which is the tag of a SEQUENCE,
LEMMA CleanSkip ==
    ASSUME NEW p \in Seq(Nat), NEW r \in Seq(Nat), \A i \in 1..Len(p) : p[i] # 48
    PROVE  Clean(p, r)
<1>1. ASSUME NEW i \in 1..Len(p) PROVE Passed(From(p \o r, i))
  <2>1. From(p \o r, i)[1] = p[i]
    BY FromConcat
  <2> QED
    BY <2>1 DEF Passed
<1> QED
  BY <1>1 DEF Clean

\* one octet, if something forbids that it is the tag of a certificate.
LEMMA CleanOne ==
    ASSUME NEW b \in Nat, NEW r \in Seq(Nat), Passed(<<b>> \o r)
    PROVE  Clean(<<b>>, r)
<1> DEFINE p == <<b>>
<1>1. p \in Seq(Nat) /\ Len(p) = 1
  OBVIOUS
<1> HIDE DEF p
<1>2. p \o r \in Seq(Nat)
  BY <1>1, SeqConcat
<1>3. From(p \o r, 1) = p \o r
  <2> DEFINE c == p \o r
  <2> HIDE DEF c
  <2>1. c \in Seq(Nat)
    BY <1>2 DEF c
  <2>2. SubSeq(c, 1, Len(c)) = c
    BY <2>1, SeqAll
  <2> QED
    BY <2>2 DEF From, c
<1>4. ASSUME NEW i \in 1..Len(p) PROVE Passed(From(p \o r, i))
  <2>1. i = 1
    BY <1>1
  <2>2. Passed(p \o r)
    BY DEF p
  <2> QED
    BY <1>3, <2>1, <2>2
<1>5. Clean(p, r)
  BY <1>4 DEF Clean
<1> QED
  BY <1>5 DEF p

LEMMA SeqThird ==
    ASSUME NEW S, NEW a \in S, NEW b \in S, NEW c \in S
    PROVE  Append(<<a, b>>, c) = <<a, b, c>>
<1> DEFINE s == <<a, b>>
           u == Append(s, c)
           f == <<a, b, c>>
<1>1. s \in Seq(S) /\ Len(s) = 2 /\ s[1] = a /\ s[2] = b
  OBVIOUS
<1>2. f \in Seq(S) /\ Len(f) = 3 /\ f[1] = a /\ f[2] = b /\ f[3] = c
  OBVIOUS
<1> HIDE DEF s, f
<1>3. u \in Seq(S) /\ Len(u) = 3 /\ u[1] = a /\ u[2] = b /\ u[3] = c
  <2>1. /\ u \in Seq(S) /\ Len(u) = Len(s) + 1
        /\ \A i \in 1..Len(s) : u[i] = s[i]
        /\ u[Len(s) + 1] = c
    BY <1>1, SeqAppend
  <2> HIDE DEF u
  <2> QED
    BY <1>1, <2>1
<1> HIDE DEF u
<1>4. \A i \in 1..3 : u[i] = f[i]
  <2>1. 1..3 = {1, 2, 3}
    OBVIOUS
  <2> QED
    BY <1>2, <1>3, <2>1
<1>5. u = f
  BY <1>2, <1>3, <1>4, SeqSame
<1> QED
  BY <1>5 DEF u, f, s

\* The tag of a SEQUENCE that begins with something else.
LEMMA CleanTag ==
    ASSUME NEW n \in Nat, Fits(n), NEW c \in Seq(Nat), c # <<>>, c[1] # 48
    PROVE  Clean(<<48>>, der_write_len(n) \o c)
<1> DEFINE l == der_write_len(n)
           k == Len(l)
           r == l \o c
           h == <<48>>
           s == h \o r
<1>1. /\ l \in Seq(Nat) /\ k \in 1..3 /\ l[1] # 128
      /\ k = 1 => l[1] = n /\ n < 128
      /\ k > 1 => l[1] = 127 + k
  BY LengthOctets
<1>2. Len(c) \in Nat /\ Len(c) >= 1
  BY SeqTail
<1> HIDE DEF l
<1>3. /\ r \in Seq(Nat) /\ Len(r) = k + Len(c)
      /\ \A i \in 1..k : r[i] = l[i]
      /\ \A i \in 1..Len(c) : r[k + i] = c[i]
  BY <1>1, SeqConcat
<1>4. h \in Seq(Nat) /\ Len(h) = 1 /\ h[1] = 48
  OBVIOUS
<1> HIDE DEF r, h, k
<1>5. s \in Seq(Nat) /\ \A i \in 1..Len(r) : s[1 + i] = r[i]
  <2>1. r \in Seq(Nat) /\ h \in Seq(Nat) /\ Len(h) = 1
    BY <1>3, <1>4
  <2> QED
    BY SMTT(60), <2>1, SeqOneBefore
<1> HIDE DEF s
<1>6. s[2] = l[1]
  <2>1. 1 \in 1..k /\ 1 \in 1..Len(r) /\ 1 + 1 = 2
    BY <1>1, <1>2, <1>3
  <2> QED
    BY <1>3, <1>5, <2>1
<1>7. s[2 + k] = c[1]
  <2>1. 1 \in 1..Len(c) /\ k + 1 \in 1..Len(r) /\ 1 + (k + 1) = 2 + k
    BY <1>1, <1>2, <1>3
  <2> QED
    BY <1>3, <1>5, <2>1
<1>8. 3 + LenBytes(s) = 2 + k
  <2>1. CASE k = 1
    <3>1. LenBytes(s) = 0
      BY <1>1, <1>6, <2>1 DEF LenBytes
    <3> QED
      BY <2>1, <3>1
  <2>2. CASE k > 1
    <3>1. s[2] = 127 + k
      BY <1>1, <1>6, <2>2
    <3>2. k \in Nat
      BY <1>1
    <3>3. LenBytes(s) = k - 1
      BY <2>2, <3>1, <3>2 DEF LenBytes
    <3> QED
      BY <3>2, <3>3
  <2> QED
    BY <1>1, <2>1, <2>2
<1>9. Passed(s)
  <2> SUFFICES ASSUME ~Passed(s) PROVE FALSE
    OBVIOUS
  <2>1. s[3 + LenBytes(s)] = 48
    BY <1>5, CertNeeds
  <2> QED
    BY <1>7, <1>8, <2>1
<1>10. 48 \in Nat
  OBVIOUS
<1>11. Clean(<<48>>, r)
  BY <1>3, <1>9, <1>10, CleanOne DEF s, h
<1> QED
  BY <1>11 DEF r, l

\* One octet 48 of a length field, with two octets behind it.
LEMMA Clean48 ==
    ASSUME NEW r \in Seq(Nat), Len(r) >= 2, r[1] < 128, r[2] # 48
    PROVE  Passed(<<48>> \o r)
<1> DEFINE h == <<48>>
           s == h \o r
<1>1. h \in Seq(Nat) /\ Len(h) = 1
  OBVIOUS
<1> HIDE DEF h
<1>2. s \in Seq(Nat) /\ \A i \in 1..Len(r) : s[1 + i] = r[i]
  BY <1>1, SeqOneBefore
<1> HIDE DEF s
<1>3. 1 \in 1..Len(r) /\ 2 \in 1..Len(r) /\ 1 + 1 = 2 /\ 1 + 2 = 3
  BY SeqDomain
<1>4. s[2] = r[1] /\ s[3] = r[2]
  BY <1>2, <1>3
<1>5. 3 + LenBytes(s) = 3
  <2>1. LenBytes(s) = 0
    BY <1>4 DEF LenBytes
  <2> QED
    BY <2>1
<1>6. Passed(s)
  <2> SUFFICES ASSUME ~Passed(s) PROVE FALSE
    OBVIOUS
  <2>1. s[3 + LenBytes(s)] = 48
    BY <1>2, CertNeeds
  <2> QED
    BY <1>4, <1>5, <2>1
<1> QED
  BY <1>6 DEF s, h

\* A length field, unless its last octet is 48 and followed by a length and a tag
\* that could be those of a certificate.
LEMMA CleanLength ==
    ASSUME NEW n \in Nat, n < 48 * 256, NEW r \in Seq(Nat), Len(r) >= 2, r[1] < 128,
           r[2] # 48 \/ n = 50
    PROVE  Clean(der_write_len(n), r)
<1> DEFINE a == n \div 256
           b == n % 256
<1>1. a \in Nat /\ b \in Nat /\ a < 48 /\ a * 256 + b = n
  OBVIOUS
<1> HIDE DEF a, b
<1>2. ASSUME NEW x \in Nat, x # 48 \/ n # 50
      PROVE  Clean(<<x>>, r)
  <2>1. Passed(<<x>> \o r)
    <3>1. CASE x = 48
      <4>1. r[2] # 48
        BY <1>2, <3>1
      <4> QED
        BY <3>1, <4>1, Clean48
    <3>2. CASE x # 48
      <4> DEFINE h == <<x>>
      <4>1. h \in Seq(Nat) /\ Len(h) = 1 /\ h[1] = x
        OBVIOUS
      <4> HIDE DEF h
      <4>2. (h \o r)[1] = x
        BY <4>1, SeqOneBefore
      <4> QED
        BY <3>2, <4>2 DEF Passed, h
    <3> QED
      BY <3>1, <3>2
  <2> QED
    BY <2>1, CleanOne
<1>3. CASE n < 128
  <2>1. der_write_len(n) = <<n>>
    BY <1>3 DEF der_write_len
  <2>2. n # 48 \/ n # 50
    OBVIOUS
  <2> QED
    BY <1>2, <2>1, <2>2
<1>4. CASE n >= 128 /\ n <= 255
  <2> DEFINE l == <<129, n>>
  <2>1. der_write_len(n) = l
    BY <1>4 DEF der_write_len
  <2>2. l \in Seq(Nat) /\ \A i \in 1..Len(l) : l[i] # 48
    BY <1>4
  <2> HIDE DEF l
  <2> QED
    BY <2>1, <2>2, CleanSkip
<1>5. CASE n > 255
  <2> DEFINE p == <<130, a>>
             q == <<b>>
  <2>1. der_write_len(n) = <<130, a, b>>
    BY <1>5 DEF der_write_len, a, b
  <2>2. /\ p \in Seq(Nat) /\ q \in Seq(Nat) /\ p \o q = <<130, a, b>>
        /\ \A i \in 1..Len(p) : p[i] # 48
    <3>1. p \in Seq(Nat) /\ q \in Seq(Nat) /\ Len(p) = 2 /\ p[1] = 130 /\ p[2] = a
      BY <1>1
    <3>2. p \o q = <<130, a, b>>
      <4>1. Append(p, b) = <<130, a, b>>
        <5> DEFINE N == Nat
        <5>1. 130 \in N /\ a \in N /\ b \in N
          BY <1>1
        <5> HIDE DEF N
        <5> QED
          BY <5>1, SeqThird DEF p
      <4>2. Append(p, b) = p \o q
        BY <1>1, <3>1, SeqAppendConcat
      <4> QED
        BY <4>1, <4>2
    <3>3. \A i \in 1..2 : i = 1 \/ i = 2
      OBVIOUS
    <3>4. a # 48
      BY <1>1
    <3> QED
      BY <3>1, <3>2, <3>3, <3>4
  <2>3. b # 48 \/ n # 50
    BY <1>5
  <2>4. Clean(q, r)
    BY <1>1, <1>2, <2>3
  <2> HIDE DEF p, q
  <2>5. q \o r \in Seq(Nat)
    BY <2>2, SeqConcat
  <2>6. Clean(p, q \o r)
    BY ZenonT(60), <2>2, <2>5, CleanSkip
  <2>7. Clean(p \o q, r)
    BY ZenonT(60), <2>2, <2>4, <2>6, CleanJoin
  <2> QED
    BY <2>1, <2>2, <2>7
<1> QED
  BY <1>3, <1>4, <1>5

(***************************************************************************)
(* What the RA writes is what csr_gen.c would write, below 2^16.           *)
(***************************************************************************)

LEMMA SeqAfterOne ==
    ASSUME NEW S, NEW a \in S, NEW b \in S, NEW c \in S
    PROVE  <<a>> \o <<b, c>> = <<a, b, c>>
BY SeqFromFirst

\* The RA's length fields are those of csr_gen.c.
LEMMA SameLength ==
    ASSUME NEW n \in Nat, Fits(n)
    PROVE  der_len(n) = der_write_len(n)
<1> DEFINE a == n \div 256
           b == n % 256
<1>1. a \in Nat /\ b \in Nat
  OBVIOUS
<1>2. CASE n < 128
  BY <1>2 DEF der_len, der_write_len
<1>3. CASE n >= 128 /\ n <= 255
  <2>1. ToBytes(n) = <<n>> /\ Len(<<n>>) = 1
    BY <1>3 DEF ToBytes
  <2>2. der_len(n) = <<129>> \o <<n>>
    <3>1. 128 + 1 = 129 /\ ~(n < 128)
      BY <1>3
    <3> QED
      BY <2>1, <3>1, Zenon DEF der_len
  <2>3. <<129>> \o <<n>> = <<129, n>>
    <3>1. 129 \in Nat
      OBVIOUS
    <3> QED
      BY <3>1, SeqFromFirst
  <2>4. der_write_len(n) = <<129, n>>
    BY <1>3 DEF der_write_len
  <2> QED
    BY <2>2, <2>3, <2>4
<1>4. CASE n > 255
  <2>1. ToBytes(n) = <<a, b>>
    BY <1>4 DEF ToBytes
  <2> HIDE DEF a, b
  <2>2. Len(<<a, b>>) = 2
    OBVIOUS
  <2>3. der_len(n) = <<130>> \o <<a, b>>
    <3>1. 128 + 2 = 130 /\ ~(n < 128)
      BY <1>4
    <3> QED
      BY <2>1, <2>2, <3>1, Zenon DEF der_len
  <2>4. <<130>> \o <<a, b>> = <<130, a, b>>
    <3> DEFINE N == Nat
    <3>1. 130 \in N /\ a \in N /\ b \in N
      BY <1>1
    <3> HIDE DEF N
    <3> QED
      BY <3>1, SeqAfterOne
  <2>5. der_write_len(n) = <<130, a, b>>
    BY <1>4 DEF der_write_len, a, b
  <2> QED
    BY <2>3, <2>4, <2>5
<1> QED
  BY <1>2, <1>3, <1>4

\* Octets main can decode.
Small(s) == s \in Seq(Nat) /\ Len(s) <= 8192

\* An object of the RA that is not too long is one of csr_gen.c.
LEMMA SmallObject ==
    ASSUME NEW tag \in Nat, NEW c \in Seq(Nat), Small(der_tlv(tag, c))
    PROVE  /\ Small(c) /\ Fits(Len(c)) /\ Len(c) < 48 * 256
           /\ der_tlv(tag, c) = der_wrap(tag, c)
<1> DEFINE n == Len(c)
           o == der_len(n)
           h == <<tag>>
           u == h \o o
           w == u \o c
<1>1. n \in Nat
  BY SeqDomain
<1>2. w = der_tlv(tag, c)
  BY DEF der_tlv
<1>3. o \in Seq(Nat)
  <2> HIDE DEF n
  <2>1. <<n>> \in Seq(Nat)
    BY <1>1
  <2>2. Len(ToBytes(n)) \in Nat /\ ToBytes(n) \in Seq(Nat)
    BY <1>1, ToBytesFact, SeqDomain
  <2> DEFINE m == 128 + Len(ToBytes(n))
  <2>3. m \in Nat
    BY <2>2
  <2> HIDE DEF m
  <2>4. <<m>> \in Seq(Nat)
    BY <2>3
  <2>5. <<m>> \o ToBytes(n) \in Seq(Nat)
    BY <2>2, <2>4, SeqConcat
  <2> QED
    BY <2>1, <2>5 DEF der_len, m
<1>4. h \in Seq(Nat)
  OBVIOUS
<1> HIDE DEF o, h
<1>5. u \in Seq(Nat) /\ Len(u) \in Nat
  <2>1. u \in Seq(Nat)
    BY <1>3, <1>4, SeqConcat
  <2> HIDE DEF u
  <2> QED
    BY <2>1, SeqDomain
<1> HIDE DEF u
<1>6. Len(w) = Len(u) + n
  BY <1>5, SeqConcat
<1> HIDE DEF n, w
<1>7. Len(w) <= 8192
  BY <1>2 DEF Small
<1>8. n <= 8192
  BY <1>1, <1>5, <1>6, <1>7
<1>9. n < 48 * 256 /\ Fits(n)
  BY <1>1, <1>8 DEF Fits
<1>10. o = der_write_len(n)
  BY <1>1, <1>9, SameLength DEF o
<1>11. der_tlv(tag, c) = der_wrap(tag, c)
  BY <1>2, <1>10 DEF der_wrap, w, u, h, n
<1> QED
  BY <1>8, <1>9, <1>11 DEF Small, n

\* So are the parts of what is not too long.
LEMMA SmallParts ==
    ASSUME NEW s \in Seq(Nat), NEW t \in Seq(Nat), Small(s \o t)
    PROVE  Small(s) /\ Small(t)
<1> DEFINE c == s \o t
           m == Len(s)
           n == Len(t)
<1>1. m \in Nat /\ n \in Nat
  BY SeqDomain
<1>2. Len(c) = m + n
  BY SeqConcat
<1>3. Len(c) <= 8192
  BY DEF Small
<1> HIDE DEF c, m, n
<1>4. m <= 8192 /\ n <= 8192
  BY <1>1, <1>2, <1>3
<1> QED
  BY <1>4 DEF Small, m, n

\* The items of a SEQUENCE, one after the other.
LEMMA FlatItems ==
    ASSUME NEW S, NEW ss \in Seq(Seq(S))
    PROVE  /\ Len(ss) = 2 => FlattenSeq(ss) = ss[1] \o ss[2]
           /\ Len(ss) = 3 => FlattenSeq(ss) = (ss[1] \o ss[2]) \o ss[3]
           /\ Len(ss) = 5 => FlattenSeq(ss) = (((ss[1] \o ss[2]) \o ss[3]) \o ss[4]) \o ss[5]
           /\ Len(ss) = 7 => FlattenSeq(ss) =
                 (((((ss[1] \o ss[2]) \o ss[3]) \o ss[4]) \o ss[5]) \o ss[6]) \o ss[7]
<1> DEFINE n == Len(ss)
<1> SUFFICES ASSUME n \in {2, 3, 5, 7}
             PROVE  /\ n = 2 => FlattenSeq(ss) = ss[1] \o ss[2]
                    /\ n = 3 => FlattenSeq(ss) = (ss[1] \o ss[2]) \o ss[3]
                    /\ n = 5 => FlattenSeq(ss) = (((ss[1] \o ss[2]) \o ss[3]) \o ss[4]) \o ss[5]
                    /\ n = 7 => FlattenSeq(ss) =
                          (((((ss[1] \o ss[2]) \o ss[3]) \o ss[4]) \o ss[5]) \o ss[6]) \o ss[7]
  BY Zenon
<1>1. ss # <<>>
  <2>1. n # 0
    <3> HIDE DEF n
    <3> QED
      OBVIOUS
  <2> QED
    BY <2>1, SeqEmpty
<1>2. PICK f : Flattens(f, S, ss, n)
  BY <1>1, FlatFunction
<1>3. /\ FlattenSeq(ss) = f[n] /\ f[1] = ss[1]
      /\ \A i \in 2..n : f[i] = f[i - 1] \o ss[i]
  BY <1>2 DEF Flattens
<1> HIDE DEF n
<1>4. /\ 2 - 1 = 1 /\ 3 - 1 = 2 /\ 4 - 1 = 3 /\ 5 - 1 = 4 /\ 6 - 1 = 5 /\ 7 - 1 = 6
  OBVIOUS
<1>5. f[2] = ss[1] \o ss[2]
  <2>1. 2 \in 2..n
    OBVIOUS
  <2> QED
    BY <1>3, <1>4, <2>1, Zenon
<1>6. CASE n = 2
  <2>1. FlattenSeq(ss) = ss[1] \o ss[2]
    BY <1>3, <1>5, <1>6
  <2> QED
    BY <1>6, <2>1
<1>7. CASE n \in {3, 5, 7}
  <2>1. f[3] = (ss[1] \o ss[2]) \o ss[3]
    <3>1. 3 \in 2..n
      BY <1>7
    <3> QED
      BY <1>3, <1>4, <1>5, <3>1, Zenon
  <2>2. CASE n = 3
    <3>1. FlattenSeq(ss) = (ss[1] \o ss[2]) \o ss[3]
      BY <1>3, <2>1, <2>2
    <3> QED
      BY <2>2, <3>1
  <2>3. CASE n \in {5, 7}
    <3>1. 4 \in 2..n /\ 5 \in 2..n
      BY <2>3
    <3>2. f[4] = ((ss[1] \o ss[2]) \o ss[3]) \o ss[4]
      BY <1>3, <1>4, <2>1, <3>1, Zenon
    <3>3. f[5] = (((ss[1] \o ss[2]) \o ss[3]) \o ss[4]) \o ss[5]
      BY <1>3, <1>4, <3>1, <3>2, Zenon
    <3>4. CASE n = 5
      <4>1. FlattenSeq(ss) = f[5]
        BY <1>3, <3>4
      <4> QED
        BY <3>3, <3>4, <4>1
    <3>5. CASE n = 7
      <4>1. 6 \in 2..n /\ 7 \in 2..n /\ FlattenSeq(ss) = f[7]
        BY <1>3, <3>5
      <4>2. f[6] = ((((ss[1] \o ss[2]) \o ss[3]) \o ss[4]) \o ss[5]) \o ss[6]
        BY <1>3, <1>4, <3>3, <4>1, Zenon
      <4>3. f[7] = (((((ss[1] \o ss[2]) \o ss[3]) \o ss[4]) \o ss[5]) \o ss[6]) \o ss[7]
        BY <1>3, <1>4, <4>1, <4>2, Zenon
      <4> QED
        BY <3>5, <4>1, <4>3
    <3> QED
      BY <2>3, <3>4, <3>5
  <2> QED
    BY <1>7, <2>2, <2>3
<1> QED
  BY <1>6, <1>7

(***************************************************************************)
(* The scan of main.c: what it reads.                                      *)
(***************************************************************************)

\* Of one or two octets it makes what the RA makes of them.
LEMMA BigEndianFact ==
    ASSUME NEW bytes, Len(bytes) # 4
    PROVE  BigEndian(bytes) = FromBytes(bytes)
<1> DEFINE value[i \in 0..Len(bytes)] ==
               IF i = 0 THEN 0
               ELSE IF value[i - 1] >= 256 * 256 THEN 256 * 256 * 256
               ELSE value[i - 1] * 256 + bytes[i]
<1>1. FromBytes(bytes) = value[Len(bytes)]
  BY Zenon DEF FromBytes
<1>2. BigEndian(bytes) =
        IF Len(bytes) = 4 /\ SubSeq(bytes, 1, 3) = <<255, 255, 255>>
        THEN bytes[4] - 256 ELSE value[Len(bytes)]
  BY Zenon DEF BigEndian, Huge
<1> HIDE DEF value
<1> QED
  BY <1>1, <1>2, Zenon

\* A header, and behind it at least as much as it announces.
LEMMA ScanHeader ==
    ASSUME NEW s \in Seq(Nat), NEW n \in Nat, Fits(n), 1 + Len(der_write_len(n)) + n <= Len(s),
           \A i \in 1..Len(der_write_len(n)) : s[1 + i] = der_write_len(n)[i]
    PROVE  /\ IsTlv(s) /\ HeaderLen(s) = 1 + Len(der_write_len(n))
           /\ TlvLen(s) = 1 + Len(der_write_len(n)) + n
<1> DEFINE l == der_write_len(n)
           k == Len(l)
           L == Len(s)
<1>1. k \in 1..3
  BY LengthOctets
<1>2. L \in Nat /\ 1 + k + n <= L
  BY SeqDomain
<1>3. 1 \in Nat \ {0} /\ 1 + 1 <= Len(s)
  <2> HIDE DEF k
  <2> QED
    BY <1>1, <1>2
<1>4. /\ s[1 + 1] # 128 /\ LenLen(s, 1) = k - 1 /\ LenLen(s, 1) <= 4
      /\ ContentStart(s, 1) = 1 + 1 + k /\ ContentLength(s, 1) = n
  BY <1>3, HeaderRead
<1> HIDE DEF l, k, L
<1>5. 1 + 1 = 2 /\ 1 + 2 = 3 /\ 1 + 1 + k - 1 = 1 + k /\ 2 + (k - 1) = 1 + k
  BY <1>1
<1>6. LenBytes(s) = k - 1 /\ HeaderLen(s) = 1 + k
  <2>1. LenLen(s, 1) = LenBytes(s)
    BY <1>5 DEF LenLen, LenBytes
  <2>2. LenBytes(s) = k - 1
    BY <1>4, <2>1
  <2> QED
    BY <1>5, <2>2 DEF HeaderLen
<1>7. ContentLen(s) = n
  <2> DEFINE b == SubSeq(s, 3, 1 + k)
  <2>1. Len(b) = k - 1
    <3>1. 3 \in Nat /\ 1 + k \in Nat /\ 3 >= 1 /\ 1 + k <= Len(s) /\ 3 <= (1 + k) + 1
          /\ (1 + k) + 1 - 3 = k - 1
      BY <1>1, <1>2 DEF L
    <3> QED
      BY <3>1, SeqSegment
  <2> HIDE DEF b
  <2>2. Len(b) # 4
    BY <1>1, <2>1
  <2>3. BigEndian(b) = FromBytes(b)
    BY <2>2, BigEndianFact
  <2>4. ContentLength(s, 1) = IF s[2] < 128 THEN s[2] ELSE FromBytes(b)
    <3>1. ContentStart(s, 1) - 1 = 1 + k
      <4>1. ContentStart(s, 1) = 1 + 1 + k
        BY <1>4
      <4> QED
        BY <1>1, <4>1
    <3>2. ContentLength(s, 1) =
            IF s[1 + 1] < 128 THEN s[1 + 1] ELSE FromBytes(SubSeq(s, 1 + 2, ContentStart(s, 1) - 1))
      BY Zenon DEF ContentLength
    <3>3. 1 + 1 = 2 /\ 1 + 2 = 3
      OBVIOUS
    <3>4. ContentLength(s, 1) = IF s[2] < 128 THEN s[2] ELSE FromBytes(SubSeq(s, 3, 1 + k))
      BY <3>1, <3>2, <3>3, Zenon
    <3> QED
      BY <3>4 DEF b
  <2>5. ContentLen(s) = IF s[2] < 128 THEN s[2] ELSE BigEndian(b)
    BY <1>6 DEF ContentLen, b
  <2> QED
    BY <1>4, <2>3, <2>4, <2>5
<1>8. TlvLen(s) = 1 + k + n
  BY <1>6, <1>7 DEF TlvLen
<1>9. IsTlv(s)
  <2>1. Len(s) >= 2 /\ s[2] # 128
    <3>1. L >= 2
      BY <1>1, <1>2
    <3> QED
      BY <1>4, <1>5, <3>1 DEF L
  <2>2. LenBytes(s) <= 4
    BY <1>1, <1>6
  <2>3. HeaderLen(s) <= Len(s)
    BY <1>1, <1>2, <1>6 DEF L
  <2>4. HeaderLen(s) + ContentLen(s) \in 0..Len(s)
    <3>1. 1 + k + n \in 0..L
      BY <1>1, <1>2
    <3> QED
      BY <1>6, <1>7, <3>1 DEF L
  <2> QED
    BY <2>1, <2>2, <2>3, <2>4 DEF IsTlv
<1> QED
  BY <1>6, <1>8, <1>9 DEF k, l

\* What stands between two sequences, or before one.
LEMMA MiddleOf ==
    ASSUME NEW a \in Seq(Nat), NEW m \in Seq(Nat), NEW b \in Seq(Nat)
    PROVE  /\ SubSeq((a \o m) \o b, Len(a) + 1, Len(a) + Len(m)) = m
           /\ (a \o m) \o b \in Seq(Nat)
           /\ Len((a \o m) \o b) = Len(a) + Len(m) + Len(b)
<1> DEFINE u == a \o m
           c == u \o b
           i == Len(a)
           j == Len(m)
           r == SubSeq(c, i + 1, i + j)
<1>1. i \in Nat /\ j \in Nat /\ Len(b) \in Nat
  BY SeqDomain
<1>2. u \in Seq(Nat) /\ Len(u) = i + j /\ \A x \in 1..j : u[i + x] = m[x]
  BY SeqConcat
<1> HIDE DEF u
<1>3. c \in Seq(Nat) /\ Len(c) = Len(u) + Len(b) /\ \A x \in 1..Len(u) : c[x] = u[x]
  <2>1. u \in Seq(Nat)
    BY <1>2
  <2> QED
    BY <2>1, SeqConcat
<1> HIDE DEF c, i, j
<1>4. r \in Seq(Nat) /\ Len(r) = j /\ \A x \in 1..j : r[x] = c[(i + 1) + x - 1]
  <2>1. /\ i + 1 \in Nat /\ i + j \in Nat /\ i + 1 >= 1 /\ i + j <= Len(c) /\ i + 1 <= (i + j) + 1
        /\ (i + j) + 1 - (i + 1) = j
    BY <1>1, <1>2, <1>3
  <2>2. c \in Seq(Nat)
    BY <1>3
  <2> DEFINE p == i + 1
             q == i + j
  <2>3. p \in Nat /\ q \in Nat /\ p >= 1 /\ q <= Len(c) /\ p <= q + 1 /\ q + 1 - p = j
    BY <2>1
  <2> HIDE DEF p, q
  <2>4. /\ SubSeq(c, p, q) \in Seq(Nat) /\ Len(SubSeq(c, p, q)) = q + 1 - p
        /\ \A x \in 1..(q + 1 - p) : SubSeq(c, p, q)[x] = c[p + x - 1]
    BY <2>2, <2>3, SeqSegment
  <2> QED
    BY <2>3, <2>4 DEF p, q
<1> HIDE DEF r
<1>5. \A x \in 1..Len(r) : r[x] = m[x]
  <2> TAKE x \in 1..Len(r)
  <2>1. x \in 1..j /\ i + x \in 1..Len(u) /\ (i + 1) + x - 1 = i + x
    BY <1>1, <1>2, <1>4
  <2> QED
    BY <1>2, <1>3, <1>4, <2>1
<1>6. Len(r) = Len(m)
  BY <1>4 DEF j
<1>7. r = m
  BY <1>4, <1>5, <1>6, SeqSame
<1>8. Len(c) = i + j + Len(b)
  BY <1>2, <1>3
<1> QED
  BY <1>3, <1>7, <1>8 DEF r, c, u, i, j

LEMMA FrontOf ==
    ASSUME NEW m \in Seq(Nat), NEW b \in Seq(Nat)
    PROVE  SubSeq(m \o b, 1, Len(m)) = m
<1> DEFINE j == Len(m)
<1>1. <<>> \in Seq(Nat) /\ Len(<<>>) = 0
  BY SeqNone
<1>2. SubSeq((<<>> \o m) \o b, 0 + 1, 0 + j) = m
  BY <1>1, MiddleOf
<1>3. <<>> \o m = m
  BY SeqUnit
<1>4. 0 + 1 = 1 /\ 0 + j = j
  BY SeqDomain
<1> QED
  BY <1>2, <1>3, <1>4

\* An object in front of anything.
LEMMA ScanRead ==
    ASSUME NEW tag \in Nat, NEW c \in Seq(Nat), Fits(Len(c)), NEW r \in Seq(Nat),
           NEW s, s = der_wrap(tag, c) \o r
    PROVE  /\ s \in Seq(Nat) /\ s[1] = tag /\ IsTlv(s) /\ TlvLen(s) = Len(der_wrap(tag, c))
           /\ From(s, HeaderLen(s) + 1) = c \o r
           /\ From(s, TlvLen(s) + 1) = r
           /\ SubSeq(s, 1, TlvLen(s)) = der_wrap(tag, c)
<1> DEFINE w == der_wrap(tag, c)
           n == Len(c)
           l == der_write_len(n)
           k == Len(l)
<1>1. n \in Nat /\ Fits(n)
  BY SeqDomain
<1>2. /\ w \in Seq(Nat) /\ Len(w) = 1 + k + n /\ w[1] = tag
      /\ \A i \in 1..k : w[1 + i] = l[i]
  BY WrapFact
<1> HIDE DEF n
<1>3. l \in Seq(Nat) /\ k \in 1..3
  BY <1>1, LengthOctets
<1> HIDE DEF w, l, k
<1>4. /\ s \in Seq(Nat) /\ Len(s) = Len(w) + Len(r)
      /\ \A i \in 1..Len(w) : s[i] = w[i]
  BY ZenonT(60), <1>2, SeqConcat DEF w
<1>5. Len(s) \in Nat /\ Len(r) \in Nat /\ Len(w) \in Nat
  BY <1>2, <1>4, SeqDomain
<1>6. s[1] = tag
  <2>1. 1 \in 1..Len(w)
    BY <1>1, <1>2, <1>3
  <2> QED
    BY <1>2, <1>4, <2>1
<1>7. \A i \in 1..k : s[1 + i] = l[i]
  <2> TAKE i \in 1..k
  <2>1. 1 + i \in 1..Len(w)
    BY <1>1, <1>2, <1>3
  <2> QED
    BY <1>2, <1>4, <2>1
<1>8. IsTlv(s) /\ HeaderLen(s) = 1 + k /\ TlvLen(s) = Len(w)
  <2>1. 1 + k + n <= Len(s)
    BY <1>1, <1>2, <1>3, <1>4, <1>5
  <2>2. IsTlv(s) /\ HeaderLen(s) = 1 + k /\ TlvLen(s) = 1 + k + n
    BY <1>1, <1>4, <1>7, <2>1, ScanHeader DEF l, k
  <2> QED
    BY <1>2, <2>2
<1>9. SubSeq(s, 1, Len(w)) = w
  BY <1>2, FrontOf DEF w
<1>10. From(s, Len(w) + 1) = r
  BY <1>2, SeqWithout DEF From, w
<1>11. From(s, 1 + k + 1) = c \o r
  <2> DEFINE h == <<tag>>
             u == h \o l
             y == c \o r
  <2>1. h \in Seq(Nat) /\ Len(h) = 1
    OBVIOUS
  <2> HIDE DEF h
  <2>2. u \in Seq(Nat) /\ Len(u) = 1 + k
    BY <1>3, <2>1, SeqOneBefore DEF k
  <2>3. w = u \o c
    BY DEF w, der_wrap, u, h, l, n
  <2> HIDE DEF u
  <2>4. s = u \o y
    <3>1. (u \o c) \o r = u \o (c \o r)
      BY <2>2, NatAssoc
    <3> QED
      BY <2>3, <3>1 DEF w
  <2>5. y \in Seq(Nat)
    BY SeqConcat
  <2> HIDE DEF y
  <2>6. SubSeq(u \o y, Len(u) + 1, Len(u \o y)) = y
    BY <2>2, <2>5, SeqWithout
  <2> QED
    BY <2>2, <2>4, <2>6 DEF From, y
<1> QED
  BY <1>4, <1>6, <1>8, <1>9, <1>10, <1>11 DEF w

(***************************************************************************)
(* What the certificate is to the scan.                                    *)
(***************************************************************************)

\* It mentions ML-DSA-44.
Holds(s) == \E a \in Seq(Nat), b \in Seq(Nat) : s = (a \o oid_tlv) \o b

LEMMA HoldsFact ==
    ASSUME NEW s, Holds(s)
    PROVE  s \in Seq(Nat) /\ der_contains_mldsa44_oid(s)
<1>1. PICK a \in Seq(Nat), b \in Seq(Nat) : s = (a \o oid_tlv) \o b
  BY DEF Holds
<1>2. oid_tlv \in Seq(Nat) /\ Len(oid_tlv) = 11
  BY DEF oid_tlv
<1> DEFINE i == Len(a) + 1
<1>3. /\ SubSeq(s, Len(a) + 1, Len(a) + Len(oid_tlv)) = oid_tlv
      /\ s \in Seq(Nat) /\ Len(s) = Len(a) + Len(oid_tlv) + Len(b)
  BY <1>1, <1>2, MiddleOf
<1>4. Len(a) \in Nat /\ Len(b) \in Nat
  BY SeqDomain
<1>5. i \in 1..(Len(s) + 1 - Len(oid_tlv)) /\ i + Len(oid_tlv) - 1 = Len(a) + Len(oid_tlv)
  BY <1>2, <1>3, <1>4
<1>6. SubSeq(s, i, i + Len(oid_tlv) - 1) = oid_tlv
  BY <1>3, <1>5
<1> HIDE DEF i
<1> QED
  BY <1>3, <1>5, <1>6 DEF der_contains_mldsa44_oid

\* More octets on either side do not change that,
LEMMA HoldsMore ==
    ASSUME NEW s, NEW t \in Seq(Nat), Holds(s)
    PROVE  Holds(s \o t) /\ Holds(t \o s)
<1>1. PICK a \in Seq(Nat), b \in Seq(Nat) : s = (a \o oid_tlv) \o b
  BY DEF Holds
<1>2. oid_tlv \in Seq(Nat)
  BY DEF oid_tlv
<1>3. a \o oid_tlv \in Seq(Nat) /\ b \o t \in Seq(Nat) /\ t \o a \in Seq(Nat)
  BY <1>2, SeqConcat
<1>4. s \o t = (a \o oid_tlv) \o (b \o t)
  <2>1. ((a \o oid_tlv) \o b) \o t = (a \o oid_tlv) \o (b \o t)
    <3>1. a \o oid_tlv \in Seq(Nat)
      BY <1>3
    <3> QED
      BY <3>1, NatAssoc
  <2> QED
    BY <1>1, <2>1, Zenon
<1>5. t \o s = ((t \o a) \o oid_tlv) \o b
  <2>1. t \o s = (t \o (a \o oid_tlv)) \o b
    <3>1. (t \o (a \o oid_tlv)) \o b = t \o ((a \o oid_tlv) \o b)
      <4>1. a \o oid_tlv \in Seq(Nat)
        BY <1>3
      <4> QED
        BY <4>1, NatAssoc
    <3> QED
      BY <1>1, <3>1, Zenon
  <2>2. t \o (a \o oid_tlv) = (t \o a) \o oid_tlv
    BY ZenonT(60), <1>2, NatAssoc
  <2> QED
    BY <2>1, <2>2, Zenon
<1> QED
  BY <1>3, <1>4, <1>5, Zenon DEF Holds

\* nor does a header.
LEMMA HoldsWrap ==
    ASSUME NEW tag \in Nat, NEW c \in Seq(Nat), Fits(Len(c)), Holds(c)
    PROVE  Holds(der_wrap(tag, c))
<1> DEFINE n == Len(c)
           l == der_write_len(n)
           h == <<tag>>
           u == h \o l
<1>1. n \in Nat
  BY SeqDomain
<1> HIDE DEF n
<1>2. l \in Seq(Nat)
  <2>1. Fits(n)
    BY DEF n
  <2> QED
    BY <1>1, <2>1, LengthOctets
<1>3. h \in Seq(Nat)
  OBVIOUS
<1> HIDE DEF l, h
<1>4. u \in Seq(Nat)
  BY <1>2, <1>3, SeqConcat
<1> HIDE DEF u
<1>5. Holds(u \o c)
  BY <1>4, HoldsMore
<1> QED
  BY <1>5 DEF der_wrap, u, h, l, n

\* The RA's objects are those of csr_gen.c, below 2^16.
LEMMA TlvIsWrap ==
    ASSUME NEW tag, NEW c \in Seq(Nat), Fits(Len(c))
    PROVE  der_tlv(tag, c) = der_wrap(tag, c)
<1> DEFINE n == Len(c)
<1>1. n \in Nat /\ Fits(n)
  BY SeqDomain
<1> HIDE DEF n
<1>2. der_len(n) = der_write_len(n)
  BY <1>1, SameLength
<1> QED
  BY <1>2, Zenon DEF der_tlv, der_wrap, n

\* The object identifier as both sides write it.
LEMMA OidTlv == der_wrap(6, MLDSA44_OID) = oid_tlv
<1> DEFINE h == <<6>> \o <<9>>
           c == h \o MLDSA44_OID
<1>1. MLDSA44_OID \in Seq(Nat) /\ Len(MLDSA44_OID) = 9
  BY DEF MLDSA44_OID
<1>2. h = <<6, 9>>
  <2>1. 6 \in Nat /\ 9 \in Nat
    OBVIOUS
  <2> QED
    BY <2>1, SeqFromFirst
<1>3. der_wrap(6, MLDSA44_OID) = c
  <2>1. der_write_len(9) = <<9>>
    BY DEF der_write_len
  <2> QED
    BY <1>1, <2>1, Zenon DEF der_wrap
<1>4. h \in Seq(Nat) /\ Len(h) = 2 /\ h[1] = 6 /\ h[2] = 9
  BY <1>2
<1> HIDE DEF h
<1>5. /\ c \in Seq(Nat) /\ Len(c) = 2 + 9
      /\ \A i \in 1..2 : c[i] = h[i]
      /\ \A i \in 1..9 : c[2 + i] = MLDSA44_OID[i]
  <2>1. MLDSA44_OID \in Seq(Nat) /\ h \in Seq(Nat)
    BY <1>1, <1>4
  <2>2. /\ c \in Seq(Nat) /\ Len(c) = Len(h) + Len(MLDSA44_OID)
        /\ \A i \in 1..Len(h) : c[i] = h[i]
        /\ \A i \in 1..Len(MLDSA44_OID) : c[Len(h) + i] = MLDSA44_OID[i]
    BY <2>1, SeqConcat
  <2> HIDE DEF c
  <2> QED
    BY <1>1, <1>4, <2>2
<1> HIDE DEF c
<1>6. oid_tlv \in Seq(Nat) /\ Len(oid_tlv) = 11
      /\ oid_tlv[1] = 6 /\ oid_tlv[2] = 9
      /\ \A i \in 1..9 : oid_tlv[2 + i] = MLDSA44_OID[i]
  <2>1. oid_tlv \in Seq(Nat) /\ Len(oid_tlv) = 11 /\ oid_tlv[1] = 6 /\ oid_tlv[2] = 9
    BY DEF oid_tlv
  <2>2. ASSUME NEW i \in 1..9 PROVE oid_tlv[2 + i] = MLDSA44_OID[i]
    <3>1. i \in {1, 2, 3, 4, 5, 6, 7, 8, 9}
      OBVIOUS
    <3> QED
      BY <3>1 DEF oid_tlv, MLDSA44_OID
  <2> QED
    BY <2>1, <2>2
<1>7. \A i \in 1..11 : c[i] = oid_tlv[i]
  <2> TAKE i \in 1..11
  <2>1. i = 1 \/ i = 2 \/ (i - 2 \in 1..9 /\ 2 + (i - 2) = i)
    OBVIOUS
  <2>2. c[1] = 6 /\ c[2] = 9
    BY <1>4, <1>5
  <2> QED
    BY <1>5, <1>6, <2>1, <2>2
<1>8. c = oid_tlv
  <2>1. c \in Seq(Nat) /\ oid_tlv \in Seq(Nat) /\ Len(c) = Len(oid_tlv)
    BY <1>5, <1>6
  <2>2. \A i \in 1..Len(c) : c[i] = oid_tlv[i]
    BY <1>5, <1>7
  <2> QED
    BY <2>1, <2>2, SeqSame
<1> QED
  BY <1>3, <1>8

LEMMA AlgorithmHolds ==
    /\ Holds(mldsa44_algorithm_identifier)
    /\ \E c \in Seq(Nat) : Fits(Len(c)) /\ mldsa44_algorithm_identifier = der_wrap(48, c)
<1> DEFINE o == der_oid(MLDSA44_OID)
<1>1. MLDSA44_OID \in Seq(Nat) /\ Fits(Len(MLDSA44_OID))
  BY DEF MLDSA44_OID, Fits
<1>2. o = oid_tlv
  BY <1>1, TlvIsWrap, OidTlv DEF der_oid
<1>3. oid_tlv \in Seq(Nat) /\ Fits(Len(oid_tlv))
  BY DEF oid_tlv, Fits
<1>4. mldsa44_algorithm_identifier = der_wrap(48, oid_tlv)
  <2>1. FlattenSeq(<<oid_tlv>>) = oid_tlv
    BY <1>3, FlatOne
  <2>2. der_tlv(48, oid_tlv) = der_wrap(48, oid_tlv)
    BY <1>3, TlvIsWrap
  <2> QED
    BY <1>2, <2>1, <2>2, Zenon DEF mldsa44_algorithm_identifier, der_seq
<1>5. Holds(oid_tlv)
  <2>1. <<>> \in Seq(Nat)
    BY SeqNone
  <2>2. (<<>> \o oid_tlv) \o <<>> = oid_tlv
    BY <1>3, SeqUnit
  <2> QED
    BY <2>1, <2>2, Zenon DEF Holds
<1>6. Holds(der_wrap(48, oid_tlv))
  BY <1>3, <1>5, HoldsWrap
<1> QED
  BY <1>3, <1>4, <1>6, Zenon

\* How it reads an object in front of r.
Reads(s, tag, c, r) ==
    /\ s \in Seq(Nat) /\ s[1] = tag /\ IsTlv(s) /\ TlvLen(s) = Len(der_wrap(tag, c))
    /\ From(s, HeaderLen(s) + 1) = c \o r
    /\ From(s, TlvLen(s) + 1) = r
    /\ SubSeq(s, 1, TlvLen(s)) = der_wrap(tag, c)

LEMMA ScanReads ==
    ASSUME NEW tag \in Nat, NEW c \in Seq(Nat), Fits(Len(c)), NEW r \in Seq(Nat)
    PROVE  Reads(der_wrap(tag, c) \o r, tag, c, r)
BY ScanRead DEF Reads

\* A SEQUENCE of a SEQUENCE and a SEQUENCE that mention it and a BIT STRING.
LikeCert(c1, c2, c3) ==
    (der_wrap(48, c1) \o der_wrap(48, c2)) \o der_wrap(3, c3)

LEMMA CertLike ==
    ASSUME NEW c1 \in Seq(Nat), NEW c2 \in Seq(Nat), NEW c3 \in Seq(Nat),
           Fits(Len(c1)), Fits(Len(c2)), Fits(Len(c3)), Fits(Len(LikeCert(c1, c2, c3))),
           Holds(der_wrap(48, c1)), Holds(der_wrap(48, c2))
    PROVE  is_mldsa44_certificate_like(der_wrap(48, LikeCert(c1, c2, c3)))
<1> DEFINE tbs == der_wrap(48, c1)
           alg == der_wrap(48, c2)
           sig == der_wrap(3, c3)
           c == LikeCert(c1, c2, c3)
           crt == der_wrap(48, c)
           r1 == alg \o sig
           t1 == tbs \o r1
<1>1. 48 \in Nat /\ 3 \in Nat /\ <<>> \in Seq(Nat)
  BY SeqNone
<1>2. tbs \in Seq(Nat) /\ alg \in Seq(Nat) /\ sig \in Seq(Nat)
  BY <1>1, WrapFact
<1>3. Reads(sig \o <<>>, 3, c3, <<>>)
  BY <1>1, ScanReads
<1>4. Reads(r1, 48, c2, sig)
  <2>1. 48 \in Nat /\ sig \in Seq(Nat)
    BY <1>1, <1>2
  <2> HIDE DEF sig
  <2> QED
    BY <2>1, ScanReads
<1>5. Reads(t1, 48, c1, r1)
  <2> HIDE DEF alg, sig
  <2>1. r1 \in Seq(Nat)
    BY <1>2, SeqConcat
  <2> HIDE DEF r1
  <2> QED
    BY <1>1, <2>1, ScanReads
<1>6. Holds(tbs) /\ Holds(alg) /\ Fits(Len(c))
  OBVIOUS
<1>7. c = (tbs \o alg) \o sig
  BY DEF LikeCert
<1> HIDE DEF tbs, alg, sig, c
<1>8. t1 \in Seq(Nat) /\ c = t1
  <2>1. t1 \in Seq(Nat)
    BY <1>5 DEF Reads
  <2>2. t1 = tbs \o (alg \o sig)
    OBVIOUS
  <2> HIDE DEF r1, t1, crt
  <2>3. (tbs \o alg) \o sig = tbs \o (alg \o sig)
    <3>1. tbs \in Seq(Nat)
      BY <1>2
    <3>2. alg \in Seq(Nat)
      BY <1>2
    <3>3. sig \in Seq(Nat)
      BY <1>2
    <3> QED
      BY <3>1, <3>2, <3>3, NatAssoc, ZenonT(60)
  <2> QED
    BY <1>7, <2>1, <2>2, <2>3, Zenon
<1>9. Reads(crt \o <<>>, 48, c, <<>>) /\ crt \in Seq(Nat)
  <2>1. c \in Seq(Nat)
    BY <1>8
  <2>2. crt \in Seq(Nat)
    BY <1>1, <1>6, <2>1, WrapFact
  <2>3. Reads(crt \o <<>>, 48, c, <<>>)
    BY <1>1, <1>6, <2>1, ScanReads
  <2> QED
    BY <2>2, <2>3
<1> HIDE DEF r1, t1, crt
<1>10. sig \o <<>> = sig /\ crt \o <<>> = crt /\ t1 \o <<>> = t1
  BY <1>2, <1>8, <1>9, SeqUnit
<1>11. IsTlv(sig) /\ TlvLen(sig) = Len(sig) /\ sig[1] = 3
  BY <1>3, <1>10, Zenon DEF Reads, sig
<1>12. IsObject(r1) /\ From(r1, TlvLen(r1) + 1) = sig /\ SubSeq(r1, 1, TlvLen(r1)) = alg
  BY <1>4, Zenon DEF Reads, IsObject, alg
<1>13. IsObject(t1) /\ From(t1, TlvLen(t1) + 1) = r1 /\ SubSeq(t1, 1, TlvLen(t1)) = tbs
  BY <1>5, Zenon DEF Reads, IsObject, tbs
<1>14. IsObject(crt) /\ TlvLen(crt) = Len(crt) /\ From(crt, HeaderLen(crt) + 1) = t1
  <2>1. Reads(crt, 48, t1, <<>>)
    BY <1>8, <1>9, <1>10, Zenon
  <2>2. crt = der_wrap(48, t1)
    BY <1>8 DEF crt
  <2> QED
    BY <1>10, <2>1, <2>2, Zenon DEF Reads, IsObject
<1>15. der_contains_mldsa44_oid(tbs) /\ der_contains_mldsa44_oid(alg)
  BY <1>6, HoldsFact
<1>16. is_mldsa44_certificate_like(crt)
  BY <1>11, <1>12, <1>13, <1>14, <1>15, Zenon DEF is_mldsa44_certificate_like
<1> QED
  BY <1>16 DEF crt, c

\* The beginning of what is left of a sequence.
LEMMA BeginningOfRest ==
    ASSUME NEW data \in Seq(Nat), NEW i \in 1..Len(data)
    PROVE  /\ From(data, i) \in Seq(Nat) /\ Len(From(data, i)) = Len(data) + 1 - i
           /\ From(data, i)[1] = data[i]
           /\ \A n \in 0..(Len(data) + 1 - i) :
                 SubSeq(From(data, i), 1, n) = SubSeq(data, i, i + n - 1)
<1> DEFINE L == Len(data)
           f == SubSeq(data, i, L)
<1>1. L \in Nat /\ i \in Nat /\ i >= 1 /\ i <= L /\ L <= Len(data) /\ i <= L + 1 /\ i + 1 - 1 = i
      /\ 1 \in 1..(L + 1 - i)
  BY SeqDomain
<1> HIDE DEF L
<1>2. /\ f \in Seq(Nat) /\ Len(f) = L + 1 - i
      /\ \A j \in 1..(L + 1 - i) : f[j] = data[i + j - 1]
  BY <1>1, SeqSegment
<1>3. From(data, i) = f
  BY DEF From, L
<1> HIDE DEF f
<1>4. f[1] = data[i]
  BY <1>1, <1>2
<1>5. ASSUME NEW n \in 0..(L + 1 - i)
      PROVE  SubSeq(f, 1, n) = SubSeq(data, i, i + n - 1)
  <2> DEFINE x == SubSeq(f, 1, n)
             b == i + n - 1
             y == SubSeq(data, i, b)
  <2>1. n \in Nat /\ 1 \in Nat /\ 1 >= 1 /\ n <= Len(f) /\ 1 <= n + 1 /\ n + 1 - 1 = n
    BY <1>1, <1>2
  <2>2. b \in Nat /\ b <= Len(data) /\ i <= b + 1 /\ b + 1 - i = n
    BY <1>1, <2>1
  <2>3. \A j \in 1..n : 1 + j - 1 = j /\ j \in 1..(L + 1 - i)
    BY <1>1, <2>1
  <2> HIDE DEF b
  <2>4. /\ x \in Seq(Nat) /\ Len(x) = n + 1 - 1
        /\ \A j \in 1..(n + 1 - 1) : x[j] = f[1 + j - 1]
    <3>1. f \in Seq(Nat)
      BY <1>2
    <3> QED
      BY <2>1, <3>1, SeqSegment
  <2>5. y \in Seq(Nat) /\ Len(y) = b + 1 - i /\ \A j \in 1..(b + 1 - i) : y[j] = data[i + j - 1]
    BY <1>1, <2>2, SeqSegment
  <2> HIDE DEF x, y
  <2>6. Len(x) = n /\ Len(y) = n
    BY <2>1, <2>2, <2>4, <2>5
  <2>7. \A j \in 1..n : x[j] = y[j]
    <3> TAKE j \in 1..n
    <3>1. x[j] = f[j]
      BY <2>1, <2>3, <2>4
    <3>2. f[j] = data[i + j - 1]
      BY <1>2, <2>3
    <3>3. y[j] = data[i + j - 1]
      BY <2>2, <2>5
    <3> QED
      BY <3>1, <3>2, <3>3
  <2>8. x = y
    <3>1. Len(x) = Len(y) /\ \A j \in 1..Len(x) : x[j] = y[j]
      BY <2>6, <2>7
    <3> QED
      BY <2>4, <2>5, <3>1, SeqSame
  <2> QED
    BY <2>8 DEF x, y, b
<1> QED
  BY <1>2, <1>3, <1>4, <1>5 DEF L

\* Where it finds a certificate.
LEMMA ScanAt ==
    ASSUME NEW data \in Seq(Nat), NEW i \in 1..Len(data)
    PROVE  /\ IsCertAt(data, i) <=> ~Passed(From(data, i))
           /\ IsObject(From(data, i)) =>
                 ObjectAt(data, i) = SubSeq(From(data, i), 1, TlvLen(From(data, i)))
<1> DEFINE f == From(data, i)
           n == TlvLen(f)
<1>1. /\ f \in Seq(Nat) /\ Len(f) = Len(data) + 1 - i /\ f[1] = data[i]
      /\ \A k \in 0..(Len(data) + 1 - i) : SubSeq(f, 1, k) = SubSeq(data, i, i + k - 1)
  BY BeginningOfRest
<1>2. ObjectAt(data, i) = SubSeq(data, i, i + n - 1)
  BY Zenon DEF ObjectAt
<1> HIDE DEF f, n
<1>3. ASSUME IsObject(f) PROVE ObjectAt(data, i) = SubSeq(f, 1, n)
  <2>1. n \in 0..Len(f)
    BY <1>3, Zenon DEF IsObject, IsTlv, TlvLen, n
  <2> QED
    BY <1>1, <1>2, <2>1
<1>4. IsCertAt(data, i) <=> (f[1] = 48 /\ IsObject(f) /\ is_mldsa44_certificate_like(SubSeq(f, 1, n)))
  <2>1. IsCertAt(data, i) <=>
           (data[i] = 48 /\ IsObject(f) /\ is_mldsa44_certificate_like(ObjectAt(data, i)))
    BY Zenon DEF IsCertAt, f
  <2>2. f[1] = data[i]
    BY <1>1
  <2> QED
    BY <1>3, <2>1, <2>2, Zenon
<1>5. IsCertAt(data, i) <=> ~Passed(f)
  BY <1>4, Zenon DEF Passed, n
<1> QED
  BY <1>3, <1>5, Zenon DEF f, n

\* A certificate with x behind and p in front of it stops the scan.
Stops(p, crt, x, data) ==
    /\ x \in Seq(Nat) /\ ~Passed(x) /\ Len(p) \in Nat
    /\ data \in Seq(Nat) /\ Len(data) = Len(p) + Len(crt) + 2
    /\ Len(data) \in Nat /\ From(data, Len(p) + 1) = x
    /\ Len(p) + 1 \in CertPositions(data)
    /\ ObjectAt(data, Len(p) + 1) = crt

LEMMA CertHere ==
    ASSUME NEW p \in Seq(Nat), NEW c \in Seq(Nat), Fits(Len(c)), NEW t \in Seq(Nat),
           Len(t) = 2, Len(der_wrap(48, c)) >= 3, is_mldsa44_certificate_like(der_wrap(48, c))
    PROVE  Stops(p, der_wrap(48, c), der_wrap(48, c) \o t, p \o (der_wrap(48, c) \o t))
<1> DEFINE crt == der_wrap(48, c)
           x == crt \o t
           data == p \o x
           m == Len(p)
<1>1. Reads(x, 48, c, t)
  <2>1. 48 \in Nat
    OBVIOUS
  <2> QED
    BY <2>1, ScanReads
<1>2. crt \in Seq(Nat) /\ Len(crt) >= 3
  BY WrapFact
<1>3. x \in Seq(Nat) /\ x[1] = 48 /\ IsTlv(x) /\ SubSeq(x, 1, TlvLen(x)) = crt
  BY <1>1 DEF Reads
<1>4. Len(x) = Len(crt) + 2 /\ Len(crt) \in Nat /\ Len(crt) >= 3
  <2> HIDE DEF crt
  <2>1. crt \in Seq(Nat)
    BY <1>2
  <2>2. Len(x) = Len(crt) + Len(t)
    BY <2>1, SeqConcat
  <2>3. Len(crt) \in Nat
    BY <2>1, SeqDomain
  <2> HIDE DEF x
  <2> QED
    BY <1>2, <2>2, <2>3
<1>5. is_mldsa44_certificate_like(crt)
  OBVIOUS
<1> HIDE DEF crt, x
<1>6. ~Passed(x) /\ IsObject(x)
  BY <1>3, <1>5, Zenon DEF Passed, IsObject
<1>7. m \in Nat /\ data \in Seq(Nat) /\ Len(data) = m + Len(x) /\ Len(data) \in Nat
  <2>1. data \in Seq(Nat) /\ Len(data) = m + Len(x)
    BY <1>3, SeqConcat
  <2> HIDE DEF data
  <2> QED
    BY <2>1, SeqDomain
<1>8. From(data, m + 1) = x
  <2>1. 1 \in 1..Len(x)
    BY <1>4
  <2>2. From(data, m + 1) = From(x, 1)
    BY <1>3, <2>1, FromConcat
  <2>3. From(x, 1) = x
    BY <1>3, SeqAll DEF From
  <2> QED
    BY <2>2, <2>3
<1> HIDE DEF m, data
<1>9. m + 1 \in 1..(Len(data) - 4) /\ m + 1 \in 1..Len(data)
  BY SMTT(60), <1>4, <1>7
<1>10. m + 1 \in CertPositions(data)
  <2>1. IsCertAt(data, m + 1)
    BY <1>6, <1>7, <1>8, <1>9, ScanAt
  <2> QED
    BY <1>9, <2>1 DEF CertPositions
<1>11. ObjectAt(data, m + 1) = crt
  <2>1. ObjectAt(data, m + 1) = SubSeq(x, 1, TlvLen(x))
    BY <1>6, <1>7, <1>8, <1>9, ScanAt
  <2> QED
    BY <1>3, <2>1
<1>12. Len(data) = m + Len(crt) + 2
  BY <1>4, <1>7
<1>13. Stops(p, crt, x, data)
  BY <1>3, <1>6, <1>7, <1>8, <1>10, <1>11, <1>12 DEF Stops, m
<1> QED
  BY <1>13 DEF data, x, crt

\* The first certificate behind octets in which there is none.
LEMMA FindFirst ==
    ASSUME NEW p \in Seq(Nat), NEW c \in Seq(Nat), Fits(Len(c)), NEW t \in Seq(Nat),
           Len(t) = 2, Len(der_wrap(48, c)) >= 3, is_mldsa44_certificate_like(der_wrap(48, c)),
           Clean(p, der_wrap(48, c) \o t)
    PROVE  find_first_der_certificate(p \o (der_wrap(48, c) \o t)) = der_wrap(48, c)
<1> DEFINE crt == der_wrap(48, c)
           x == crt \o t
           data == p \o x
           m == Len(p)
           P == CertPositions(data)
<1>1. /\ m \in Nat /\ data \in Seq(Nat) /\ Len(data) \in Nat /\ From(data, m + 1) = x
      /\ m + 1 \in P /\ ObjectAt(data, m + 1) = crt
  <2>1. Stops(p, crt, x, data)
    BY CertHere
  <2> HIDE DEF data, crt, x
  <2> QED
    BY <2>1 DEF Stops
<1>2. \A i \in 1..m : Passed(From(data, i))
  BY DEF Clean
<1> HIDE DEF data, m, crt, x
<1>3. \A i \in 1..(Len(data) - 4) : i \in 1..Len(data)
  BY <1>1
<1>4. \A i \in P : i \in Nat /\ m + 1 <= i
  <2> TAKE i \in P
  <2>1. i \in 1..(Len(data) - 4) /\ IsCertAt(data, i)
    BY DEF CertPositions
  <2>2. ~Passed(From(data, i))
    BY <1>1, <1>3, <2>1, ScanAt
  <2>3. i \notin 1..m
    BY <1>2, <2>2
  <2> QED
    BY <1>1, <2>1, <2>3
<1> HIDE DEF P
<1>5. find_first_der_certificate(data) =
         IF P = {} THEN <<>> ELSE ObjectAt(data, CHOOSE i \in P : \A j \in P : i <= j)
  BY Zenon DEF find_first_der_certificate, P
<1> DEFINE a == CHOOSE i \in P : \A j \in P : i <= j
<1>6. a \in P /\ \A j \in P : a <= j
  <2>1. \E i \in P : \A j \in P : i <= j
    BY <1>1, <1>4
  <2> QED
    BY <2>1, Zenon
<1> HIDE DEF a
<1>7. a = m + 1
  <2>1. a \in Nat /\ m + 1 <= a /\ a <= m + 1
    BY <1>1, <1>4, <1>6
  <2> QED
    BY <1>1, <2>1
<1>8. find_first_der_certificate(data) = ObjectAt(data, m + 1)
  <2>1. P # {}
    BY <1>1
  <2> QED
    BY <1>5, <1>7, <2>1, Zenon DEF a
<1> QED
  BY <1>1, <1>8 DEF data, x, crt

(***************************************************************************)
(* What stands in front of the certificate.                                *)
(***************************************************************************)

\* s leads up to x: in what precedes x it finds nothing.
Leads(s, x) == s \in Seq(Nat) /\ \E p \in Seq(Nat) : s = p \o x /\ Clean(p, x)

LEMMA LeadsFact ==
    ASSUME NEW s, NEW x, Leads(s, x)
    PROVE  \E p \in Seq(Nat) : s = p \o x /\ Clean(p, x)
BY DEF Leads

LEMMA LeadsSelf ==
    ASSUME NEW x \in Seq(Nat)
    PROVE  Leads(x, x)
<1>1. <<>> \in Seq(Nat) /\ Len(<<>>) = 0
  BY SeqNone
<1>2. <<>> \o x = x
  BY SeqUnit
<1>3. Clean(<<>>, x)
  <2>1. 1..0 = {}
    OBVIOUS
  <2> QED
    BY <1>1, <2>1 DEF Clean
<1> QED
  BY <1>1, <1>2, <1>3, Zenon DEF Leads

LEMMA LeadsMore ==
    ASSUME NEW x \in Seq(Nat), NEW s, Leads(s, x), NEW a \in Seq(Nat), Clean(a, s)
    PROVE  Leads(a \o s, x)
<1>1. PICK p \in Seq(Nat) : s = p \o x /\ Clean(p, x)
  BY DEF Leads
<1>2. a \o p \in Seq(Nat)
  BY SeqConcat
<1>3. a \o s = (a \o p) \o x
  <2>1. (a \o p) \o x = a \o (p \o x)
    BY NatAssoc, Zenon
  <2> QED
    BY <1>1, <2>1, Zenon
<1>4. Clean(a, p \o x)
  BY <1>1
<1>5. Clean(a \o p, x)
  BY <1>1, <1>4, CleanJoin
<1>6. a \o s \in Seq(Nat)
  <2>1. s \in Seq(Nat)
    BY DEF Leads
  <2> QED
    BY <2>1, SeqConcat
<1> QED
  BY <1>2, <1>3, <1>5, <1>6, Zenon DEF Leads

\* Octets that are no tag of a SEQUENCE keep it so,
LEMMA LeadsSkip ==
    ASSUME NEW x \in Seq(Nat), NEW s, Leads(s, x), NEW a \in Seq(Nat), \A i \in 1..Len(a) : a[i] # 48
    PROVE  Leads(a \o s, x)
<1>1. s \in Seq(Nat)
  BY DEF Leads
<1>2. Clean(a, s)
  BY <1>1, CleanSkip
<1> QED
  BY <1>2, LeadsMore

\* and the header of an object does, when what comes next begins no SEQUENCE of
\* a SEQUENCE.
Begins(y, n) == Len(y) >= 2 /\ y[1] < 128 /\ (y[2] # 48 \/ n = 50)

Header(tag, c, r, x) ==
    /\ tag \in Nat /\ c \in Seq(Nat) /\ Len(c) < 48 * 256 /\ r \in Seq(Nat)
    /\ Leads(c \o r, x) /\ Begins(c \o r, Len(c))
    /\ tag # 48 \/ (c \o r)[1] # 48

LEMMA LeadsWrap ==
    ASSUME NEW x \in Seq(Nat), NEW tag, NEW c, NEW r, Header(tag, c, r, x)
    PROVE  Leads(der_wrap(tag, c) \o r, x)
<1>0. /\ tag \in Nat /\ c \in Seq(Nat) /\ Len(c) < 48 * 256 /\ r \in Seq(Nat)
      /\ Leads(c \o r, x) /\ Begins(c \o r, Len(c))
      /\ tag # 48 \/ (c \o r)[1] # 48
  BY DEF Header
<1> DEFINE n == Len(c)
           l == der_write_len(n)
           y == c \o r
           h == <<tag>>
           u == h \o l
           z == l \o y
<1>1. n \in Nat /\ n < 48 * 256 /\ Fits(n)
  <2>1. n \in Nat
    BY <1>0, SeqDomain
  <2> HIDE DEF n
  <2>2. n < 48 * 256
    BY <1>0 DEF n
  <2> QED
    BY <2>1, <2>2 DEF Fits
<1>2. y \in Seq(Nat) /\ Leads(y, x) /\ Begins(y, n) /\ (tag # 48 \/ y[1] # 48)
  BY <1>0, SeqConcat
<1>3. y = c \o r
  OBVIOUS
<1> HIDE DEF n, y
<1>4. l \in Seq(Nat)
  BY <1>1, LengthOctets
<1>5. Clean(l, y)
  <2>1. Len(y) >= 2 /\ y[1] < 128 /\ (y[2] # 48 \/ n = 50)
    BY <1>2 DEF Begins
  <2> QED
    BY <1>1, <1>2, <2>1, CleanLength
<1>6. h \in Seq(Nat) /\ Len(h) = 1 /\ h[1] = tag
  BY <1>0
<1>7. Clean(h, z)
  <2>1. z \in Seq(Nat)
    <3> HIDE DEF l
    <3> QED
      BY <1>2, <1>4, SeqConcat
  <2>2. CASE tag # 48
    <3> HIDE DEF z
    <3>1. \A i \in 1..Len(h) : h[i] # 48
      <4> HIDE DEF h
      <4> QED
        BY <1>6, <2>2
    <3> HIDE DEF h
    <3> QED
      BY <1>6, <2>1, <3>1, CleanSkip
  <2>3. CASE tag = 48
    <3>1. y # <<>> /\ y[1] # 48
      <4>1. Len(y) >= 2
        BY <1>2 DEF Begins
      <4> QED
        BY <1>2, <2>3, <4>1
    <3>2. Clean(<<48>>, der_write_len(n) \o y)
      BY <1>1, <1>2, <3>1, CleanTag
    <3> QED
      BY <2>3, <3>2
  <2> QED
    BY <2>2, <2>3
<1> HIDE DEF l, h
<1>8. Leads(z, x)
  BY <1>2, <1>4, <1>5, LeadsMore
<1> HIDE DEF z
<1>9. Leads(h \o z, x)
  BY <1>6, <1>7, <1>8, LeadsMore
<1>10. der_wrap(tag, c) \o r = h \o z
  <2>1. u \in Seq(Nat)
    BY <1>4, <1>6, SeqConcat
  <2>2. (h \o l) \o y = h \o (l \o y)
    BY <1>2, <1>4, <1>6, NatAssoc, Zenon
  <2>3. (u \o c) \o r = u \o (c \o r)
    BY <1>0, <2>1, NatAssoc, Zenon
  <2>4. der_wrap(tag, c) = u \o c
    BY Zenon DEF der_wrap, u, h, l, n
  <2> QED
    BY <1>3, <2>2, <2>3, <2>4, Zenon DEF z, u
<1> QED
  BY <1>9, <1>10, Zenon

\* Its second octet is that of a length.
LEMMA WrapBegins ==
    ASSUME NEW c \in Seq(Nat), Fits(Len(c)), NEW r \in Seq(Nat)
    PROVE  /\ Begins(der_wrap(48, c) \o r, Len(der_wrap(48, c)))
           /\ (der_wrap(48, c) \o r)[1] = 48
<1> DEFINE w == der_wrap(48, c)
           n == Len(c)
           l == der_write_len(n)
           k == Len(l)
           y == w \o r
<1>1. n \in Nat /\ Fits(n)
  BY SeqDomain
<1>2. /\ w \in Seq(Nat) /\ Len(w) = 1 + k + n /\ w[1] = 48
      /\ \A i \in 1..k : w[1 + i] = l[i]
  <2>1. 48 \in Nat
    OBVIOUS
  <2> QED
    BY ZenonT(60), <2>1, WrapFact
<1> HIDE DEF n
<1>3. /\ k \in 1..3
      /\ k = 1 => l[1] = n
      /\ k > 1 => l[1] = 127 + k
  BY <1>1, LengthOctets
<1> HIDE DEF l, k, w
<1>4. /\ y \in Seq(Nat) /\ Len(y) = Len(w) + Len(r) /\ Len(r) \in Nat
      /\ \A i \in 1..Len(w) : y[i] = w[i]
  <2>1. w \in Seq(Nat)
    BY <1>2
  <2> QED
    BY <2>1, SeqConcat, SeqDomain
<1> HIDE DEF y
<1>5. 1 \in 1..Len(w) /\ 2 \in 1..Len(w) /\ 1 \in 1..k /\ 1 + 1 = 2 /\ Len(y) >= 2
  BY <1>1, <1>2, <1>3, <1>4
<1>6. y[1] = 48 /\ y[2] = l[1]
  BY <1>2, <1>4, <1>5
<1>7. l[1] # 48 \/ Len(w) = 50
  BY <1>1, <1>2, <1>3
<1>8. Begins(y, Len(w))
  BY <1>5, <1>6, <1>7 DEF Begins
<1> QED
  BY <1>6, <1>8 DEF y, w

\* Octets none of which is the tag of a SEQUENCE.
NoTag(s) == s \in Seq(Nat) /\ \A i \in 1..Len(s) : s[i] # 48

LEMMA NoTagJoin ==
    ASSUME NEW s, NoTag(s), NEW t, NoTag(t)
    PROVE  NoTag(s \o t)
<1> DEFINE c == s \o t
           m == Len(s)
           n == Len(t)
<1>1. /\ s \in Seq(Nat) /\ t \in Seq(Nat)
      /\ \A i \in 1..m : s[i] # 48
      /\ \A i \in 1..n : t[i] # 48
  BY DEF NoTag
<1>2. m \in Nat /\ n \in Nat
  BY <1>1, SeqDomain
<1>3. /\ c \in Seq(Nat) /\ Len(c) = m + n
      /\ \A i \in 1..m : c[i] = s[i]
      /\ \A i \in 1..n : c[m + i] = t[i]
  <2>1. s \in Seq(Nat) /\ t \in Seq(Nat)
    BY <1>1
  <2> QED
    BY <2>1, SeqConcat
<1> HIDE DEF c, m, n
<1>4. ASSUME NEW i \in 1..Len(c) PROVE c[i] # 48
  <2>1. CASE i <= m
    <3>1. i \in 1..m
      BY <1>2, <1>3, <2>1
    <3> QED
      BY <1>1, <1>3, <3>1
  <2>2. CASE i > m
    <3>1. i - m \in 1..n /\ m + (i - m) = i
      BY <1>2, <1>3, <2>2
    <3>2. c[i] = t[i - m]
      BY <1>3, <3>1
    <3> QED
      BY <1>1, <3>1, <3>2
  <2> QED
    BY <1>2, <2>1, <2>2
<1>5. NoTag(c)
  BY <1>3, <1>4 DEF NoTag
<1> QED
  BY <1>5 DEF c

\* A short object that is no SEQUENCE.
ShortObject(tag, c) ==
    /\ NoTag(der_wrap(tag, c)) /\ der_tlv(tag, c) = der_wrap(tag, c)
    /\ Len(der_wrap(tag, c)) = 2 + Len(c)
    /\ der_wrap(tag, c)[1] = tag /\ der_wrap(tag, c)[2] = Len(c)

LEMMA NoTagWrap ==
    ASSUME NEW tag \in Nat \ {48}, NEW c, NoTag(c), Len(c) < 48
    PROVE  ShortObject(tag, c)
<1> DEFINE w == der_wrap(tag, c)
           n == Len(c)
           l == der_write_len(n)
<1>1. c \in Seq(Nat) /\ n \in Nat /\ n < 48 /\ \A i \in 1..n : c[i] # 48
  BY SeqDomain DEF NoTag
<1>2. Fits(n)
  BY <1>1 DEF Fits
<1>3. /\ w \in Seq(Nat) /\ Len(w) = 1 + Len(l) + n /\ w[1] = tag
      /\ \A i \in 1..Len(l) : w[1 + i] = l[i]
      /\ \A i \in 1..n : w[1 + Len(l) + i] = c[i]
  BY ZenonT(60), <1>1, <1>2, WrapFact
<1>4. der_tlv(tag, c) = w
  BY <1>1, <1>2, TlvIsWrap
<1> HIDE DEF n, w
<1>5. l = <<n>>
  BY <1>1 DEF der_write_len
<1>6. Len(l) = 1 /\ l[1] = n
  BY <1>5
<1> HIDE DEF l
<1>7. Len(w) = 2 + n /\ w[2] = n /\ \A i \in 1..n : w[2 + i] = c[i]
  <2>1. 1 \in 1..1 /\ 1 + 1 = 2
    OBVIOUS
  <2> QED
    BY <1>1, <1>3, <1>6, <2>1
<1>8. ASSUME NEW i \in 1..Len(w) PROVE w[i] # 48
  <2>1. i = 1 \/ i = 2 \/ (i - 2 \in 1..n /\ 2 + (i - 2) = i)
    BY <1>1, <1>7
  <2>2. CASE i = 1
    BY <1>3, <2>2
  <2>3. CASE i = 2
    BY <1>1, <1>7, <2>3
  <2>4. CASE i - 2 \in 1..n /\ 2 + (i - 2) = i
    <3>1. w[i] = c[i - 2]
      BY <1>7, <2>4
    <3> QED
      BY <1>1, <2>4, <3>1
  <2> QED
    BY <2>1, <2>2, <2>3, <2>4
<1>9. NoTag(w)
  BY <1>3, <1>8 DEF NoTag
<1> QED
  BY <1>3, <1>4, <1>7, <1>9 DEF ShortObject, w, n

\* What begins with such an object.
LEMMA SkipBegins ==
    ASSUME NEW a \in Seq(Nat), Len(a) >= 2, a[1] < 128, a[2] # 48, NEW s \in Seq(Nat), NEW n
    PROVE  Begins(a \o s, n) /\ (a \o s)[1] = a[1]
<1> DEFINE c == a \o s
<1>1. /\ c \in Seq(Nat) /\ Len(c) = Len(a) + Len(s) /\ Len(a) \in Nat /\ Len(s) \in Nat
      /\ \A i \in 1..Len(a) : c[i] = a[i]
  BY SeqConcat, SeqDomain
<1> HIDE DEF c
<1>2. 1 \in 1..Len(a) /\ 2 \in 1..Len(a) /\ Len(c) >= 2
  BY <1>1
<1>3. c[1] = a[1] /\ c[2] = a[2]
  BY <1>1, <1>2
<1>4. Begins(c, n) /\ c[1] = a[1]
  BY <1>2, <1>3 DEF Begins
<1> QED
  BY <1>4 DEF c

\* The objects of the PKCS#7 that are no SEQUENCEs.
LEMMA Pkcs7Items ==
    /\ NoTag(der_int(1)) /\ Len(der_int(1)) = 3 /\ der_int(1)[1] = 2 /\ der_int(1)[2] = 1
    /\ NoTag(der_set(<<>>)) /\ Len(der_set(<<>>)) = 2
    /\ NoTag(der_oid(PKCS7_SIGNED_DATA_OID)) /\ Len(der_oid(PKCS7_SIGNED_DATA_OID)) >= 2
    /\ der_oid(PKCS7_SIGNED_DATA_OID)[1] = 6 /\ der_oid(PKCS7_SIGNED_DATA_OID)[2] = 9
    /\ NoTag(der_oid(PKCS7_DATA_OID)) /\ Len(der_oid(PKCS7_DATA_OID)) = 11
    /\ der_oid(PKCS7_DATA_OID)[1] = 6 /\ der_oid(PKCS7_DATA_OID)[2] = 9
<1>1. NoTag(<<1>>) /\ Len(<<1>>) = 1
  BY DEF NoTag
<1>2. NoTag(<<>>) /\ Len(<<>>) = 0
  <2>1. 1..0 = {}
    OBVIOUS
  <2> QED
    BY <2>1, SeqNone DEF NoTag
<1>3. NoTag(PKCS7_SIGNED_DATA_OID) /\ Len(PKCS7_SIGNED_DATA_OID) = 9
  <2>1. \A i \in 1..9 : i \in {1, 2, 3, 4, 5, 6, 7, 8, 9}
    OBVIOUS
  <2> QED
    BY <2>1 DEF NoTag, PKCS7_SIGNED_DATA_OID
<1>4. NoTag(PKCS7_DATA_OID) /\ Len(PKCS7_DATA_OID) = 9
  <2>1. \A i \in 1..9 : i \in {1, 2, 3, 4, 5, 6, 7, 8, 9}
    OBVIOUS
  <2> QED
    BY <2>1 DEF NoTag, PKCS7_DATA_OID
<1>5. 2 \in Nat \ {48} /\ 49 \in Nat \ {48} /\ 6 \in Nat \ {48}
      /\ 2 + 1 = 3 /\ 2 + 9 = 11 /\ 2 + 0 = 2
  OBVIOUS
<1>6. der_int(1) = der_tlv(2, <<1>>)
  <2>1. ToBytes(1) = <<1>> /\ ~(<<1>>[1] >= 128)
    BY DEF ToBytes
  <2> QED
    BY <2>1, Zenon DEF der_int
<1>7. NoTag(der_int(1)) /\ Len(der_int(1)) = 3 /\ der_int(1)[1] = 2 /\ der_int(1)[2] = 1
  <2>1. Len(<<1>>) < 48
    BY <1>1
  <2>2. ShortObject(2, <<1>>)
    BY <1>1, <1>5, <2>1, NoTagWrap, Zenon
  <2> QED
    BY <1>1, <1>5, <1>6, <2>2, Zenon DEF ShortObject
<1>8. NoTag(der_set(<<>>)) /\ Len(der_set(<<>>)) = 2
  <2>1. der_set(<<>>) = der_tlv(49, <<>>)
    BY FlatNone, Zenon DEF der_set
  <2>2. Len(<<>>) < 48
    BY <1>2
  <2>3. ShortObject(49, <<>>)
    BY <1>2, <1>5, <2>2, NoTagWrap, Zenon
  <2>4. 2 + Len(<<>>) = 2
    BY <1>2
  <2> QED
    BY <2>1, <2>3, <2>4, Zenon DEF ShortObject
<1>9. ASSUME NEW o, NoTag(o), Len(o) = 9
      PROVE  NoTag(der_oid(o)) /\ Len(der_oid(o)) = 11 /\ der_oid(o)[1] = 6 /\ der_oid(o)[2] = 9
  <2>1. Len(o) < 48
    BY <1>9
  <2>2. ShortObject(6, o)
    BY <1>5, <1>9, <2>1, NoTagWrap, Zenon
  <2> QED
    BY <1>5, <1>9, <2>2, Zenon DEF der_oid, ShortObject
<1>10. /\ NoTag(der_oid(PKCS7_SIGNED_DATA_OID)) /\ Len(der_oid(PKCS7_SIGNED_DATA_OID)) = 11
       /\ der_oid(PKCS7_SIGNED_DATA_OID)[1] = 6 /\ der_oid(PKCS7_SIGNED_DATA_OID)[2] = 9
  BY <1>3, <1>9
<1>11. /\ NoTag(der_oid(PKCS7_DATA_OID)) /\ Len(der_oid(PKCS7_DATA_OID)) = 11
       /\ der_oid(PKCS7_DATA_OID)[1] = 6 /\ der_oid(PKCS7_DATA_OID)[2] = 9
  BY <1>4, <1>9
<1>12. Len(der_oid(PKCS7_SIGNED_DATA_OID)) >= 2
  BY <1>10
<1> QED
  BY <1>7, <1>8, <1>10, <1>11, <1>12

\* The PKCS#7 object leads up to the certificate, which two octets follow.
LEMMA Pkcs7Leads ==
    ASSUME NEW crt \in Seq(Nat), Small(cert_der_to_pkcs7(crt))
    PROVE  /\ Small(crt)
           /\ Begins(crt \o der_set(<<>>), Len(crt))
              => Leads(cert_der_to_pkcs7(crt), crt \o der_set(<<>>))
<1> DEFINE one == der_int(1)
           none == der_set(<<>>)
           oid == der_oid(PKCS7_DATA_OID)
           data == der_seq(<<oid>>)
           certs == der_ctx(0, crt)
           items == (((one \o none) \o data) \o certs) \o none
           signed == der_tlv(48, items)
           content == der_ctx(0, signed)
           sd == der_oid(PKCS7_SIGNED_DATA_OID)
           all == sd \o content
           x == crt \o none
<1>0. 48 \in Nat /\ 160 \in Nat /\ 160 + 0 = 160 /\ 160 # 48 /\ <<>> \in Seq(Nat)
  BY SeqNone
<1>1. /\ one \in Seq(Nat) /\ NoTag(one) /\ Len(one) = 3 /\ one[1] = 2 /\ one[2] = 1
      /\ none \in Seq(Nat) /\ NoTag(none)
      /\ sd \in Seq(Nat) /\ NoTag(sd) /\ Len(sd) >= 2 /\ sd[1] = 6 /\ sd[2] = 9
      /\ oid \in Seq(Nat) /\ NoTag(oid) /\ Len(oid) = 11 /\ oid[1] = 6 /\ oid[2] = 9
  BY Pkcs7Items DEF NoTag
<1>2. crt \in Seq(Nat)
  OBVIOUS
<1> HIDE DEF one, none, oid, sd
<1>4. data = der_wrap(48, oid)
  <2>1. FlattenSeq(<<oid>>) = oid
    BY <1>1, FlatOne
  <2>2. Fits(Len(oid))
    BY <1>1 DEF Fits
  <2>3. der_tlv(48, oid) = der_wrap(48, oid)
    BY <1>1, <2>2, TlvIsWrap
  <2> QED
    BY <2>1, <2>3, Zenon DEF der_seq
<1>5. data \in Seq(Nat)
  <2>1. Fits(Len(oid))
    BY <1>1 DEF Fits
  <2> HIDE DEF data
  <2> QED
    BY ZenonT(60), <1>0, <1>1, <1>4, <2>1, WrapFact
<1>6. certs \in Seq(Nat) /\ certs = der_tlv(160, crt)
  <2>1. certs = der_tlv(160, crt)
    BY <1>0, Zenon DEF der_ctx
  <2>2. der_tlv(160, crt) \in Seq(Nat)
    BY <1>0, <1>2, TlvFact
  <2> QED
    BY <2>1, <2>2
<1> HIDE DEF data, certs
<1>7. x \in Seq(Nat)
  <2>1. none \in Seq(Nat)
    BY <1>1
  <2> QED
    BY <1>2, <2>1, SeqConcat
<1> DEFINE i1 == one \o none
           i2 == i1 \o data
           i3 == i2 \o certs
<1>8. i1 \in Seq(Nat) /\ i2 \in Seq(Nat) /\ i3 \in Seq(Nat) /\ items \in Seq(Nat)
  <2>1. i1 \in Seq(Nat)
    BY <1>1, SeqConcat
  <2>2. i2 \in Seq(Nat)
    <3> HIDE DEF i1
    <3> QED
      BY <1>5, <2>1, SeqConcat
  <2>3. i3 \in Seq(Nat)
    <3> HIDE DEF i2
    <3> QED
      BY <1>6, <2>2, SeqConcat
  <2>4. i3 \o none \in Seq(Nat)
    <3> HIDE DEF i3
    <3> QED
      BY <1>1, <2>3, SeqConcat
  <2> QED
    BY <2>1, <2>2, <2>3, <2>4
<1>9. items = i3 \o none
  OBVIOUS
<1>10. cert_der_to_pkcs7(crt) = der_tlv(48, all)
  <2> DEFINE ss == <<one, none, data, certs, none>>
  <2>1. FlattenSeq(ss) = items
    <3>1. ss \in Seq(Seq(Nat)) /\ Len(ss) = 5
      BY <1>1, <1>5, <1>6
    <3>2. ss[1] = one /\ ss[2] = none /\ ss[3] = data /\ ss[4] = certs /\ ss[5] = none
      OBVIOUS
    <3> HIDE DEF ss, items
    <3>3. FlattenSeq(ss) = (((ss[1] \o ss[2]) \o ss[3]) \o ss[4]) \o ss[5]
      BY <3>1, FlatItems
    <3> QED
      BY <3>2, <3>3, Zenon DEF items
  <2> DEFINE tt == <<sd, content>>
  <2>2. FlattenSeq(tt) = all
    <3>1. content \in Seq(Nat)
      <4> HIDE DEF items
      <4>1. signed \in Seq(Nat)
        BY <1>0, <1>8, TlvFact
      <4> HIDE DEF signed
      <4>2. der_tlv(160, signed) \in Seq(Nat)
        BY <1>0, <4>1, TlvFact
      <4>3. content = der_tlv(160, signed)
        BY <1>0, Zenon DEF der_ctx
      <4> QED
        BY <4>2, <4>3
    <3> HIDE DEF content
    <3>2. tt \in Seq(Seq(Nat)) /\ Len(tt) = 2 /\ tt[1] = sd /\ tt[2] = content
      BY <1>1, <3>1
    <3> HIDE DEF tt
    <3>3. FlattenSeq(tt) = tt[1] \o tt[2]
      BY <3>2, FlatItems
    <3> QED
      BY <3>2, <3>3, Zenon
  <2>3. signed = der_seq(ss)
    BY <2>1, Zenon DEF der_seq
  <2>4. cert_der_to_pkcs7(crt) = der_seq(<<sd, der_ctx(0, der_seq(ss))>>)
    BY Zenon DEF cert_der_to_pkcs7, one, none, oid, data, certs, sd
  <2> HIDE DEF ss, items
  <2>5. cert_der_to_pkcs7(crt) = der_seq(tt)
    BY <2>3, <2>4, Zenon
  <2> QED
    BY <2>2, <2>5, Zenon DEF der_seq
<1> HIDE DEF i1, i2, i3, items
<1>11. signed \in Seq(Nat) /\ content = der_tlv(160, signed)
  <2>1. signed \in Seq(Nat)
    BY <1>0, <1>8, TlvFact
  <2>2. content = der_tlv(160, signed)
    BY <1>0, Zenon DEF der_ctx
  <2> QED
    BY <2>1, <2>2
<1>12. content \in Seq(Nat)
  <2> HIDE DEF signed, content
  <2> QED
    BY <1>0, <1>11, TlvFact
<1>13. all \in Seq(Nat)
  <2> HIDE DEF content
  <2> QED
    BY <1>1, <1>12, SeqConcat
<1>14. Small(cert_der_to_pkcs7(crt))
  OBVIOUS
<1> HIDE DEF signed, content, all, x
<1>15. Small(all) /\ Len(all) < 48 * 256 /\ der_tlv(48, all) = der_wrap(48, all)
  <2>1. Small(der_tlv(48, all))
    BY <1>10, <1>14
  <2> QED
    BY <1>0, <1>13, <2>1, SmallObject
<1>16. Small(content)
  <2>1. Small(sd \o content)
    BY <1>15 DEF all
  <2> QED
    BY <1>1, <1>12, <2>1, SmallParts
<1>17. Small(signed) /\ Len(signed) < 48 * 256 /\ content = der_wrap(160, signed)
  <2>1. Small(der_tlv(160, signed))
    BY <1>11, <1>16
  <2> QED
    BY <1>0, <1>11, <2>1, SmallObject
<1>18. Small(items) /\ Fits(Len(items)) /\ Len(items) < 48 * 256 /\ signed = der_wrap(48, items)
  <2>1. signed = der_tlv(48, items)
    BY DEF signed
  <2>2. Small(der_tlv(48, items))
    BY <1>17, <2>1
  <2>3. Small(items) /\ Fits(Len(items)) /\ Len(items) < 48 * 256
        /\ der_tlv(48, items) = der_wrap(48, items)
    BY <1>0, <1>8, <2>2, SmallObject
  <2> QED
    BY <2>1, <2>3
<1>19. Small(i3)
  <2>1. items = i3 \o none
    BY DEF items, i3, i2, i1
  <2>2. Small(i3 \o none)
    BY <1>18, <2>1
  <2> QED
    BY <1>1, <1>8, <2>2, SmallParts
<1>20. Small(certs)
  <2>1. Small(i2 \o certs)
    BY <1>19 DEF i3
  <2> QED
    BY <1>6, <1>8, <2>1, SmallParts
<1>21. Len(crt) < 48 * 256 /\ certs = der_wrap(160, crt)
  <2>1. Small(der_tlv(160, crt))
    BY <1>6, <1>20
  <2>2. Len(crt) < 48 * 256 /\ der_tlv(160, crt) = der_wrap(160, crt)
    BY <1>0, <1>2, <2>1, SmallObject
  <2> QED
    BY <1>6, <2>2
\* From the certificate back to the beginning.
<1>22. ASSUME Begins(x, Len(crt)) PROVE Leads(cert_der_to_pkcs7(crt), x)
  <2> DEFINE s1 == certs \o none
             s2 == oid \o s1
             s3 == data \o s1
             s4 == i1 \o s3
  <2>1. Leads(s1, x)
    <3>1. Leads(crt \o none, x) /\ Begins(crt \o none, Len(crt))
      <4>1. Leads(x, x)
        BY <1>7, LeadsSelf
      <4> QED
        BY <1>22, <4>1 DEF x
    <3>2. Leads(der_wrap(160, crt) \o none, x)
      <4>1. none \in Seq(Nat)
        BY <1>1
      <4>2. 160 # 48 \/ (crt \o none)[1] # 48
        BY <1>0
      <4> QED
        <5>1. Header(160, crt, none, x)
          BY <1>0, <1>2, <1>21, <3>1, <4>1, <4>2, Zenon DEF Header
        <5> QED
          BY <1>7, <5>1, LeadsWrap, Zenon
    <3> QED
      BY <1>21, <3>2, Zenon
  <2>2. s1 \in Seq(Nat)
    BY <2>1 DEF Leads
  <2> HIDE DEF s1
  <2>3. Leads(s2, x)
    <3>1. \A i \in 1..Len(oid) : oid[i] # 48
      BY <1>1 DEF NoTag
    <3>2. oid \in Seq(Nat)
      BY <1>1
    <3> QED
      BY <1>7, <2>1, <3>1, <3>2, LeadsSkip, Zenon
  <2>4. Leads(s3, x)
    <3>1. Begins(s2, Len(oid)) /\ s2[1] = oid[1]
      <4>1. oid \in Seq(Nat) /\ Len(oid) >= 2 /\ oid[1] < 128 /\ oid[2] # 48
        BY <1>1
      <4> QED
        BY <2>2, <4>1, SkipBegins
    <3>2. s2[1] # 48
      BY <1>1, <3>1
    <3>3. Len(oid) < 48 * 256 /\ oid \in Seq(Nat)
      BY <1>1
    <3>4. Leads(der_wrap(48, oid) \o s1, x)
      <4>1. Header(48, oid, s1, x)
        BY <1>0, <2>2, <2>3, <3>1, <3>2, <3>3, Zenon DEF Header
      <4> QED
        BY <1>7, <4>1, LeadsWrap, Zenon
    <3> QED
      BY <1>4, <3>4, Zenon
  <2>5. s3 \in Seq(Nat)
    BY <2>4 DEF Leads
  <2> HIDE DEF s3
  <2>6. Leads(s4, x)
    <3>1. NoTag(i1)
      BY <1>1, NoTagJoin DEF i1
    <3>2. i1 \in Seq(Nat) /\ \A i \in 1..Len(i1) : i1[i] # 48
      BY <3>1 DEF NoTag
    <3> QED
      BY <1>7, <2>4, <3>2, LeadsSkip, Zenon
  <2>7. items = s4
    <3>1. (i2 \o certs) \o none = i2 \o s1
      <4>1. none \in Seq(Nat)
        BY <1>1
      <4>2. certs \in Seq(Nat)
        BY <1>6
      <4>3. i2 \in Seq(Nat)
        BY <1>8
      <4> QED
        BY <4>1, <4>2, <4>3, NatAssoc, Zenon DEF s1
    <3>2. (i1 \o data) \o s1 = i1 \o (data \o s1)
      <4>1. i1 \in Seq(Nat)
        BY <1>8
      <4>2. data \in Seq(Nat)
        BY <1>5
      <4>3. s1 \in Seq(Nat)
        BY <2>2
      <4> QED
        BY <4>1, <4>2, <4>3, NatAssoc, Zenon
    <3> QED
      BY <3>1, <3>2, Zenon DEF items, i2, i1, s3
  <2>8. items[1] = 2 /\ Begins(items, Len(items))
    <3>1. i1 \in Seq(Nat) /\ Len(i1) >= 2 /\ i1[1] = 2 /\ i1[2] = 1
      <4>1. one \in Seq(Nat) /\ none \in Seq(Nat) /\ Len(one) = 3
        BY <1>1
      <4>2. /\ i1 \in Seq(Nat) /\ Len(i1) = Len(one) + Len(none) /\ Len(none) \in Nat
            /\ \A i \in 1..Len(one) : i1[i] = one[i]
        <5>1. one \in Seq(Nat) /\ none \in Seq(Nat)
          BY <4>1
        <5>2. /\ one \o none \in Seq(Nat) /\ Len(one \o none) = Len(one) + Len(none)
              /\ \A i \in 1..Len(one) : (one \o none)[i] = one[i]
          BY <5>1, SeqConcat
        <5>3. Len(none) \in Nat
          BY <5>1, SeqDomain
        <5> QED
          BY <5>2, <5>3, Zenon DEF i1
      <4>3. 1 \in 1..Len(one) /\ 2 \in 1..Len(one)
        BY <4>1
      <4> QED
        BY SMTT(60), <1>1, <4>1, <4>2, <4>3
    <3>2. i1[1] < 128 /\ i1[2] # 48
      BY <3>1
    <3>3. Begins(s4, Len(items)) /\ s4[1] = i1[1]
      BY <2>5, <3>1, <3>2, SkipBegins
    <3> QED
      BY <2>7, <3>1, <3>3
  <2> HIDE DEF s4
  <2>9. Leads(signed, x)
    <3>1. items \o <<>> = items
      BY <1>8, SeqUnit
    <3>2. Leads(items \o <<>>, x) /\ Begins(items \o <<>>, Len(items)) /\ (items \o <<>>)[1] # 48
      BY <2>6, <2>7, <2>8, <3>1
    <3>3. Leads(der_wrap(48, items) \o <<>>, x)
      <4>1. Header(48, items, <<>>, x)
        BY <1>0, <1>8, <1>18, <3>2, Zenon DEF Header
      <4> QED
        BY <1>7, <4>1, LeadsWrap, Zenon
    <3>4. signed \o <<>> = signed
      BY <1>11, SeqUnit
    <3> QED
      BY <1>18, <3>3, <3>4, Zenon
  <2>10. Leads(content, x)
    <3>1. signed \o <<>> = signed
      BY <1>11, SeqUnit
    <3>2. Begins(der_wrap(48, items) \o <<>>, Len(der_wrap(48, items)))
      <4>1. items \in Seq(Nat) /\ Fits(Len(items)) /\ <<>> \in Seq(Nat)
        BY <1>0, <1>8, <1>18
      <4> QED
        BY <4>1, WrapBegins
    <3>3. Begins(signed \o <<>>, Len(signed)) /\ Leads(signed \o <<>>, x)
      BY <1>18, <2>9, <3>1, <3>2, Zenon
    <3>4. 160 # 48 \/ (signed \o <<>>)[1] # 48
      BY <1>0
    <3>5. Leads(der_wrap(160, signed) \o <<>>, x)
      <4>1. Header(160, signed, <<>>, x)
        BY <1>0, <1>11, <1>17, <3>3, <3>4, Zenon DEF Header
      <4> QED
        BY <1>7, <4>1, LeadsWrap, Zenon
    <3>6. content \o <<>> = content
      BY <1>12, SeqUnit
    <3> QED
      BY <1>17, <3>5, <3>6, Zenon
  <2>11. Leads(all, x)
    <3>1. sd \in Seq(Nat) /\ \A i \in 1..Len(sd) : sd[i] # 48
      BY <1>1 DEF NoTag
    <3> QED
      BY <1>7, <2>10, <3>1, LeadsSkip, Zenon DEF all
  <2>12. Leads(der_wrap(48, all) \o <<>>, x)
    <3>1. all \o <<>> = all
      BY <1>13, SeqUnit
    <3>2. Begins(all, Len(all)) /\ all[1] = 6
      <4>1. sd \in Seq(Nat) /\ Len(sd) >= 2 /\ sd[1] < 128 /\ sd[2] # 48 /\ sd[1] = 6
        BY <1>1
      <4>2. Begins(sd \o content, Len(all)) /\ (sd \o content)[1] = sd[1]
        BY <1>12, <4>1, SkipBegins
      <4> QED
        BY <4>1, <4>2 DEF all
    <3>3. Leads(all \o <<>>, x) /\ Begins(all \o <<>>, Len(all)) /\ (all \o <<>>)[1] # 48
      BY <2>11, <3>1, <3>2
    <3> QED
      <4>1. Header(48, all, <<>>, x)
        BY <1>0, <1>13, <1>15, <3>3, Zenon DEF Header
      <4> QED
        BY <1>7, <4>1, LeadsWrap, Zenon
  <2>13. der_wrap(48, all) \o <<>> = cert_der_to_pkcs7(crt)
    <3>1. cert_der_to_pkcs7(crt) \in Seq(Nat)
      BY <1>14 DEF Small
    <3>2. der_wrap(48, all) = cert_der_to_pkcs7(crt)
      BY <1>10, <1>15
    <3> QED
      BY <3>1, <3>2, SeqUnit
  <2>14. Leads(cert_der_to_pkcs7(crt), x)
    BY <2>12, <2>13, Zenon
  <2> QED
    BY <2>14
<1>23. Small(crt)
  <2>1. Small(der_tlv(160, crt))
    BY <1>6, <1>20
  <2> QED
    BY <1>0, <1>2, <2>1, SmallObject
<1> QED
  BY <1>22, <1>23 DEF x, none

\* The RA's certificates are what the scan looks for.
LEMMA CertificateScanned ==
    ASSUME NEW crt, IsCertificate(crt), Small(crt)
    PROVE  \E c \in Seq(Nat) : /\ Fits(Len(c)) /\ crt = der_wrap(48, c) /\ Len(crt) >= 3
                               /\ is_mldsa44_certificate_like(crt)
<1> DEFINE alg == mldsa44_algorithm_identifier
           sig == der_bit_string(SigBytes)
           bits == <<0>> \o SigBytes
<1>1. PICK v \in Seq(Nat), no \in Seq(Nat), issuer \in Seq(Nat), validity \in Seq(Nat),
          subject \in Seq(Nat), spki \in Seq(Nat) :
          crt = der_seq(<<der_seq(<<v, no, alg, issuer, validity, subject, spki>>), alg, sig>>)
  BY DEF IsCertificate
<1>2. 48 \in Nat /\ 3 \in Nat
  OBVIOUS
<1>3. bits \in Seq(Nat)
  <2>1. SigBytes \in Seq(0..255) /\ 0..255 \subseteq Nat
    BY DerAssumption
  <2>2. SigBytes \in Seq(Nat)
    BY <2>1, SeqWider
  <2>3. <<0>> \in Seq(Nat)
    OBVIOUS
  <2> QED
    BY <2>2, <2>3, SeqConcat
<1>4. sig = der_tlv(3, bits)
  BY DEF der_bit_string
<1> HIDE DEF bits, sig
<1>5. sig \in Seq(Nat)
  BY <1>2, <1>3, <1>4, TlvFact
<1>6. Holds(alg) /\ \E c \in Seq(Nat) : Fits(Len(c)) /\ alg = der_wrap(48, c)
  BY AlgorithmHolds
<1>7. PICK c2 \in Seq(Nat) : Fits(Len(c2)) /\ alg = der_wrap(48, c2)
  BY <1>6
<1>8. alg \in Seq(Nat) /\ Holds(alg)
  BY <1>6, HoldsFact
<1> HIDE DEF alg
<1> DEFINE p1 == v \o no
           p2 == p1 \o alg
           p3 == p2 \o issuer
           p4 == p3 \o validity
           p5 == p4 \o subject
           c1 == p5 \o spki
           tbs == der_tlv(48, c1)
           p6 == tbs \o alg
           c == p6 \o sig
<1>9. p1 \in Seq(Nat)
  BY SeqConcat
<1> HIDE DEF p1
<1>10. p2 \in Seq(Nat) /\ Holds(p2)
  BY <1>8, <1>9, HoldsMore, HoldsFact
<1> HIDE DEF p2
<1>11. Holds(p3)
  BY <1>10, HoldsMore
<1> HIDE DEF p3
<1>12. Holds(p4)
  BY <1>11, HoldsMore
<1> HIDE DEF p4
<1>13. Holds(p5)
  BY <1>12, HoldsMore
<1> HIDE DEF p5
<1>14. Holds(c1)
  BY <1>13, HoldsMore
<1>15. c1 \in Seq(Nat)
  BY <1>14, HoldsFact
<1>16. crt = der_tlv(48, c)
  <2> DEFINE ss == <<v, no, alg, issuer, validity, subject, spki>>
  <2>1. FlattenSeq(ss) = c1
    <3>1. /\ ss \in Seq(Seq(Nat)) /\ Len(ss) = 7
          /\ ss[1] = v /\ ss[2] = no /\ ss[3] = alg /\ ss[4] = issuer /\ ss[5] = validity
          /\ ss[6] = subject /\ ss[7] = spki
      BY <1>8
    <3> HIDE DEF ss, c1
    <3>2. FlattenSeq(ss) =
             (((((ss[1] \o ss[2]) \o ss[3]) \o ss[4]) \o ss[5]) \o ss[6]) \o ss[7]
      BY <3>1, FlatItems
    <3> QED
      BY <3>1, <3>2, Zenon DEF c1, p5, p4, p3, p2, p1
  <2>2. der_seq(ss) = tbs
    BY <2>1, Zenon DEF der_seq
  <2> HIDE DEF c1
  <2>3. tbs \in Seq(Nat)
    BY <1>2, <1>15, TlvFact
  <2> HIDE DEF tbs
  <2> DEFINE tt == <<tbs, alg, sig>>
  <2>4. FlattenSeq(tt) = c
    <3>1. tt \in Seq(Seq(Nat)) /\ Len(tt) = 3 /\ tt[1] = tbs /\ tt[2] = alg /\ tt[3] = sig
      BY <1>5, <1>8, <2>3
    <3> HIDE DEF tt
    <3>2. FlattenSeq(tt) = (tt[1] \o tt[2]) \o tt[3]
      BY <3>1, FlatItems
    <3> QED
      BY <3>1, <3>2, Zenon
  <2>5. crt = der_seq(<<der_seq(ss), alg, sig>>)
    BY <1>1
  <2> HIDE DEF ss, c
  <2>6. crt = der_seq(tt)
    BY <2>2, <2>5, Zenon
  <2> QED
    BY <2>4, <2>6, Zenon DEF der_seq
<1> HIDE DEF c1
<1>17. tbs \in Seq(Nat) /\ tbs # <<>>
  BY <1>2, <1>15, TlvFact
<1> HIDE DEF tbs
<1>18. p6 \in Seq(Nat) /\ p6 # <<>>
  BY <1>8, <1>17, SeqLonger
<1> HIDE DEF p6
<1>19. c \in Seq(Nat) /\ c # <<>>
  BY <1>5, <1>18, SeqLonger
<1> HIDE DEF c
<1>20. Small(c) /\ Fits(Len(c)) /\ der_tlv(48, c) = der_wrap(48, c)
  <2>1. Small(der_tlv(48, c))
    BY <1>16
  <2> QED
    BY <1>2, <1>19, <2>1, SmallObject
<1>21. Small(p6) /\ Small(sig)
  <2>1. Small(p6 \o sig)
    BY <1>20 DEF c
  <2> QED
    BY <1>5, <1>18, <2>1, SmallParts
<1>22. Small(tbs)
  <2>1. Small(tbs \o alg)
    BY <1>21 DEF p6
  <2> QED
    BY <1>8, <1>17, <2>1, SmallParts
<1>23. Fits(Len(c1)) /\ tbs = der_wrap(48, c1)
  <2>1. Small(der_tlv(48, c1))
    BY <1>22 DEF tbs
  <2>2. Fits(Len(c1)) /\ der_tlv(48, c1) = der_wrap(48, c1)
    BY <1>2, <1>15, <2>1, SmallObject
  <2> QED
    BY <2>2 DEF tbs
<1>24. Fits(Len(bits)) /\ sig = der_wrap(3, bits)
  <2>1. Small(der_tlv(3, bits))
    BY <1>4, <1>21
  <2> QED
    BY <1>2, <1>3, <1>4, <2>1, SmallObject
<1>25. Holds(der_wrap(48, c1)) /\ Holds(der_wrap(48, c2))
  <2>1. Holds(der_wrap(48, c1))
    BY <1>2, <1>14, <1>15, <1>23, HoldsWrap
  <2> QED
    BY <1>7, <1>8, <2>1
<1>26. c = LikeCert(c1, c2, bits)
  BY <1>7, <1>23, <1>24, Zenon DEF c, p6, LikeCert
<1>27. is_mldsa44_certificate_like(der_wrap(48, c))
  <2>1. Fits(Len(LikeCert(c1, c2, bits)))
    BY <1>20, <1>26
  <2>2. is_mldsa44_certificate_like(der_wrap(48, LikeCert(c1, c2, bits)))
    BY <1>3, <1>7, <1>15, <1>23, <1>24, <1>25, <2>1, CertLike
  <2> QED
    BY <1>26, <2>2
<1>28. crt = der_wrap(48, c)
  BY <1>16, <1>20
<1>29. Len(der_wrap(48, c)) >= 3
  <2> DEFINE n == Len(c)
             k == Len(der_write_len(n))
  <2>1. n \in Nat /\ Fits(n) /\ n # 0
    BY <1>19, <1>20, SeqDomain, SeqEmpty
  <2>2. Len(der_wrap(48, c)) = 1 + k + n
    BY <1>2, <1>19, <1>20, WrapFact
  <2> HIDE DEF n
  <2>3. k \in 1..3
    BY <2>1, LengthOctets
  <2> HIDE DEF k
  <2> QED
    BY <2>1, <2>2, <2>3
<1> QED
  BY <1>19, <1>20, <1>27, <1>28, <1>29

\* Whatever leads up to a certificate, it finds that certificate.
LEMMA LeadsFound ==
    ASSUME NEW c \in Seq(Nat), Fits(Len(c)), NEW t \in Seq(Nat), Len(t) = 2,
           Len(der_wrap(48, c)) >= 3, is_mldsa44_certificate_like(der_wrap(48, c)),
           NEW s, Leads(s, der_wrap(48, c) \o t)
    PROVE  find_first_der_certificate(s) = der_wrap(48, c)
<1>1. PICK p \in Seq(Nat) : s = p \o (der_wrap(48, c) \o t) /\ Clean(p, der_wrap(48, c) \o t)
  BY LeadsFact
<1>2. find_first_der_certificate(p \o (der_wrap(48, c) \o t)) = der_wrap(48, c)
  BY <1>1, FindFirst
<1> QED
  BY <1>1, <1>2

\* In a response of which main decodes everything it finds the certificate.
LEMMA ResponseScanned ==
    ASSUME NEW crt \in Seq(Nat), IsCertificate(crt), Len(cert_der_to_pkcs7(crt)) <= 8192
    PROVE  find_first_der_certificate(cert_der_to_pkcs7(crt)) = crt
<1> DEFINE none == der_set(<<>>)
           response == cert_der_to_pkcs7(crt)
<1>1. Small(response)
  BY Pkcs7Fact DEF Small
<1>2. none \in Seq(Nat) /\ Len(none) = 2
  BY Pkcs7Items DEF NoTag
<1>3. Small(crt) /\ (Begins(crt \o none, Len(crt)) => Leads(response, crt \o none))
  BY <1>1, Pkcs7Leads
<1> HIDE DEF none, response
<1>4. PICK c \in Seq(Nat) : /\ Fits(Len(c)) /\ crt = der_wrap(48, c) /\ Len(crt) >= 3
                            /\ is_mldsa44_certificate_like(crt)
  BY <1>3, CertificateScanned
<1>5. Begins(crt \o none, Len(crt))
  <2>1. Begins(der_wrap(48, c) \o none, Len(der_wrap(48, c)))
    BY <1>2, <1>4, WrapBegins
  <2> QED
    BY <1>4, <2>1
<1>6. find_first_der_certificate(response) = der_wrap(48, c)
  <2>1. Leads(response, der_wrap(48, c) \o none)
    BY <1>3, <1>4, <1>5
  <2>2. Fits(Len(c)) /\ Len(der_wrap(48, c)) >= 3 /\ is_mldsa44_certificate_like(der_wrap(48, c))
    BY <1>4
  <2> QED
    BY <1>2, <2>1, <2>2, LeadsFound
<1>7. find_first_der_certificate(response) = crt
  BY <1>4, <1>6
<1> QED
  BY <1>7 DEF response
(***************************************************************************)
(* The scan of a response that was cut.                                    *)
(***************************************************************************)

\* What is an object where the end is missing is the same object where it is not,
LEMMA CutTlv ==
    ASSUME NEW y \in Seq(Nat), NEW n \in 0..Len(y), IsTlv(SubSeq(y, 1, n))
    PROVE  /\ IsTlv(y) /\ TlvLen(y) = TlvLen(SubSeq(y, 1, n)) /\ TlvLen(y) \in 0..n
           /\ SubSeq(y, 1, n) \in Seq(Nat) /\ Len(SubSeq(y, 1, n)) = n
           /\ SubSeq(y, 1, n)[1] = y[1]
           /\ SubSeq(SubSeq(y, 1, n), 1, TlvLen(y)) = SubSeq(y, 1, TlvLen(y))
<1> DEFINE x == SubSeq(y, 1, n)
           h == HeaderLen(x)
<1>1. n \in Nat /\ Len(y) \in Nat /\ n <= Len(y)
  BY SeqDomain
<1>2. x \in Seq(Nat) /\ Len(x) = n /\ \A i \in 1..n : x[i] = y[i]
  <2>1. 1 \in Nat /\ 1 >= 1 /\ 1 <= n + 1 /\ n + 1 - 1 = n /\ \A i \in 1..n : 1 + i - 1 = i
    BY <1>1
  <2> HIDE DEF x
  <2>2. /\ x \in Seq(Nat) /\ Len(x) = n + 1 - 1
        /\ \A i \in 1..(n + 1 - 1) : x[i] = y[1 + i - 1]
    BY <1>1, <2>1, SeqSegment DEF x
  <2> QED
    BY <2>1, <2>2
<1>3. IsTlv(x)
  OBVIOUS
<1> HIDE DEF x
<1>4. n >= 2 /\ x[1] = y[1] /\ x[2] = y[2] /\ x[2] # 128 /\ x[2] \in Nat
  <2>1. Len(x) >= 2 /\ x[2] # 128
    BY <1>3 DEF IsTlv
  <2>2. 1 \in 1..n /\ 2 \in 1..n
    BY <1>1, <1>2, <2>1
  <2> QED
    BY <1>2, <2>1, <2>2, SeqElt
<1>5. LenBytes(x) = LenBytes(y) /\ LenBytes(x) \in Nat /\ LenBytes(x) <= 4
  <2>1. LenBytes(x) = LenBytes(y)
    BY <1>4 DEF LenBytes
  <2>2. LenBytes(x) \in Nat
    BY <1>4 DEF LenBytes
  <2> QED
    BY <1>3, <2>1, <2>2 DEF IsTlv
<1>6. h = HeaderLen(y) /\ h \in Nat /\ h >= 2 /\ h <= n
  <2>1. h = HeaderLen(y) /\ h \in Nat /\ h >= 2
    BY <1>5 DEF HeaderLen
  <2>2. h <= Len(x)
    BY <1>3 DEF IsTlv
  <2> QED
    BY <1>2, <2>1, <2>2
<1> HIDE DEF h
<1>7. ASSUME NEW a \in Nat, NEW b \in Nat, a >= 1, b <= n, a <= b + 1
      PROVE  SubSeq(x, a, b) = SubSeq(y, a, b)
  <2> DEFINE u == SubSeq(x, a, b)
             v == SubSeq(y, a, b)
  <2>1. b <= Len(y)
    BY <1>1, <1>7
  <2>2. u \in Seq(Nat) /\ Len(u) = b + 1 - a /\ \A i \in 1..(b + 1 - a) : u[i] = x[a + i - 1]
    BY <1>2, <1>7, SeqSegment
  <2>3. v \in Seq(Nat) /\ Len(v) = b + 1 - a /\ \A i \in 1..(b + 1 - a) : v[i] = y[a + i - 1]
    BY <1>7, <2>1, SeqSegment
  <2>4. \A i \in 1..(b + 1 - a) : a + i - 1 \in 1..n
    BY <1>1, <1>7
  <2> HIDE DEF u, v
  <2>5. Len(u) = Len(v) /\ \A i \in 1..Len(u) : u[i] = v[i]
    BY <1>2, <2>2, <2>3, <2>4
  <2>6. u = v
    BY <2>2, <2>3, <2>5, SeqSame
  <2> QED
    BY <2>6 DEF u, v
<1>8. ContentLen(x) = ContentLen(y)
  <2>1. 3 \in Nat /\ 3 >= 1 /\ 3 <= h + 1
    BY <1>6
  <2>2. SubSeq(x, 3, h) = SubSeq(y, 3, h)
    BY <1>6, <1>7, <2>1
  <2> QED
    BY <1>4, <1>6, <2>2, Zenon DEF ContentLen, h
<1>9. TlvLen(x) = TlvLen(y)
  BY <1>6, <1>8, Zenon DEF TlvLen, h
<1>10. TlvLen(x) \in 0..n
  BY <1>2, <1>3, Zenon DEF IsTlv, TlvLen
<1>11. IsTlv(y)
  <2>1. Len(y) >= 2 /\ HeaderLen(y) <= Len(y) /\ TlvLen(y) \in 0..Len(y)
    BY <1>1, <1>4, <1>6, <1>9, <1>10
  <2>2. y[2] # 128 /\ LenBytes(y) <= 4
    BY <1>4, <1>5
  <2> QED
    BY <2>1, <2>2, Zenon DEF IsTlv, TlvLen
<1>12. SubSeq(x, 1, TlvLen(y)) = SubSeq(y, 1, TlvLen(y))
  <2> DEFINE b == TlvLen(y)
  <2>1. b \in Nat /\ b <= n /\ 1 \in Nat /\ 1 >= 1 /\ 1 <= b + 1
    BY <1>1, <1>9, <1>10
  <2> HIDE DEF b
  <2>2. SubSeq(x, 1, b) = SubSeq(y, 1, b)
    BY <1>7, <2>1
  <2> QED
    BY <2>2 DEF b
<1> QED
  BY <1>2, <1>4, <1>9, <1>10, <1>11, <1>12 DEF x

\* and so the scan of what is left stops only where the scan of the whole does.
LEMMA CutCert ==
    ASSUME NEW d \in Seq(Nat), NEW n \in 0..Len(d), NEW i \in CertPositions(SubSeq(d, 1, n))
    PROVE  /\ i \in CertPositions(d) /\ i \in Nat
           /\ ObjectAt(SubSeq(d, 1, n), i) = ObjectAt(d, i)
           /\ Len(ObjectAt(d, i)) \in Nat /\ i + Len(ObjectAt(d, i)) <= n + 1
<1> DEFINE s == SubSeq(d, 1, n)
           L == Len(d)
           f == From(s, i)
           g == From(d, i)
           k == n + 1 - i
<1>1. n \in Nat /\ L \in Nat /\ n <= L
  BY SeqDomain
<1>2. s \in Seq(Nat) /\ Len(s) = n /\ \A j \in 1..n : s[j] = d[j]
  <2>1. 1 \in Nat /\ 1 >= 1 /\ 1 <= n + 1 /\ n + 1 - 1 = n /\ \A j \in 1..n : 1 + j - 1 = j
    BY <1>1
  <2> HIDE DEF s
  <2>2. /\ s \in Seq(Nat) /\ Len(s) = n + 1 - 1
        /\ \A j \in 1..(n + 1 - 1) : s[j] = d[1 + j - 1]
    BY <1>1, <2>1, SeqSegment DEF s, L
  <2> QED
    BY <2>1, <2>2
<1>3. i \in CertPositions(s)
  OBVIOUS
<1> HIDE DEF s, L
<1>4. i \in 1..(n - 4) /\ IsCertAt(s, i)
  BY <1>2, <1>3 DEF CertPositions
<1>5. /\ i \in Nat /\ i >= 1 /\ i \in 1..n /\ i \in 1..L /\ i \in 1..(L - 4)
      /\ k \in Nat /\ k \in 0..(L + 1 - i) /\ i + k - 1 = n /\ i <= n + 1
  BY <1>1, <1>4
<1>6. f \in Seq(Nat) /\ Len(f) = k /\ f[1] = s[i]
  BY <1>2, <1>5, BeginningOfRest
<1>7. /\ g \in Seq(Nat) /\ Len(g) = L + 1 - i /\ g[1] = d[i]
      /\ SubSeq(g, 1, k) = SubSeq(d, i, i + k - 1)
  BY <1>5, BeginningOfRest DEF L
<1>8. f = SubSeq(g, 1, k)
  <2> DEFINE v == SubSeq(d, i, n)
             u == SubSeq(s, i, n)
  <2>1. /\ u \in Seq(Nat) /\ Len(u) = n + 1 - i
        /\ \A j \in 1..(n + 1 - i) : u[j] = s[i + j - 1]
    BY <1>1, <1>2, <1>5, SeqSegment
  <2>2. /\ v \in Seq(Nat) /\ Len(v) = n + 1 - i
        /\ \A j \in 1..(n + 1 - i) : v[j] = d[i + j - 1]
    BY <1>1, <1>5, SeqSegment DEF L
  <2>3. \A j \in 1..(n + 1 - i) : i + j - 1 \in 1..n
    BY <1>1, <1>5
  <2>4. f = u
    BY <1>2 DEF From
  <2> HIDE DEF u, v, f, g
  <2>5. Len(u) = Len(v) /\ \A j \in 1..Len(u) : u[j] = v[j]
    BY <1>2, <2>1, <2>2, <2>3
  <2>6. u = v
    BY <2>1, <2>2, <2>5, SeqSame
  <2>7. SubSeq(g, 1, k) = v
    BY <1>5, <1>7 DEF v
  <2> QED
    BY <2>4, <2>6, <2>7
<1>9. ~Passed(f) /\ (IsObject(f) => ObjectAt(s, i) = SubSeq(f, 1, TlvLen(f)))
  <2>1. i \in 1..Len(s)
    BY <1>2, <1>5
  <2> QED
    BY <1>2, <1>4, <2>1, ScanAt
<1>10. /\ IsCertAt(d, i) <=> ~Passed(g)
       /\ IsObject(g) => ObjectAt(d, i) = SubSeq(g, 1, TlvLen(g))
  BY <1>5, ScanAt DEF L
<1> HIDE DEF f, g, k
<1>11. f[1] = 48 /\ IsObject(f) /\ is_mldsa44_certificate_like(SubSeq(f, 1, TlvLen(f)))
       /\ IsTlv(f)
  BY <1>9, Zenon DEF Passed, IsObject
<1>12. k \in 0..Len(g) /\ IsTlv(SubSeq(g, 1, k))
  BY <1>5, <1>7, <1>8, <1>11
<1>13. /\ IsTlv(g) /\ TlvLen(g) = TlvLen(SubSeq(g, 1, k)) /\ TlvLen(g) \in 0..k
       /\ SubSeq(g, 1, k)[1] = g[1]
       /\ SubSeq(SubSeq(g, 1, k), 1, TlvLen(g)) = SubSeq(g, 1, TlvLen(g))
  BY <1>7, <1>12, CutTlv
<1>14. TlvLen(g) = TlvLen(f) /\ g[1] = 48 /\ SubSeq(f, 1, TlvLen(f)) = SubSeq(g, 1, TlvLen(g))
  BY <1>8, <1>11, <1>13
<1>15. ~Passed(g) /\ IsObject(g)
  BY <1>11, <1>13, <1>14, Zenon DEF Passed, IsObject
<1>16. ObjectAt(s, i) = ObjectAt(d, i) /\ ObjectAt(d, i) = SubSeq(g, 1, TlvLen(g))
  BY <1>9, <1>10, <1>11, <1>14, <1>15
<1>17. i \in CertPositions(d)
  BY <1>5, <1>10, <1>15 DEF CertPositions, L
<1>18. Len(ObjectAt(d, i)) = TlvLen(g) /\ TlvLen(g) \in Nat /\ TlvLen(g) <= k
  <2> DEFINE b == TlvLen(g)
             o == SubSeq(g, 1, b)
  <2>1. b \in Nat /\ b <= k /\ k <= Len(g) /\ k \in Nat /\ Len(g) \in Nat
    BY <1>5, <1>7, <1>12, <1>13, SeqDomain
  <2> HIDE DEF b
  <2>2. b <= Len(g) /\ 1 \in Nat /\ 1 >= 1 /\ 1 <= b + 1 /\ b + 1 - 1 = b
    BY <2>1
  <2> HIDE DEF o
  <2>3. Len(o) = b + 1 - 1
    BY <1>7, <2>1, <2>2, SeqSegment DEF o
  <2> QED
    BY <1>16, <2>1, <2>2, <2>3 DEF o, b
<1>19. Len(ObjectAt(d, i)) \in Nat /\ i + Len(ObjectAt(d, i)) <= n + 1
  <2> DEFINE z == Len(ObjectAt(d, i))
  <2>1. z \in Nat /\ z <= k
    BY <1>18
  <2> HIDE DEF z
  <2>2. i + z <= n + 1
    BY <1>1, <1>5, <2>1 DEF k
  <2> QED
    BY <2>1, <2>2 DEF z
<1> QED
  BY <1>5, <1>16, <1>17, <1>19 DEF s

\* Where the certificate stands in a response.
LEMMA ResponseStops ==
    ASSUME NEW crt \in Seq(Nat), IsCertificate(crt), Small(cert_der_to_pkcs7(crt))
    PROVE  \E p, x : p \in Seq(Nat) /\ Stops(p, crt, x, cert_der_to_pkcs7(crt))
<1> DEFINE none == der_set(<<>>)
           response == cert_der_to_pkcs7(crt)
<1>1. Small(response)
  OBVIOUS
<1>2. none \in Seq(Nat) /\ Len(none) = 2
  BY Pkcs7Items DEF NoTag
<1>3. Small(crt) /\ (Begins(crt \o none, Len(crt)) => Leads(response, crt \o none))
  BY <1>1, Pkcs7Leads
<1> HIDE DEF none, response
<1>4. PICK c \in Seq(Nat) : /\ Fits(Len(c)) /\ crt = der_wrap(48, c) /\ Len(crt) >= 3
                            /\ is_mldsa44_certificate_like(crt)
  BY <1>3, CertificateScanned
<1>5. Begins(crt \o none, Len(crt))
  <2>1. Begins(der_wrap(48, c) \o none, Len(der_wrap(48, c)))
    BY <1>2, <1>4, WrapBegins
  <2> QED
    BY <1>4, <2>1
<1> DEFINE x == crt \o none
<1>6. Leads(response, x)
  BY <1>3, <1>5
<1> HIDE DEF x
<1>7. PICK p \in Seq(Nat) : response = p \o x /\ Clean(p, x)
  BY <1>6, LeadsFact
<1>8. Len(der_wrap(48, c)) >= 3 /\ is_mldsa44_certificate_like(der_wrap(48, c))
  BY <1>4
<1>9. Stops(p, der_wrap(48, c), der_wrap(48, c) \o none, p \o (der_wrap(48, c) \o none))
  BY <1>2, <1>4, <1>8, CertHere
<1>10. Stops(p, crt, x, response)
  BY <1>4, <1>7, <1>9 DEF x
<1> QED
  BY <1>10 DEF response

\* The scan stops at the first such position.
LEMMA FirstFound ==
    ASSUME NEW s
    PROVE  find_first_der_certificate(s) =
              IF CertPositions(s) = {} THEN <<>>
              ELSE ObjectAt(s, CHOOSE i \in CertPositions(s) : \A j \in CertPositions(s) : i <= j)
BY Zenon DEF find_first_der_certificate

\* In a response of which the end is missing it finds the certificate or none, and
\* none when three octets are missing: the last two are not the certificate's.
LEMMA CutScanned ==
    ASSUME NEW crt \in Seq(Nat), IsCertificate(crt), Small(cert_der_to_pkcs7(crt)),
           OneCertificate(cert_der_to_pkcs7(crt)), NEW n \in 0..Len(cert_der_to_pkcs7(crt)),
           find_first_der_certificate(SubSeq(cert_der_to_pkcs7(crt), 1, n)) # <<>>
    PROVE  /\ find_first_der_certificate(SubSeq(cert_der_to_pkcs7(crt), 1, n)) = crt
           /\ Len(cert_der_to_pkcs7(crt)) <= n + 2
<1> DEFINE d == cert_der_to_pkcs7(crt)
           s == SubSeq(d, 1, n)
           P == CertPositions(s)
<1>1. d \in Seq(Nat) /\ Len(d) \in Nat /\ n \in 0..Len(d) /\ OneCertificate(d) /\ n \in Nat
      /\ find_first_der_certificate(s) # <<>>
  BY Pkcs7Fact, SeqDomain
<1>2. PICK p, x : p \in Seq(Nat) /\ Stops(p, crt, x, d)
  BY ResponseStops
<1> HIDE DEF d, s, P
<1>3. find_first_der_certificate(s) =
         IF P = {} THEN <<>> ELSE ObjectAt(s, CHOOSE i \in P : \A j \in P : i <= j)
  BY FirstFound, Zenon DEF P
<1>4. P # {}
  BY <1>1, <1>3
<1>5. ASSUME NEW i \in P
      PROVE  /\ i = Len(p) + 1 /\ ObjectAt(s, i) = crt /\ Len(crt) \in Nat
             /\ i + Len(crt) <= n + 1
  <2>1. i \in CertPositions(SubSeq(d, 1, n))
    BY DEF P, s
  <2>2. /\ i \in CertPositions(d) /\ ObjectAt(SubSeq(d, 1, n), i) = ObjectAt(d, i)
        /\ Len(ObjectAt(d, i)) \in Nat /\ i + Len(ObjectAt(d, i)) <= n + 1
    BY <1>1, <2>1, CutCert
  <2>3. Len(p) + 1 \in CertPositions(d) /\ ObjectAt(d, Len(p) + 1) = crt
    BY <1>2 DEF Stops
  <2>4. i = Len(p) + 1
    BY <1>1, <2>2, <2>3 DEF OneCertificate
  <2>5. ObjectAt(s, i) = crt /\ Len(crt) \in Nat
    BY <2>2, <2>3, <2>4 DEF s
  <2>6. i + Len(crt) <= n + 1
    BY <2>2, <2>5 DEF s
  <2> QED
    BY <2>4, <2>5, <2>6
<1>6. Len(p) \in Nat /\ Len(d) = Len(p) + Len(crt) + 2
  BY <1>2 DEF Stops
<1> DEFINE a == CHOOSE i \in P : \A j \in P : i <= j
<1>7. a \in P /\ \A j \in P : a <= j
  <2>1. PICK i \in P : TRUE
    BY <1>4
  <2>2. \A j \in P : i <= j
    <3> TAKE j \in P
    <3>1. i = Len(p) + 1 /\ j = Len(p) + 1
      BY <1>5, <2>1
    <3> QED
      BY <1>6, <3>1
  <2>3. \E k \in P : \A j \in P : k <= j
    BY <2>2
  <2> QED
    BY <2>3, Zenon
<1> HIDE DEF a
<1>8. a = Len(p) + 1 /\ ObjectAt(s, a) = crt /\ Len(crt) \in Nat /\ a + Len(crt) <= n + 1
  BY <1>5, <1>7
<1>9. find_first_der_certificate(s) = crt
  BY <1>3, <1>4, <1>8 DEF a
<1>10. Len(d) <= n + 2
  BY <1>1, <1>6, <1>8
<1> QED
  BY <1>9, <1>10 DEF d, s

=============================================================================
