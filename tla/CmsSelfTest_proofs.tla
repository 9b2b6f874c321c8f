------------------------- MODULE CmsSelfTest_proofs -------------------------
(***************************************************************************)
(* Theorems about the CMS self-tests, for messages of all lengths.         *)
(***************************************************************************)
EXTENDS CmsSelfTest, SeqLemmas

(***************************************************************************)
(* The writer.                                                             *)
(***************************************************************************)

\* The calls write the bytes b, one after the other.
Partial(calls, j) ==
    /\ j \in [0..Len(calls) -> Seq(Nat)] /\ j[0] = <<>>
    /\ \A i \in 1..Len(calls) : j[i] = j[i - 1] \o calls[i]

Puts(calls, b) ==
    /\ calls \in Seq(Seq(Nat)) /\ b \in Seq(Nat)
    /\ \E j : Partial(calls, j) /\ j[Len(calls)] = b

\* Concatenation of bytes is associative.
LEMMA NatAssoc ==
    \A s \in Seq(Nat), t \in Seq(Nat), u \in Seq(Nat) : (s \o t) \o u = s \o (t \o u)
<1> TAKE s \in Seq(Nat), t \in Seq(Nat), u \in Seq(Nat)
<1> QED
  BY SMTT(60)

\* One call writes its argument,
LEMMA PutsOne ==
    ASSUME NEW b \in Seq(Nat)
    PROVE  Puts(<<b>>, b)
<1> DEFINE calls == <<b>>
           j == [i \in 0..1 |-> IF i = 0 THEN <<>> ELSE b]
<1>1. calls \in Seq(Seq(Nat)) /\ Len(calls) = 1 /\ calls[1] = b
  OBVIOUS
<1>2. <<>> \in Seq(Nat) /\ <<>> \o b = b
  BY SeqNone, SeqUnit
<1>3. j \in [0..1 -> Seq(Nat)] /\ j[0] = <<>> /\ j[1] = b
  BY <1>2
<1> HIDE DEF j, calls
<1>4. Partial(calls, j)
  <2>1. \A i \in 1..1 : i = 1 /\ i - 1 = 0
    OBVIOUS
  <2> QED
    BY <1>1, <1>2, <1>3, <2>1 DEF Partial
<1>5. Puts(calls, b)
  BY <1>1, <1>3, <1>4 DEF Puts
<1> QED
  BY <1>5 DEF calls

\* and two sequences of calls write what both write.
LEMMA PutsConcat ==
    ASSUME NEW p, NEW x, Puts(p, x), NEW q, NEW y, Puts(q, y)
    PROVE  Puts(p \o q, x \o y)
<1> DEFINE m == Len(p)
           n == Len(q)
           c == p \o q
<1>1. p \in Seq(Seq(Nat)) /\ q \in Seq(Seq(Nat)) /\ x \in Seq(Nat) /\ y \in Seq(Nat)
  BY DEF Puts
<1>2. PICK j : Partial(p, j) /\ j[m] = x
  BY DEF Puts
<1>3. PICK k : Partial(q, k) /\ k[n] = y
  BY DEF Puts
<1>4. /\ c \in Seq(Seq(Nat)) /\ Len(c) = m + n /\ m \in Nat /\ n \in Nat
      /\ \A i \in 1..m : c[i] = p[i]
      /\ \A i \in 1..(m + n) : i > m => c[i] = q[i - m]
  BY <1>1, SeqConcat, SeqDomain
<1>5. /\ j \in [0..m -> Seq(Nat)] /\ j[0] = <<>> /\ \A i \in 1..m : j[i] = j[i - 1] \o p[i]
  BY <1>2 DEF Partial
<1>6. /\ k \in [0..n -> Seq(Nat)] /\ k[0] = <<>> /\ \A i \in 1..n : k[i] = k[i - 1] \o q[i]
  BY <1>3 DEF Partial
<1>7. \A i \in 1..n : q[i] \in Seq(Nat)
  BY <1>1, SeqElt
<1> DEFINE f == [i \in 0..(m + n) |-> IF i <= m THEN j[i] ELSE x \o k[i - m]]
<1> HIDE DEF c, m, n
<1>8. /\ f \in [0..(m + n) -> Seq(Nat)]
      /\ \A i \in 0..(m + n) : /\ i <= m => f[i] = j[i]
                               /\ i > m => f[i] = x \o k[i - m]
  <2>1. ASSUME NEW i \in 0..(m + n), ~(i <= m) PROVE x \o k[i - m] \in Seq(Nat)
    <3>1. i - m \in 0..n
      BY <1>4, <2>1
    <3>2. k[i - m] \in Seq(Nat)
      BY <1>6, <3>1
    <3> QED
      BY <1>1, <3>2, SeqConcat
  <2>2. ASSUME NEW i \in 0..(m + n), i <= m PROVE j[i] \in Seq(Nat)
    <3>1. i \in 0..m
      BY <1>4, <2>2
    <3> QED
      BY <1>5, <3>1
  <2>3. f \in [0..(m + n) -> Seq(Nat)]
    BY <2>1, <2>2
  <2>4. \A i \in 0..(m + n) : i > m => ~(i <= m)
    BY <1>4
  <2> QED
    BY <2>3, <2>4
<1> HIDE DEF f
<1>9. ASSUME NEW i \in 1..(m + n) PROVE f[i] = f[i - 1] \o c[i]
  <2>1. i \in 0..(m + n) /\ i - 1 \in 0..(m + n)
    BY <1>4
  <2>2. CASE i <= m
    <3>1. i \in 1..m /\ i - 1 <= m
      BY <1>4, <2>2
    <3> QED
      BY <1>4, <1>5, <1>8, <2>1, <2>2, <3>1
  <2>3. CASE i = m + 1
    <3>1. i - m = 1 /\ i > m /\ i - 1 = m /\ i - 1 <= m /\ 1 \in 1..n /\ 1 - 1 = 0
      BY <1>4, <2>3
    <3>2. k[1] = <<>> \o q[1] /\ q[1] \in Seq(Nat)
      BY <1>6, <1>7, <3>1
    <3>3. k[1] = q[1]
      BY <3>2, SeqUnit
    <3>4. f[i] = x \o q[1]
      BY <1>8, <2>1, <3>1, <3>3
    <3>5. f[i - 1] = x
      BY <1>2, <1>8, <2>1, <3>1
    <3>6. c[i] = q[1]
      BY <1>4, <3>1
    <3> QED
      BY <3>4, <3>5, <3>6
  <2>4. CASE i > m + 1
    <3>1. i > m /\ i - 1 > m /\ i - m \in 1..n /\ (i - 1) - m = (i - m) - 1 /\ (i - m) - 1 \in 0..n
      BY <1>4, <2>4
    <3>2. f[i] = x \o k[i - m] /\ f[i - 1] = x \o k[(i - m) - 1] /\ c[i] = q[i - m]
      BY <1>4, <1>8, <2>1, <3>1
    <3>3. k[i - m] = k[(i - m) - 1] \o q[i - m]
      BY <1>6, <3>1
    <3>4. k[(i - m) - 1] \in Seq(Nat) /\ q[i - m] \in Seq(Nat)
      BY <1>6, <1>7, <3>1
    <3>5. (x \o k[(i - m) - 1]) \o q[i - m] = x \o (k[(i - m) - 1] \o q[i - m])
      BY <1>1, <3>4, NatAssoc
    <3> QED
      BY <3>2, <3>3, <3>5
  <2>5. i <= m \/ i = m + 1 \/ i > m + 1
    BY <1>4
  <2> QED
    BY <2>2, <2>3, <2>4, <2>5
<1>10. f[0] = <<>>
  BY <1>4, <1>5, <1>8
<1>11. f[m + n] = x \o y
  <2>1. CASE n = 0
    <3>1. m + n = m /\ m <= m /\ m \in 0..(m + n) /\ y = <<>>
      BY <1>3, <1>4, <1>6, <2>1
    <3>2. x \o <<>> = x
      BY <1>1, SeqUnit
    <3> QED
      BY <1>2, <1>8, <3>1, <3>2
  <2>2. CASE n # 0
    <3>1. m + n > m /\ (m + n) - m = n /\ m + n \in 0..(m + n)
      BY <1>4, <2>2
    <3> QED
      BY <1>3, <1>8, <3>1
  <2> QED
    BY <2>1, <2>2
<1>12. Partial(c, f)
  BY <1>4, <1>8, <1>9, <1>10 DEF Partial
<1>13. x \o y \in Seq(Nat)
  BY <1>1, SeqConcat
<1>14. Puts(c, x \o y)
  BY <1>4, <1>11, <1>12, <1>13 DEF Puts
<1> QED
  BY <1>14 DEF c

\* The state of a writer; what one call of der_put makes of it.
Writers(size) == [buf : Seq(Nat), size : {size}, ok : BOOLEAN]
Fresh(size) == [buf |-> <<>>, size |-> size, ok |-> TRUE]

LEMMA FreshFact ==
    ASSUME NEW size \in Nat
    PROVE  Fresh(size) \in Writers(size) /\ Fresh(size).buf = <<>> /\ Fresh(size).ok
BY SeqNone DEF Fresh, Writers

LEMMA PutFact ==
    ASSUME NEW size \in Nat, NEW w \in Writers(size), NEW b \in Seq(Nat)
    PROVE  /\ der_put(w, b) \in Writers(size)
           /\ der_put(w, b).ok <=> w.ok /\ Len(w.buf) + Len(b) <= size
           /\ der_put(w, b).ok => der_put(w, b).buf = w.buf \o b
<1>1. w.buf \in Seq(Nat) /\ w.size = size /\ w.ok \in BOOLEAN /\ w.buf \o b \in Seq(Nat)
  <2>1. w.buf \in Seq(Nat) /\ w.size = size /\ w.ok \in BOOLEAN
    BY DEF Writers
  <2> QED
    BY <2>1, SeqConcat
<1> DEFINE c == w.buf \o b
<1> HIDE DEF c
<1>2. CASE w.ok /\ Len(w.buf) + Len(b) <= w.size
  <2>1. der_put(w, b) = [w EXCEPT !.buf = c]
    BY <1>2 DEF der_put, c
  <2>2. [w EXCEPT !.buf = c] \in Writers(size) /\ [w EXCEPT !.buf = c].buf = c
        /\ [w EXCEPT !.buf = c].ok = w.ok
    BY <1>1 DEF Writers, c
  <2> QED
    BY <1>1, <1>2, <2>1, <2>2 DEF c
<1>3. CASE ~(w.ok /\ Len(w.buf) + Len(b) <= w.size)
  <2>1. der_put(w, b) = [w EXCEPT !.ok = FALSE]
    BY <1>3 DEF der_put
  <2>2. [w EXCEPT !.ok = FALSE] \in Writers(size) /\ [w EXCEPT !.ok = FALSE].ok = FALSE
    BY DEF Writers
  <2> QED
    BY <1>1, <1>3, <2>1, <2>2
<1> QED
  BY <1>2, <1>3

\* The states the writer goes through.
Writing(w, size, calls) ==
    /\ w \in [0..Len(calls) -> Writers(size)] /\ w[0] = Fresh(size)
    /\ \A i \in 1..Len(calls) : w[i] = der_put(w[i - 1], calls[i])

LEMMA WriterStates ==
    ASSUME NEW size \in Nat, NEW calls \in Seq(Seq(Nat))
    PROVE  \E w : Writing(w, size, calls) /\ Written(size, calls) = w[Len(calls)]
<1> DEFINE n == Len(calls)
           W == Writers(size)
           base == [buf |-> <<>>, size |-> size, ok |-> TRUE]
           Body(f) == [i \in 0..n |-> IF i = 0 THEN base ELSE der_put(f[i - 1], calls[i])]
           F == CHOOSE f : f = Body(f)
           St == [i \in 1..n |-> [v \in W |-> der_put(v, calls[i])]]
<1>1. n \in Nat /\ base \in W /\ base = Fresh(size)
  BY SeqDomain, FreshFact DEF Fresh
<1>2. Written(size, calls) = F[n]
  BY Zenon DEF Written
<1>3. ASSUME NEW i \in 1..n, NEW v \in W PROVE der_put(v, calls[i]) \in W
  <2>1. calls[i] \in Seq(Nat)
    BY SeqElt
  <2> HIDE DEF n
  <2> QED
    BY <2>1, PutFact
<1> HIDE DEF n, W, base
<1>4. St \in [1..n -> [W -> W]] /\ \A i \in 1..n, v \in W : St[i][v] = der_put(v, calls[i])
  BY <1>3
<1> HIDE DEF St
<1>5. PICK h : Computes(h, W, base, n, St)
  BY <1>1, <1>4, NatRecursion
<1>6. h \in [0..n -> W] /\ h[0] = base /\ \A i \in 1..n : h[i] = St[i][h[i - 1]]
  BY <1>5 DEF Computes
<1>7. ASSUME NEW i \in 0..n PROVE h[i] = IF i = 0 THEN base ELSE der_put(h[i - 1], calls[i])
  <2>1. CASE i = 0
    BY <1>6, <2>1
  <2>2. CASE i # 0
    <3>1. i \in 1..n /\ i - 1 \in 0..n
      BY <1>1, <2>2
    <3>2. h[i - 1] \in W
      BY <1>6, <3>1
    <3> QED
      BY <1>4, <1>6, <2>2, <3>1, <3>2
  <2> QED
    BY <2>1, <2>2
<1>8. h = Body(h)
  <2>1. h = [i \in 0..n |-> h[i]]
    BY <1>6
  <2> QED
    BY <1>7, <2>1
<1>9. F = Body(F)
  <2>1. \E f : f = Body(f)
    BY <1>8
  <2> HIDE DEF Body
  <2> QED
    BY <2>1
<1> HIDE DEF F
<1>10. /\ F = [i \in 0..n |-> F[i]] /\ F[0] = base
       /\ \A i \in 1..n : F[i] = der_put(F[i - 1], calls[i])
  <2>1. \A i \in 0..n : F[i] = IF i = 0 THEN base ELSE der_put(F[i - 1], calls[i])
    BY <1>9
  <2>2. 0 \in 0..n /\ \A i \in 1..n : i \in 0..n /\ i # 0
    BY <1>1
  <2>3. F = [i \in 0..n |-> F[i]]
    BY <1>9
  <2> QED
    BY <2>1, <2>2, <2>3
<1>11. \A i \in 0..n : F[i] \in W
  <2> DEFINE T == {i \in 0..n : F[i] \in W}
  <2>1. 0 \in T
    BY <1>1, <1>10
  <2>2. ASSUME NEW i \in 0..n, i \in T, i < n PROVE i + 1 \in T
    <3>1. i + 1 \in 1..n /\ i + 1 \in 0..n /\ (i + 1) - 1 = i
      BY <1>1, <2>2
    <3>2. F[i + 1] = der_put(F[i], calls[i + 1])
      BY <1>10, <3>1
    <3> QED
      BY <1>3, <2>2, <3>1, <3>2
  <2>3. \A i \in 0..n : i \in T
    <3> HIDE DEF T
    <3> QED
      BY <1>1, <2>1, <2>2, NatUpTo
  <2> QED
    BY <2>3
<1>12. F \in [0..n -> W]
  BY <1>10, <1>11
<1>13. Writing(F, size, calls)
  BY <1>1, <1>10, <1>12 DEF Writing, n, W
<1> QED
  BY <1>2, <1>13 DEF n

\* A message is written unless it is too long.
LEMMA WrittenFact ==
    ASSUME NEW size \in Nat, NEW calls, NEW b, Puts(calls, b)
    PROVE  /\ Written(size, calls).ok <=> Len(b) <= size
           /\ Written(size, calls).ok => Written(size, calls).buf = b
<1> DEFINE n == Len(calls)
<1>1. calls \in Seq(Seq(Nat)) /\ b \in Seq(Nat) /\ n \in Nat /\ \A i \in 1..n : calls[i] \in Seq(Nat)
  <2>1. calls \in Seq(Seq(Nat)) /\ b \in Seq(Nat)
    BY DEF Puts
  <2> QED
    BY <2>1, SeqDomain, SeqElt
<1>2. PICK j : Partial(calls, j) /\ j[n] = b
  BY DEF Puts
<1>3. PICK w : Writing(w, size, calls) /\ Written(size, calls) = w[n]
  BY <1>1, WriterStates
<1>4. /\ j \in [0..n -> Seq(Nat)] /\ j[0] = <<>> /\ \A i \in 1..n : j[i] = j[i - 1] \o calls[i]
  BY <1>2 DEF Partial
<1>5. /\ w \in [0..n -> Writers(size)] /\ w[0] = Fresh(size)
      /\ \A i \in 1..n : w[i] = der_put(w[i - 1], calls[i])
  BY <1>3 DEF Writing
<1> DEFINE So(i) == (w[i].ok <=> Len(j[i]) <= size) /\ (w[i].ok => w[i].buf = j[i])
           T == {i \in 0..n : So(i)}
<1> HIDE DEF n
<1>6. 0 \in T
  <2> HIDE DEF So
  <2>1. Len(<<>>) = 0 /\ 0 <= size /\ 0 \in 0..n
    BY <1>1
  <2>2. w[0].ok /\ w[0].buf = <<>> /\ j[0] = <<>>
    BY <1>4, <1>5, FreshFact
  <2>3. So(0)
    BY <2>1, <2>2 DEF So
  <2> QED
    BY <2>1, <2>3
<1>7. ASSUME NEW i \in 0..n, i \in T, i < n PROVE i + 1 \in T
  <2>1. i + 1 \in 1..n /\ i + 1 \in 0..n /\ (i + 1) - 1 = i
    BY <1>1, <1>7
  <2> DEFINE v == w[i]
             c == calls[i + 1]
             p == j[i]
  <2>2. v \in Writers(size) /\ c \in Seq(Nat) /\ p \in Seq(Nat)
    BY <1>1, <1>4, <1>5, <2>1
  <2>3. w[i + 1] = der_put(v, c) /\ j[i + 1] = p \o c
    BY <1>4, <1>5, <2>1
  <2>4. (v.ok <=> Len(p) <= size) /\ (v.ok => v.buf = p)
    BY <1>7
  <2> HIDE DEF v, c, p
  <2>5. /\ der_put(v, c).ok <=> v.ok /\ Len(v.buf) + Len(c) <= size
        /\ der_put(v, c).ok => der_put(v, c).buf = v.buf \o c
    BY <2>2, PutFact
  <2>6. Len(p \o c) = Len(p) + Len(c) /\ Len(p) \in Nat /\ Len(c) \in Nat
    BY <2>2, SeqConcat, SeqDomain
  <2>7. Len(p) + Len(c) <= size => Len(p) <= size
    BY <2>6
  <2>8. /\ der_put(v, c).ok <=> Len(p \o c) <= size
        /\ der_put(v, c).ok => der_put(v, c).buf = p \o c
    BY <2>4, <2>5, <2>6, <2>7
  <2>9. So(i + 1)
    BY <2>3, <2>8
  <2> HIDE DEF So
  <2> QED
    BY <2>1, <2>9
<1>8. n \in T
  <2>1. \A i \in 0..n : i \in T
    <3> HIDE DEF T
    <3> QED
      BY <1>1, <1>6, <1>7, NatUpTo
  <2> QED
    BY <1>1, <2>1
<1> QED
  BY <1>2, <1>3, <1>8

(***************************************************************************)
(* What the operators of the writer write.                                 *)
(***************************************************************************)
H(tag, n) == <<tag>> \o LenField(n)

LEMMA OctetsFact ==
    ASSUME NEW n \in Nat
    PROVE  Octets(n) \in Seq(Nat) /\ Len(Octets(n)) \in Nat
<1> DEFINE a == n \div (256 * 256 * 256)
           b == (n \div (256 * 256)) % 256
           c == (n \div 256) % 256
           d == n % 256
           f == IF n < 256 THEN 4 ELSE IF n < 256 * 256 THEN 3 ELSE IF n <= MaxLen THEN 2 ELSE 1
<1>1. a \in Nat /\ b \in Nat /\ c \in Nat /\ d \in Nat
  <2>1. \A m \in Nat : m \div 256 \in Nat /\ m % 256 \in Nat
    OBVIOUS
  <2>2. a \in Nat /\ n \div (256 * 256) \in Nat
    OBVIOUS
  <2> QED
    BY <2>1, <2>2
<1>2. f \in 1..4
  OBVIOUS
<1> HIDE DEF a, b, c, d, f
<1>3. <<a, b, c, d>> \in Seq(Nat) /\ Len(<<a, b, c, d>>) = 4
  BY <1>1
<1>4. SubSeq(<<a, b, c, d>>, f, 4) \in Seq(Nat) /\ Len(SubSeq(<<a, b, c, d>>, f, 4)) = 4 + 1 - f
  <2>1. f \in Nat /\ 4 \in Nat /\ f >= 1 /\ 4 <= 4 /\ f <= 4 + 1
    BY <1>2
  <2> HIDE DEF f
  <2> QED
    BY <1>3, <2>1, SeqSegment
<1>5. Octets(n) = SubSeq(<<a, b, c, d>>, f, 4)
  BY DEF Octets, a, b, c, d, f
<1> QED
  BY SMTT(60), <1>2, <1>4, <1>5

\* The header of an object; the length of its length.
LEMMA HeaderFact ==
    ASSUME NEW tag \in Nat, NEW n \in Nat
    PROVE  /\ LenField(n) \in Seq(Nat) /\ H(tag, n) \in Seq(Nat)
           /\ der_len_len(n) \in Nat /\ der_tlv_len(n) \in Nat
           /\ Len(H(tag, n)) + n = der_tlv_len(n)
<1>1. Octets(n) \in Seq(Nat) /\ Len(Octets(n)) \in Nat
  BY OctetsFact
<1>2. LenField(n) \in Seq(Nat) /\ Len(LenField(n)) = der_len_len(n)
  <2>1. CASE n < 128
    BY <2>1, SeqSmall DEF LenField, der_len_len
  <2>2. CASE ~(n < 128)
    <3> DEFINE o == Octets(n)
               l == 128 + Len(o)
    <3>1. LenField(n) = <<l>> \o o /\ der_len_len(n) = 1 + Len(o) /\ l \in Nat
      BY <1>1, <2>2 DEF LenField, der_len_len
    <3> HIDE DEF l, o
    <3>2. <<l>> \in Seq(Nat) /\ Len(<<l>>) = 1
      BY <3>1
    <3> QED
      BY <1>1, <3>1, <3>2, SeqConcat DEF o
  <2> QED
    BY <2>1, <2>2
<1>3. der_len_len(n) \in Nat
  BY <1>1 DEF der_len_len
<1>4. <<tag>> \in Seq(Nat) /\ Len(<<tag>>) = 1
  OBVIOUS
<1> DEFINE l == LenField(n)
<1> HIDE DEF l
<1>5. <<tag>> \o l \in Seq(Nat) /\ Len(<<tag>> \o l) = 1 + Len(l)
  BY <1>2, <1>4, SeqConcat DEF l
<1> QED
  BY <1>2, <1>3, <1>5 DEF H, l, der_tlv_len

LEMMA TlvFact ==
    ASSUME NEW tag \in Nat, NEW x \in Seq(Nat)
    PROVE  /\ Tlv(tag, x) = H(tag, Len(x)) \o x
           /\ Tlv(tag, x) \in Seq(Nat) /\ Len(Tlv(tag, x)) = der_tlv_len(Len(x))
<1> DEFINE h == H(tag, Len(x))
<1>1. h \in Seq(Nat) /\ Len(h) + Len(x) = der_tlv_len(Len(x))
  BY SeqDomain, HeaderFact
<1>2. Tlv(tag, x) = h \o x
  BY DEF Tlv, H
<1> HIDE DEF h
<1>3. h \o x \in Seq(Nat) /\ Len(h \o x) = Len(h) + Len(x)
  BY <1>1, SeqConcat
<1> QED
  BY <1>1, <1>2, <1>3 DEF h

LEMMA HeaderPuts ==
    ASSUME NEW tag \in Nat, NEW n \in Nat
    PROVE  Puts(der_put_tlv_header(tag, n), H(tag, n))
<1> DEFINE l == LenField(n)
           t == <<tag>>
<1>1. l \in Seq(Nat) /\ t \in Seq(Nat)
  BY HeaderFact
<1>2. der_put_tlv_header(tag, n) = <<t, l>> /\ H(tag, n) = t \o l
  BY DEF der_put_tlv_header, H
<1> HIDE DEF l, t
<1>3. <<t, l>> = <<t>> \o <<l>>
  BY <1>1
<1>4. Puts(<<t>>, t) /\ Puts(<<l>>, l)
  BY <1>1, PutsOne
<1>5. Puts(<<t>> \o <<l>>, t \o l)
  BY <1>4, PutsConcat
<1> QED
  BY <1>2, <1>3, <1>5

\* An object none of whose content is structured.
LEMMA PlainPuts ==
    ASSUME NEW tag \in Nat, NEW x \in Seq(Nat)
    PROVE  Puts(der_put_tlv_header(tag, Len(x)) \o <<x>>, Tlv(tag, x))
<1> DEFINE hs == der_put_tlv_header(tag, Len(x))
           h == H(tag, Len(x))
<1>1. Puts(hs, h)
  BY SeqDomain, HeaderPuts
<1>2. Tlv(tag, x) = h \o x
  BY TlvFact
<1>3. Puts(<<x>>, x)
  BY PutsOne
<1> HIDE DEF hs, h
<1>4. Puts(hs \o <<x>>, h \o x)
  BY <1>1, <1>3, PutsConcat
<1> QED
  BY <1>2, <1>4 DEF hs

(***************************************************************************)
(* Writing forward: q is p and then calls that write the n bytes of x.     *)
(***************************************************************************)
Adds(p, x, n, q) ==
    /\ p \in Seq(Seq(Nat)) /\ x \in Seq(Nat) /\ n \in Nat /\ Len(x) = n
    /\ \E c : Puts(c, x) /\ q = p \o c

LEMMA CallsAssoc ==
    \A s \in Seq(Seq(Nat)), t \in Seq(Seq(Nat)), u \in Seq(Seq(Nat)) :
        (s \o t) \o u = s \o (t \o u)
<1> TAKE s \in Seq(Seq(Nat)), t \in Seq(Seq(Nat)), u \in Seq(Seq(Nat))
<1> DEFINE S == Seq(Nat)
<1> HIDE DEF S
<1>1. s \in Seq(S) /\ t \in Seq(S) /\ u \in Seq(S)
  BY DEF S
<1> QED
  BY <1>1

LEMMA AddsPuts ==
    ASSUME NEW p \in Seq(Seq(Nat)), NEW c, NEW x, Puts(c, x), NEW n, n = Len(x)
    PROVE  Adds(p, x, n, p \o c)
<1>1. x \in Seq(Nat)
  BY DEF Puts
<1>2. Len(x) \in Nat
  BY <1>1, SeqDomain
<1> QED
  BY <1>1, <1>2 DEF Adds

LEMMA AddsType ==
    ASSUME NEW p, NEW x, NEW n, NEW q, Adds(p, x, n, q)
    PROVE  q \in Seq(Seq(Nat)) /\ x \in Seq(Nat) /\ n \in Nat /\ Len(x) = n
<1>1. p \in Seq(Seq(Nat)) /\ x \in Seq(Nat) /\ n \in Nat /\ Len(x) = n
  BY DEF Adds
<1>2. PICK c : Puts(c, x) /\ q = p \o c
  BY DEF Adds
<1>3. c \in Seq(Seq(Nat))
  BY <1>2 DEF Puts
<1>4. p \o c \in Seq(Seq(Nat))
  BY <1>1, <1>3, SeqConcat
<1> QED
  BY <1>1, <1>2, <1>4

LEMMA AddsThen ==
    ASSUME NEW p, NEW x, NEW n, NEW q, Adds(p, x, n, q), NEW y, NEW m, NEW r, Adds(q, y, m, r)
    PROVE  Adds(p, x \o y, n + m, r)
<1>1. /\ p \in Seq(Seq(Nat)) /\ x \in Seq(Nat) /\ n \in Nat /\ Len(x) = n
      /\ y \in Seq(Nat) /\ m \in Nat /\ Len(y) = m
  BY DEF Adds
<1>2. PICK c : Puts(c, x) /\ q = p \o c
  BY DEF Adds
<1>3. PICK d : Puts(d, y) /\ r = q \o d
  BY DEF Adds
<1>4. c \in Seq(Seq(Nat)) /\ d \in Seq(Seq(Nat))
  BY <1>2, <1>3 DEF Puts
<1>5. r = p \o (c \o d)
  BY <1>1, <1>2, <1>3, <1>4, CallsAssoc
<1>6. Puts(c \o d, x \o y)
  BY <1>2, <1>3, PutsConcat
<1>7. x \o y \in Seq(Nat) /\ Len(x \o y) = n + m /\ n + m \in Nat
  <2>1. x \in Seq(Nat) /\ y \in Seq(Nat)
    BY <1>1
  <2>2. x \o y \in Seq(Nat) /\ Len(x \o y) = Len(x) + Len(y)
    BY <2>1, SeqConcat
  <2> QED
    BY <1>1, <2>2
<1> QED
  BY <1>1, <1>5, <1>6, <1>7 DEF Adds

\* A header with the right length makes an object of what follows.
LEMMA AddsTlv ==
    ASSUME NEW p \in Seq(Seq(Nat)), NEW tag \in Nat, NEW x, NEW n, NEW q,
           Adds(p \o der_put_tlv_header(tag, n), x, n, q)
    PROVE  Adds(p, Tlv(tag, x), der_tlv_len(n), q)
<1>1. x \in Seq(Nat) /\ n \in Nat /\ Len(x) = n
  BY DEF Adds
<1>2. Puts(der_put_tlv_header(tag, n), H(tag, n))
  BY <1>1, HeaderPuts
<1>3. H(tag, n) \in Seq(Nat) /\ Len(H(tag, n)) \in Nat /\ Len(H(tag, n)) + n = der_tlv_len(n)
  BY <1>1, HeaderFact, SeqDomain
<1> DEFINE h == H(tag, n)
           hs == der_put_tlv_header(tag, n)
<1> HIDE DEF h, hs
<1>4. Adds(p, h, Len(h), p \o hs)
  BY <1>2, AddsPuts DEF h, hs
<1>5. Adds(p, h \o x, Len(h) + n, q)
  BY <1>4, AddsThen DEF hs
<1>6. Tlv(tag, x) = h \o x
  BY <1>1, TlvFact DEF h
<1> QED
  BY <1>3, <1>5, <1>6 DEF h

\* A whole message.
LEMMA PutsTlv ==
    ASSUME NEW tag \in Nat, NEW x, NEW n, NEW q, Adds(der_put_tlv_header(tag, n), x, n, q)
    PROVE  Puts(q, Tlv(tag, x))
<1> DEFINE h == H(tag, n)
           hs == der_put_tlv_header(tag, n)
<1>1. x \in Seq(Nat) /\ n \in Nat /\ Len(x) = n
  BY DEF Adds
<1>2. PICK c : Puts(c, x) /\ q = hs \o c
  BY DEF Adds
<1>3. Puts(hs, h)
  BY <1>1, HeaderPuts
<1>4. Tlv(tag, x) = h \o x
  BY <1>1, TlvFact
<1> HIDE DEF h, hs
<1>5. Puts(hs \o c, h \o x)
  BY <1>2, <1>3, PutsConcat
<1> QED
  BY <1>2, <1>4, <1>5

\* The primitive objects and the algorithm identifiers.
LEMMA HeaderCalls ==
    ASSUME NEW p \in Seq(Seq(Nat)), NEW tag \in Nat, NEW n \in Nat
    PROVE  p \o der_put_tlv_header(tag, n) \in Seq(Seq(Nat))
<1> DEFINE hs == der_put_tlv_header(tag, n)
<1>1. Puts(hs, H(tag, n))
  BY HeaderPuts
<1> HIDE DEF hs
<1>2. hs \in Seq(Seq(Nat))
  BY <1>1 DEF Puts
<1>3. p \o hs \in Seq(Seq(Nat))
  BY <1>2, SeqConcat
<1> QED
  BY <1>3 DEF hs

LEMMA AddsPlain ==
    ASSUME NEW p \in Seq(Seq(Nat)), NEW tag \in Nat, NEW x \in Seq(Nat)
    PROVE  Adds(p, Tlv(tag, x), der_tlv_len(Len(x)), p \o (der_put_tlv_header(tag, Len(x)) \o <<x>>))
<1> DEFINE c == der_put_tlv_header(tag, Len(x)) \o <<x>>
           t == Tlv(tag, x)
           n == der_tlv_len(Len(x))
<1>1. Puts(c, t) /\ n = Len(t)
  BY PlainPuts, TlvFact
<1> HIDE DEF c, t, n
<1>2. Adds(p, t, n, p \o c)
  BY <1>1, AddsPuts
<1> QED
  BY <1>2 DEF c, t, n

LEMMA AddsOid ==
    ASSUME NEW p \in Seq(Seq(Nat)), NEW oid \in Seq(Nat)
    PROVE  Adds(p, Tlv(6, oid), der_tlv_len(Len(oid)), p \o der_put_oid(oid))
BY AddsPlain DEF der_put_oid

LEMMA AddsOctets ==
    ASSUME NEW p \in Seq(Seq(Nat)), NEW x \in Seq(Nat)
    PROVE  Adds(p, Tlv(4, x), der_tlv_len(Len(x)), p \o der_put_octet_string(x))
BY AddsPlain DEF der_put_octet_string

LEMMA AddsInteger ==
    ASSUME NEW p \in Seq(Seq(Nat)), NEW v \in Nat
    PROVE  Adds(p, Tlv(2, <<v>>), der_tlv_len(1), p \o der_put_integer_u8(v))
<1> DEFINE x == <<v>>
<1>1. x \in Seq(Nat) /\ Len(x) = 1
  OBVIOUS
<1>2. der_put_integer_u8(v) = der_put_tlv_header(2, 1) \o <<x>>
  BY DEF der_put_integer_u8
<1> HIDE DEF x
<1>3. Adds(p, Tlv(2, x), der_tlv_len(Len(x)), p \o (der_put_tlv_header(2, Len(x)) \o <<x>>))
  BY <1>1, AddsPlain
<1> QED
  BY <1>1, <1>2, <1>3 DEF x

LEMMA AddsEmpty ==
    ASSUME NEW p \in Seq(Seq(Nat)), NEW tag \in Nat
    PROVE  Adds(p, Tlv(tag, <<>>), der_tlv_len(0), p \o der_put_tlv_header(tag, 0))
<1> DEFINE h == H(tag, 0)
           c == der_put_tlv_header(tag, 0)
           t == Tlv(tag, <<>>)
<1>1. <<>> \in Seq(Nat) /\ Len(<<>>) = 0
  OBVIOUS
<1>2. h \in Seq(Nat)
  BY HeaderFact
<1>3. t = H(tag, Len(<<>>)) \o <<>> /\ Len(t) = der_tlv_len(Len(<<>>))
  <2> HIDE DEF t
  <2>1. \A x \in Seq(Nat) : Tlv(tag, x) = H(tag, Len(x)) \o x /\ Len(Tlv(tag, x)) = der_tlv_len(Len(x))
    BY TlvFact
  <2> QED
    BY <1>1, <2>1 DEF t
<1>4. t = h /\ Len(t) = der_tlv_len(0)
  <2>1. h \o <<>> = h
    BY <1>2, SeqUnit
  <2>2. H(tag, Len(<<>>)) = h /\ der_tlv_len(Len(<<>>)) = der_tlv_len(0)
    BY <1>1
  <2> HIDE DEF h, t
  <2> QED
    BY <1>3, <2>1, <2>2
<1>5. Puts(c, h)
  BY HeaderPuts
<1> HIDE DEF c, h, t
<1>6. Adds(p, t, der_tlv_len(0), p \o c)
  BY <1>4, <1>5, AddsPuts
<1> QED
  BY <1>6 DEF c, t

LEMMA AddsAlg ==
    ASSUME NEW p \in Seq(Seq(Nat)), NEW oid \in Seq(Nat)
    PROVE  Adds(p, Alg(oid), der_alg_id_len(oid), p \o der_put_algorithm_identifier(oid))
<1> DEFINE n == der_tlv_len(Len(oid))
           hs == der_put_tlv_header(48, n)
           c == der_put_oid(oid)
           x == Tlv(6, oid)
<1>1. n \in Nat
  BY SeqDomain, HeaderFact
<1>2. Puts(c, x) /\ n = Len(x) /\ x \in Seq(Nat)
  BY PlainPuts, TlvFact DEF der_put_oid
<1>3. Puts(hs, H(48, n))
  BY <1>1, HeaderPuts
<1>4. hs \in Seq(Seq(Nat)) /\ c \in Seq(Seq(Nat))
  BY <1>2, <1>3 DEF Puts
<1>5. p \o hs \in Seq(Seq(Nat))
  BY <1>1, HeaderCalls
<1>6. p \o der_put_algorithm_identifier(oid) = (p \o hs) \o c
  <2>1. der_put_algorithm_identifier(oid) = hs \o c
    BY DEF der_put_algorithm_identifier
  <2> HIDE DEF hs, c
  <2>2. (p \o hs) \o c = p \o (hs \o c)
    BY <1>4, CallsAssoc
  <2> QED
    BY <2>1, <2>2
<1> HIDE DEF n, c, x
<1>7. Adds(p \o hs, x, n, (p \o hs) \o c)
  <2> HIDE DEF hs
  <2> QED
    BY <1>2, <1>5, AddsPuts
<1>8. Adds(p, Tlv(48, x), der_tlv_len(n), (p \o hs) \o c)
  BY <1>7, AddsTlv
<1> QED
  BY <1>6, <1>8 DEF x, n, Alg, der_alg_id_len

(***************************************************************************)
(* The messages.                                                           *)
(***************************************************************************)
LEMMA OidsFact ==
    /\ OID_CMS_DATA \in Seq(Nat) /\ OID_CMS_SIGNED_DATA \in Seq(Nat)
    /\ OID_CMS_ENVELOPED_DATA \in Seq(Nat) /\ OID_ORI_KEM \in Seq(Nat)
    /\ OID_MLKEM512 \in Seq(Nat) /\ OID_MLDSA44 \in Seq(Nat) /\ OID_HKDF_SHA256 \in Seq(Nat)
    /\ OID_AES128_WRAP \in Seq(Nat) /\ OID_AES128_GCM \in Seq(Nat)
<1>1. OID_CMS_DATA \in Seq(Nat) /\ OID_CMS_SIGNED_DATA \in Seq(Nat) /\ OID_CMS_ENVELOPED_DATA \in Seq(Nat)
  BY DEF OID_CMS_DATA, OID_CMS_SIGNED_DATA, OID_CMS_ENVELOPED_DATA
<1>2. OID_ORI_KEM \in Seq(Nat) /\ OID_MLKEM512 \in Seq(Nat) /\ OID_MLDSA44 \in Seq(Nat)
  BY DEF OID_ORI_KEM, OID_MLKEM512, OID_MLDSA44
<1>3. OID_HKDF_SHA256 \in Seq(Nat) /\ OID_AES128_WRAP \in Seq(Nat) /\ OID_AES128_GCM \in Seq(Nat)
  BY DEF OID_HKDF_SHA256, OID_AES128_WRAP, OID_AES128_GCM
<1> QED
  BY <1>1, <1>2, <1>3

\* A length computed beforehand is a number.
LEMMA LengthFact ==
    /\ \A n \in Nat : der_tlv_len(n) \in Nat
    /\ \A oid \in Seq(Nat) : Len(oid) \in Nat /\ der_alg_id_len(oid) \in Nat
<1>1. \A n \in Nat : der_tlv_len(n) \in Nat
  BY HeaderFact
<1>2. ASSUME NEW oid \in Seq(Nat) PROVE Len(oid) \in Nat /\ der_alg_id_len(oid) \in Nat
  <2>1. Len(oid) \in Nat
    BY SeqDomain
  <2> QED
    BY <1>1, <2>1 DEF der_alg_id_len
<1> QED
  BY <1>1, <1>2

\* An algorithm identifier with parameters; an object without a call of its own.
LEMMA AddsAlgParams ==
    ASSUME NEW p \in Seq(Seq(Nat)), NEW oid \in Seq(Nat), NEW params \in Seq(Nat)
    PROVE  Adds(p, Tlv(48, Tlv(6, oid) \o params), der_tlv_len(der_tlv_len(Len(oid)) + Len(params)),
                p \o der_put_algorithm_identifier_params(oid, params))
<1> DEFINE m == der_tlv_len(Len(oid))
           n == m + Len(params)
           hs == der_put_tlv_header(48, n)
           c == der_put_oid(oid)
           d == <<params>>
           x == Tlv(6, oid)
<1>1. m \in Nat /\ Len(params) \in Nat
  BY LengthFact
<1>2. n \in Nat
  BY <1>1
<1>3. Puts(c, x) /\ m = Len(x) /\ Puts(d, params)
  BY PlainPuts, PutsOne, TlvFact DEF der_put_oid
<1>4. hs \in Seq(Seq(Nat)) /\ c \in Seq(Seq(Nat)) /\ d \in Seq(Seq(Nat))
  <2>1. Puts(hs, H(48, n))
    BY <1>2, HeaderPuts
  <2> QED
    BY <1>3, <2>1 DEF Puts
<1>5. p \o hs \in Seq(Seq(Nat))
  BY <1>2, HeaderCalls
<1>6. der_put_algorithm_identifier_params(oid, params) = (hs \o c) \o d
  BY DEF der_put_algorithm_identifier_params
<1> HIDE DEF hs, m, n, c, d, x
<1> DEFINE q == p \o hs
<1>7. p \o ((hs \o c) \o d) = (q \o c) \o d /\ q \o c \in Seq(Seq(Nat))
  <2>1. (hs \o c) \o d = hs \o (c \o d) /\ c \o d \in Seq(Seq(Nat))
    BY <1>4, CallsAssoc, SeqConcat
  <2> DEFINE e == c \o d
  <2>2. p \o (hs \o e) = (p \o hs) \o e
    <3> HIDE DEF e
    <3> QED
      BY <1>4, <2>1, CallsAssoc DEF e
  <2> HIDE DEF q
  <2>3. q \o (c \o d) = (q \o c) \o d /\ q \o c \in Seq(Seq(Nat))
    BY <1>4, <1>5, CallsAssoc, SeqConcat DEF q
  <2> QED
    BY <2>1, <2>2, <2>3 DEF q
<1>8. Adds(q, x, m, q \o c)
  <2> HIDE DEF q
  <2> QED
    BY <1>3, <1>5, AddsPuts DEF q
<1>9. Adds(q \o c, params, Len(params), (q \o c) \o d)
  <2> DEFINE r == q \o c
  <2> HIDE DEF r
  <2>1. Adds(r, params, Len(params), r \o d)
    BY <1>3, <1>7, AddsPuts DEF r
  <2> QED
    BY <2>1 DEF r
<1>10. Adds(q, x \o params, n, (q \o c) \o d)
  <2> HIDE DEF q
  <2>1. Adds(q, x \o params, m + Len(params), (q \o c) \o d)
    BY <1>8, <1>9, AddsThen
  <2> QED
    BY <2>1 DEF n
<1>11. Adds(p, Tlv(48, x \o params), der_tlv_len(n), (q \o c) \o d)
  BY <1>10, AddsTlv DEF hs
<1> QED
  BY <1>6, <1>7, <1>11 DEF n, m, x

LEMMA AddsLast ==
    ASSUME NEW p \in Seq(Seq(Nat)), NEW tag \in Nat, NEW x \in Seq(Nat)
    PROVE  Adds(p, Tlv(tag, x), der_tlv_len(Len(x)),
                (p \o der_put_tlv_header(tag, Len(x))) \o <<x>>)
<1> DEFINE c == der_put_tlv_header(tag, Len(x))
           d == <<x>>
<1>1. c \in Seq(Seq(Nat)) /\ d \in Seq(Seq(Nat))
  <2>1. Puts(c, H(tag, Len(x))) /\ Puts(d, x)
    BY LengthFact, HeaderPuts, PutsOne
  <2> QED
    BY <2>1 DEF Puts
<1>2. Adds(p, Tlv(tag, x), der_tlv_len(Len(x)), p \o (c \o d))
  BY AddsPlain
<1> HIDE DEF c, d
<1>3. p \o (c \o d) = (p \o c) \o d
  BY <1>1, CallsAssoc
<1> QED
  BY <1>2, <1>3 DEF c, d

\* The algorithm's parameters,
LEMMA ParamsPuts ==
    ASSUME NEW nonce \in Seq(Nat)
    PROVE  \E calls : cms_pqc_write_aes_gcm_params(nonce) = Written(ParamsMax, calls)
                         /\ Puts(calls, ParamsOf(nonce))
<1> DEFINE both == der_tlv_len(Len(nonce)) + der_tlv_len(1)
           q0 == der_put_tlv_header(48, both)
           q1 == q0 \o der_put_octet_string(nonce)
           q2 == q1 \o der_put_integer_u8(TagLen)
           Both == Tlv(4, nonce) \o Tlv(2, <<TagLen>>)
<1>1. cms_pqc_write_aes_gcm_params(nonce) = Written(ParamsMax, q2)
  BY DEF cms_pqc_write_aes_gcm_params
<1>2. ParamsOf(nonce) = Tlv(48, Both)
  BY DEF ParamsOf
<1> HIDE DEF both
<1>3. /\ both \in Nat /\ TagLen \in Nat
  BY SMTT(60), LengthFact DEF both, TagLen
<1> HIDE DEF q0, q1, q2
<1> HIDE DEF Both
<1>4. q0 \in Seq(Seq(Nat))
  BY <1>3, HeaderPuts DEF q0, Puts
<1>5. Adds(q0, Tlv(4, nonce), der_tlv_len(Len(nonce)), q1)
  BY <1>4, AddsOctets DEF q1
<1>6. q1 \in Seq(Seq(Nat))
  BY <1>5, AddsType
<1>7. Adds(q1, Tlv(2, <<TagLen>>), der_tlv_len(1), q2)
  BY <1>6, <1>3, AddsInteger DEF q2
<1>8. q2 \in Seq(Seq(Nat))
  BY <1>7, AddsType
<1>9. Adds(q0, Tlv(4, nonce) \o Tlv(2, <<TagLen>>),
           der_tlv_len(Len(nonce)) + der_tlv_len(1), q2)
  BY <1>5, <1>7, AddsThen
<1>10. Adds(q0, Both, both, q2)
  BY <1>9 DEF Both, both
<1>11. Puts(q2, Tlv(48, Both))
  BY <1>10, PutsTlv DEF q0
<1> QED
  BY <1>1, <1>2, <1>11

\* the SignedData,
LEMMA SignedPuts ==
    ASSUME NEW content \in Seq(Nat), NEW signature \in Seq(Nat), NEW size
    PROVE  \E calls : cms_pqc_build_signed_data(content, signature, size) = Written(size, calls)
                         /\ Puts(calls, SignedOf(content, signature))
<1> DEFINE alg == der_alg_id_len(OID_MLDSA44)
           econtent == der_tlv_len(Len(content))
           encap == der_tlv_len(Len(OID_CMS_DATA)) + der_tlv_len(econtent)
           signer_info == der_tlv_len(1) + der_tlv_len(0) + alg + alg + der_tlv_len(Len(signature))
           signed_data == der_tlv_len(1) + der_tlv_len(alg) + der_tlv_len(encap)
                              + der_tlv_len(der_tlv_len(signer_info))
           signers == der_tlv_len(signer_info)
           explicit == der_tlv_len(signed_data)
           info == der_tlv_len(Len(OID_CMS_SIGNED_DATA)) + der_tlv_len(explicit)
           q0 == der_put_tlv_header(48, info)
           q1 == q0 \o der_put_oid(OID_CMS_SIGNED_DATA)
           q2 == q1 \o der_put_tlv_header(160, explicit)
           q3 == q2 \o der_put_tlv_header(48, signed_data)
           q4 == q3 \o der_put_integer_u8(1)
           q5 == q4 \o der_put_tlv_header(49, alg)
           q6 == q5 \o der_put_algorithm_identifier(OID_MLDSA44)
           q7 == q6 \o der_put_tlv_header(48, encap)
           q8 == q7 \o der_put_oid(OID_CMS_DATA)
           q9 == q8 \o der_put_tlv_header(160, econtent)
           q10 == q9 \o der_put_octet_string(content)
           q11 == q10 \o der_put_tlv_header(49, signers)
           q12 == q11 \o der_put_tlv_header(48, signer_info)
           q13 == q12 \o der_put_integer_u8(1)
           q14 == q13 \o der_put_tlv_header(128, 0)
           q15 == q14 \o der_put_algorithm_identifier(OID_MLDSA44)
           q16 == q15 \o der_put_algorithm_identifier(OID_MLDSA44)
           q17 == q16 \o der_put_octet_string(signature)
           Algs == Alg(OID_MLDSA44)
           EContent == Tlv(4, content)
           Encap == Tlv(6, OID_CMS_DATA) \o Tlv(160, EContent)
           SignerInfo == Tlv(2, <<1>>) \o Tlv(128, <<>>) \o Alg(OID_MLDSA44) \o Alg(OID_MLDSA44) \o Tlv(4, signature)
           Signers == Tlv(48, SignerInfo)
           SignedData == Tlv(2, <<1>>) \o Tlv(49, Algs) \o Tlv(48, Encap) \o Tlv(49, Signers)
           Explicit == Tlv(48, SignedData)
           ContentInfo == Tlv(6, OID_CMS_SIGNED_DATA) \o Tlv(160, Explicit)
<1>1. cms_pqc_build_signed_data(content, signature, size) = Written(size, q17)
  BY DEF cms_pqc_build_signed_data
<1>2. SignedOf(content, signature) = Tlv(48, ContentInfo)
  BY DEF SignedOf
<1> HIDE DEF alg, econtent, encap, signer_info, signed_data, signers, explicit, info
<1>3. /\ alg \in Nat
      /\ econtent \in Nat
      /\ encap \in Nat
      /\ signer_info \in Nat
      /\ signed_data \in Nat
      /\ signers \in Nat
      /\ explicit \in Nat
      /\ info \in Nat
  <2>1. /\ \A n \in Nat : der_tlv_len(n) \in Nat
        /\ 0 \in Nat /\ 1 \in Nat /\ \A m \in Nat, n \in Nat : m + n \in Nat
    BY LengthFact
  <2>2. alg \in Nat
    BY <2>1, OidsFact, LengthFact DEF alg
  <2>3. econtent \in Nat
    BY <2>1, OidsFact, LengthFact DEF econtent
  <2>4. encap \in Nat
    BY <2>1, <2>3, OidsFact, LengthFact DEF encap
  <2>5. signer_info \in Nat
    BY <2>1, <2>2, OidsFact, LengthFact DEF signer_info
  <2>6. signed_data \in Nat
    BY <2>1, <2>2, <2>4, <2>5, OidsFact, LengthFact DEF signed_data
  <2>7. signers \in Nat
    BY <2>1, <2>5, OidsFact, LengthFact DEF signers
  <2>8. explicit \in Nat
    BY <2>1, <2>6, OidsFact, LengthFact DEF explicit
  <2>9. info \in Nat
    BY <2>1, <2>8, OidsFact, LengthFact DEF info
  <2> QED
    BY <2>2, <2>3, <2>4, <2>5, <2>6, <2>7, <2>8, <2>9
<1> HIDE DEF q0, q1, q2, q3, q4, q5, q6, q7, q8, q9, q10, q11, q12, q13, q14, q15, q16, q17
<1> HIDE DEF Algs, EContent, Encap, SignerInfo, Signers, SignedData, Explicit, ContentInfo
<1>4. q0 \in Seq(Seq(Nat))
  BY <1>3, HeaderPuts DEF q0, Puts
<1>5. Adds(q0, Tlv(6, OID_CMS_SIGNED_DATA), der_tlv_len(Len(OID_CMS_SIGNED_DATA)), q1)
  BY <1>4, OidsFact, AddsOid DEF q1
<1>6. q1 \in Seq(Seq(Nat))
  BY <1>5, AddsType
<1>7. q2 \in Seq(Seq(Nat))
  BY <1>3, <1>6, HeaderCalls DEF q2
<1>8. q3 \in Seq(Seq(Nat))
  BY <1>3, <1>7, HeaderCalls DEF q3
<1>9. Adds(q3, Tlv(2, <<1>>), der_tlv_len(1), q4)
  BY <1>8, AddsInteger DEF q4
<1>10. q4 \in Seq(Seq(Nat))
  BY <1>9, AddsType
<1>11. q5 \in Seq(Seq(Nat))
  BY <1>3, <1>10, HeaderCalls DEF q5
<1>12. Adds(q5, Alg(OID_MLDSA44), der_alg_id_len(OID_MLDSA44), q6)
  BY <1>11, OidsFact, AddsAlg DEF q6
<1>13. q6 \in Seq(Seq(Nat))
  BY <1>12, AddsType
<1>14. Adds(q5, Algs, alg, q6)
  BY <1>12 DEF Algs, alg
<1>15. Adds(q4, Tlv(49, Algs), der_tlv_len(alg), q6)
  BY <1>14, <1>10, AddsTlv DEF q5
<1>16. Adds(q3, Tlv(2, <<1>>) \o Tlv(49, Algs), der_tlv_len(1) + der_tlv_len(alg), q6)
  BY <1>9, <1>15, AddsThen
<1>17. q7 \in Seq(Seq(Nat))
  BY <1>3, <1>13, HeaderCalls DEF q7
<1>18. Adds(q7, Tlv(6, OID_CMS_DATA), der_tlv_len(Len(OID_CMS_DATA)), q8)
  BY <1>17, OidsFact, AddsOid DEF q8
<1>19. q8 \in Seq(Seq(Nat))
  BY <1>18, AddsType
<1>20. q9 \in Seq(Seq(Nat))
  BY <1>3, <1>19, HeaderCalls DEF q9
<1>21. Adds(q9, Tlv(4, content), der_tlv_len(Len(content)), q10)
  BY <1>20, AddsOctets DEF q10
<1>22. q10 \in Seq(Seq(Nat))
  BY <1>21, AddsType
<1>23. Adds(q9, EContent, econtent, q10)
  BY <1>21 DEF EContent, econtent
<1>24. Adds(q8, Tlv(160, EContent), der_tlv_len(econtent), q10)
  BY <1>23, <1>19, AddsTlv DEF q9
<1>25. Adds(q7, Tlv(6, OID_CMS_DATA) \o Tlv(160, EContent),
           der_tlv_len(Len(OID_CMS_DATA)) + der_tlv_len(econtent), q10)
  BY <1>18, <1>24, AddsThen
<1>26. Adds(q7, Encap, encap, q10)
  BY <1>25 DEF Encap, encap
<1>27. Adds(q6, Tlv(48, Encap), der_tlv_len(encap), q10)
  BY <1>26, <1>13, AddsTlv DEF q7
<1>28. Adds(q3, Tlv(2, <<1>>) \o Tlv(49, Algs) \o Tlv(48, Encap),
           der_tlv_len(1) + der_tlv_len(alg) + der_tlv_len(encap), q10)
  BY <1>16, <1>27, AddsThen
<1>29. q11 \in Seq(Seq(Nat))
  BY <1>3, <1>22, HeaderCalls DEF q11
<1>30. q12 \in Seq(Seq(Nat))
  BY <1>3, <1>29, HeaderCalls DEF q12
<1>31. Adds(q12, Tlv(2, <<1>>), der_tlv_len(1), q13)
  BY <1>30, AddsInteger DEF q13
<1>32. q13 \in Seq(Seq(Nat))
  BY <1>31, AddsType
<1>33. Adds(q13, Tlv(128, <<>>), der_tlv_len(0), q14)
  BY <1>32, AddsEmpty DEF q14
<1>34. q14 \in Seq(Seq(Nat))
  BY <1>33, AddsType
<1>35. Adds(q12, Tlv(2, <<1>>) \o Tlv(128, <<>>), der_tlv_len(1) + der_tlv_len(0), q14)
  BY <1>31, <1>33, AddsThen
<1>36. Adds(q14, Alg(OID_MLDSA44), der_alg_id_len(OID_MLDSA44), q15)
  BY <1>34, OidsFact, AddsAlg DEF q15
<1>37. q15 \in Seq(Seq(Nat))
  BY <1>36, AddsType
<1>38. Adds(q12, Tlv(2, <<1>>) \o Tlv(128, <<>>) \o Alg(OID_MLDSA44),
           der_tlv_len(1) + der_tlv_len(0) + der_alg_id_len(OID_MLDSA44), q15)
  BY <1>35, <1>36, AddsThen
<1>39. Adds(q15, Alg(OID_MLDSA44), der_alg_id_len(OID_MLDSA44), q16)
  BY <1>37, OidsFact, AddsAlg DEF q16
<1>40. q16 \in Seq(Seq(Nat))
  BY <1>39, AddsType
<1>41. Adds(q12, Tlv(2, <<1>>) \o Tlv(128, <<>>) \o Alg(OID_MLDSA44) \o Alg(OID_MLDSA44),
           der_tlv_len(1) + der_tlv_len(0) + der_alg_id_len(OID_MLDSA44) + der_alg_id_len(OID_MLDSA44), q16)
  BY <1>38, <1>39, AddsThen
<1>42. Adds(q16, Tlv(4, signature), der_tlv_len(Len(signature)), q17)
  BY <1>40, AddsOctets DEF q17
<1>43. q17 \in Seq(Seq(Nat))
  BY <1>42, AddsType
<1>44. Adds(q12, Tlv(2, <<1>>) \o Tlv(128, <<>>) \o Alg(OID_MLDSA44) \o Alg(OID_MLDSA44) \o Tlv(4, signature),
           der_tlv_len(1) + der_tlv_len(0) + der_alg_id_len(OID_MLDSA44) + der_alg_id_len(OID_MLDSA44) + der_tlv_len(Len(signature)), q17)
  BY <1>41, <1>42, AddsThen
<1>45. Adds(q12, SignerInfo, signer_info, q17)
  BY <1>44 DEF SignerInfo, signer_info, alg
<1>46. Adds(q11, Tlv(48, SignerInfo), der_tlv_len(signer_info), q17)
  BY <1>45, <1>29, AddsTlv DEF q12
<1>47. Adds(q11, Signers, signers, q17)
  BY <1>46 DEF Signers, signers
<1>48. Adds(q10, Tlv(49, Signers), der_tlv_len(signers), q17)
  BY <1>47, <1>22, AddsTlv DEF q11
<1>49. Adds(q3, Tlv(2, <<1>>) \o Tlv(49, Algs) \o Tlv(48, Encap) \o Tlv(49, Signers),
           der_tlv_len(1) + der_tlv_len(alg) + der_tlv_len(encap) + der_tlv_len(signers), q17)
  BY <1>28, <1>48, AddsThen
<1>50. Adds(q3, SignedData, signed_data, q17)
  BY <1>49 DEF SignedData, signed_data, signers
<1>51. Adds(q2, Tlv(48, SignedData), der_tlv_len(signed_data), q17)
  BY <1>50, <1>7, AddsTlv DEF q3
<1>52. Adds(q2, Explicit, explicit, q17)
  BY <1>51 DEF Explicit, explicit
<1>53. Adds(q1, Tlv(160, Explicit), der_tlv_len(explicit), q17)
  BY <1>52, <1>6, AddsTlv DEF q2
<1>54. Adds(q0, Tlv(6, OID_CMS_SIGNED_DATA) \o Tlv(160, Explicit),
           der_tlv_len(Len(OID_CMS_SIGNED_DATA)) + der_tlv_len(explicit), q17)
  BY <1>5, <1>53, AddsThen
<1>55. Adds(q0, ContentInfo, info, q17)
  BY <1>54 DEF ContentInfo, info
<1>56. Puts(q17, Tlv(48, ContentInfo))
  BY <1>55, PutsTlv DEF q0
<1> QED
  BY <1>1, <1>2, <1>56

LEMMA AddsNone ==
    ASSUME NEW p \in Seq(Seq(Nat))
    PROVE  Adds(p, Tlv(4, <<>>), der_tlv_len(0), p \o der_put_octet_string(<<>>))
<1>1. \A x \in Seq(Nat) : Adds(p, Tlv(4, x), der_tlv_len(Len(x)), p \o der_put_octet_string(x))
  BY AddsOctets
<1>2. <<>> \in Seq(Nat) /\ Len(<<>>) = 0
  OBVIOUS
<1> QED
  BY <1>1, <1>2

\* and the EnvelopedData are written as they should be.
LEMMA EnvelopedPuts ==
    ASSUME NEW kem_ct \in Seq(Nat), NEW enc \in Seq(Nat), NEW params \in Seq(Nat), NEW size
    PROVE  \E calls : cms_pqc_build_enveloped_data(kem_ct, enc, params, size) = Written(size, calls)
                         /\ Puts(calls, EnvelopedOf(kem_ct, enc, params))
<1> DEFINE content_alg == der_tlv_len(der_tlv_len(Len(OID_AES128_GCM)) + Len(params))
           kemri == der_tlv_len(1) + der_tlv_len(0) + der_alg_id_len(OID_MLKEM512)
                        + der_tlv_len(Len(kem_ct)) + der_alg_id_len(OID_HKDF_SHA256)
                        + der_tlv_len(1) + der_alg_id_len(OID_AES128_WRAP) + der_tlv_len(0)
           ori == der_tlv_len(Len(OID_ORI_KEM)) + der_tlv_len(kemri)
           eci == der_tlv_len(Len(OID_CMS_DATA)) + content_alg + der_tlv_len(Len(enc))
           recipients == der_tlv_len(ori)
           enveloped_data == der_tlv_len(1) + der_tlv_len(recipients) + der_tlv_len(eci)
           explicit == der_tlv_len(enveloped_data)
           info == der_tlv_len(Len(OID_CMS_ENVELOPED_DATA)) + der_tlv_len(explicit)
           q0 == der_put_tlv_header(48, info)
           q1 == q0 \o der_put_oid(OID_CMS_ENVELOPED_DATA)
           q2 == q1 \o der_put_tlv_header(160, explicit)
           q3 == q2 \o der_put_tlv_header(48, enveloped_data)
           q4 == q3 \o der_put_integer_u8(2)
           q5 == q4 \o der_put_tlv_header(49, recipients)
           q6 == q5 \o der_put_tlv_header(164, ori)
           q7 == q6 \o der_put_oid(OID_ORI_KEM)
           q8 == q7 \o der_put_tlv_header(48, kemri)
           q9 == q8 \o der_put_integer_u8(0)
           q10 == q9 \o der_put_tlv_header(128, 0)
           q11 == q10 \o der_put_algorithm_identifier(OID_MLKEM512)
           q12 == q11 \o der_put_octet_string(kem_ct)
           q13 == q12 \o der_put_algorithm_identifier(OID_HKDF_SHA256)
           q14 == q13 \o der_put_integer_u8(16)
           q15 == q14 \o der_put_algorithm_identifier(OID_AES128_WRAP)
           q16 == q15 \o der_put_octet_string(<<>>)
           q17 == q16 \o der_put_tlv_header(48, eci)
           q18 == q17 \o der_put_oid(OID_CMS_DATA)
           q19 == q18 \o der_put_algorithm_identifier_params(OID_AES128_GCM, params)
           q20 == q19 \o der_put_tlv_header(128, Len(enc))
           q21 == q20 \o <<enc>>
           Kemri == Tlv(2, <<0>>) \o Tlv(128, <<>>) \o Alg(OID_MLKEM512) \o Tlv(4, kem_ct) \o Alg(OID_HKDF_SHA256) \o Tlv(2, <<16>>) \o Alg(OID_AES128_WRAP) \o Tlv(4, <<>>)
           Ori == Tlv(6, OID_ORI_KEM) \o Tlv(48, Kemri)
           Recipients == Tlv(164, Ori)
           Eci == Tlv(6, OID_CMS_DATA) \o Tlv(48, Tlv(6, OID_AES128_GCM) \o params) \o Tlv(128, enc)
           EnvelopedData == Tlv(2, <<2>>) \o Tlv(49, Recipients) \o Tlv(48, Eci)
           Explicit == Tlv(48, EnvelopedData)
           ContentInfo == Tlv(6, OID_CMS_ENVELOPED_DATA) \o Tlv(160, Explicit)
<1>1. cms_pqc_build_enveloped_data(kem_ct, enc, params, size) = Written(size, q21)
  BY DEF cms_pqc_build_enveloped_data
<1>2. EnvelopedOf(kem_ct, enc, params) = Tlv(48, ContentInfo)
  BY DEF EnvelopedOf
<1> HIDE DEF content_alg, kemri, ori, eci, recipients, enveloped_data, explicit, info
<1>3. /\ content_alg \in Nat
      /\ kemri \in Nat
      /\ ori \in Nat
      /\ eci \in Nat
      /\ recipients \in Nat
      /\ enveloped_data \in Nat
      /\ explicit \in Nat
      /\ info \in Nat
  <2>1. /\ \A n \in Nat : der_tlv_len(n) \in Nat
        /\ 0 \in Nat /\ 1 \in Nat /\ \A m \in Nat, n \in Nat : m + n \in Nat
    BY LengthFact
  <2>2. content_alg \in Nat
    BY <2>1, OidsFact, LengthFact DEF content_alg
  <2>3. kemri \in Nat
    BY <2>1, OidsFact, LengthFact DEF kemri
  <2>4. ori \in Nat
    BY <2>1, <2>3, OidsFact, LengthFact DEF ori
  <2>5. eci \in Nat
    BY <2>1, <2>2, OidsFact, LengthFact DEF eci
  <2>6. recipients \in Nat
    BY <2>1, <2>4, OidsFact, LengthFact DEF recipients
  <2>7. enveloped_data \in Nat
    BY <2>1, <2>5, <2>6, OidsFact, LengthFact DEF enveloped_data
  <2>8. explicit \in Nat
    BY <2>1, <2>7, OidsFact, LengthFact DEF explicit
  <2>9. info \in Nat
    BY <2>1, <2>8, OidsFact, LengthFact DEF info
  <2> QED
    BY <2>2, <2>3, <2>4, <2>5, <2>6, <2>7, <2>8, <2>9
<1> HIDE DEF q0, q1, q2, q3, q4, q5, q6, q7, q8, q9, q10, q11, q12, q13, q14, q15, q16, q17, q18, q19, q20, q21
<1> HIDE DEF Kemri, Ori, Recipients, Eci, EnvelopedData, Explicit, ContentInfo
<1>4. q0 \in Seq(Seq(Nat))
  BY <1>3, HeaderPuts DEF q0, Puts
<1>5. Adds(q0, Tlv(6, OID_CMS_ENVELOPED_DATA), der_tlv_len(Len(OID_CMS_ENVELOPED_DATA)), q1)
  BY <1>4, OidsFact, AddsOid DEF q1
<1>6. q1 \in Seq(Seq(Nat))
  BY <1>5, AddsType
<1>7. q2 \in Seq(Seq(Nat))
  BY <1>3, <1>6, HeaderCalls DEF q2
<1>8. q3 \in Seq(Seq(Nat))
  BY <1>3, <1>7, HeaderCalls DEF q3
<1>9. Adds(q3, Tlv(2, <<2>>), der_tlv_len(1), q4)
  BY <1>8, AddsInteger DEF q4
<1>10. q4 \in Seq(Seq(Nat))
  BY <1>9, AddsType
<1>11. q5 \in Seq(Seq(Nat))
  BY <1>3, <1>10, HeaderCalls DEF q5
<1>12. q6 \in Seq(Seq(Nat))
  BY <1>3, <1>11, HeaderCalls DEF q6
<1>13. Adds(q6, Tlv(6, OID_ORI_KEM), der_tlv_len(Len(OID_ORI_KEM)), q7)
  BY <1>12, OidsFact, AddsOid DEF q7
<1>14. q7 \in Seq(Seq(Nat))
  BY <1>13, AddsType
<1>15. q8 \in Seq(Seq(Nat))
  BY <1>3, <1>14, HeaderCalls DEF q8
<1>16. Adds(q8, Tlv(2, <<0>>), der_tlv_len(1), q9)
  BY <1>15, AddsInteger DEF q9
<1>17. q9 \in Seq(Seq(Nat))
  BY <1>16, AddsType
<1>18. Adds(q9, Tlv(128, <<>>), der_tlv_len(0), q10)
  BY <1>17, AddsEmpty DEF q10
<1>19. q10 \in Seq(Seq(Nat))
  BY <1>18, AddsType
<1>20. Adds(q8, Tlv(2, <<0>>) \o Tlv(128, <<>>), der_tlv_len(1) + der_tlv_len(0), q10)
  BY <1>16, <1>18, AddsThen
<1>21. Adds(q10, Alg(OID_MLKEM512), der_alg_id_len(OID_MLKEM512), q11)
  BY <1>19, OidsFact, AddsAlg DEF q11
<1>22. q11 \in Seq(Seq(Nat))
  BY <1>21, AddsType
<1>23. Adds(q8, Tlv(2, <<0>>) \o Tlv(128, <<>>) \o Alg(OID_MLKEM512),
           der_tlv_len(1) + der_tlv_len(0) + der_alg_id_len(OID_MLKEM512), q11)
  BY <1>20, <1>21, AddsThen
<1>24. Adds(q11, Tlv(4, kem_ct), der_tlv_len(Len(kem_ct)), q12)
  BY <1>22, AddsOctets DEF q12
<1>25. q12 \in Seq(Seq(Nat))
  BY <1>24, AddsType
<1>26. Adds(q8, Tlv(2, <<0>>) \o Tlv(128, <<>>) \o Alg(OID_MLKEM512) \o Tlv(4, kem_ct),
           der_tlv_len(1) + der_tlv_len(0) + der_alg_id_len(OID_MLKEM512) + der_tlv_len(Len(kem_ct)), q12)
  BY <1>23, <1>24, AddsThen
<1>27. Adds(q12, Alg(OID_HKDF_SHA256), der_alg_id_len(OID_HKDF_SHA256), q13)
  BY <1>25, OidsFact, AddsAlg DEF q13
<1>28. q13 \in Seq(Seq(Nat))
  BY <1>27, AddsType
<1>29. Adds(q8, Tlv(2, <<0>>) \o Tlv(128, <<>>) \o Alg(OID_MLKEM512) \o Tlv(4, kem_ct) \o Alg(OID_HKDF_SHA256),
           der_tlv_len(1) + der_tlv_len(0) + der_alg_id_len(OID_MLKEM512) + der_tlv_len(Len(kem_ct)) + der_alg_id_len(OID_HKDF_SHA256), q13)
  BY <1>26, <1>27, AddsThen
<1>30. Adds(q13, Tlv(2, <<16>>), der_tlv_len(1), q14)
  BY <1>28, AddsInteger DEF q14
<1>31. q14 \in Seq(Seq(Nat))
  BY <1>30, AddsType
<1>32. Adds(q8, Tlv(2, <<0>>) \o Tlv(128, <<>>) \o Alg(OID_MLKEM512) \o Tlv(4, kem_ct) \o Alg(OID_HKDF_SHA256) \o Tlv(2, <<16>>),
           der_tlv_len(1) + der_tlv_len(0) + der_alg_id_len(OID_MLKEM512) + der_tlv_len(Len(kem_ct)) + der_alg_id_len(OID_HKDF_SHA256) + der_tlv_len(1), q14)
  BY <1>29, <1>30, AddsThen
<1>33. Adds(q14, Alg(OID_AES128_WRAP), der_alg_id_len(OID_AES128_WRAP), q15)
  BY <1>31, OidsFact, AddsAlg DEF q15
<1>34. q15 \in Seq(Seq(Nat))
  BY <1>33, AddsType
<1>35. Adds(q8, Tlv(2, <<0>>) \o Tlv(128, <<>>) \o Alg(OID_MLKEM512) \o Tlv(4, kem_ct) \o Alg(OID_HKDF_SHA256) \o Tlv(2, <<16>>) \o Alg(OID_AES128_WRAP),
           der_tlv_len(1) + der_tlv_len(0) + der_alg_id_len(OID_MLKEM512) + der_tlv_len(Len(kem_ct)) + der_alg_id_len(OID_HKDF_SHA256) + der_tlv_len(1) + der_alg_id_len(OID_AES128_WRAP), q15)
  BY <1>32, <1>33, AddsThen
<1>36. Adds(q15, Tlv(4, <<>>), der_tlv_len(0), q16)
  BY <1>34, AddsNone DEF q16
<1>37. q16 \in Seq(Seq(Nat))
  BY <1>36, AddsType
<1>38. Adds(q8, Tlv(2, <<0>>) \o Tlv(128, <<>>) \o Alg(OID_MLKEM512) \o Tlv(4, kem_ct) \o Alg(OID_HKDF_SHA256) \o Tlv(2, <<16>>) \o Alg(OID_AES128_WRAP) \o Tlv(4, <<>>),
           der_tlv_len(1) + der_tlv_len(0) + der_alg_id_len(OID_MLKEM512) + der_tlv_len(Len(kem_ct)) + der_alg_id_len(OID_HKDF_SHA256) + der_tlv_len(1) + der_alg_id_len(OID_AES128_WRAP) + der_tlv_len(0), q16)
  BY <1>35, <1>36, AddsThen
<1>39. Adds(q8, Kemri, kemri, q16)
  BY <1>38 DEF Kemri, kemri
<1>40. Adds(q7, Tlv(48, Kemri), der_tlv_len(kemri), q16)
  BY <1>39, <1>14, AddsTlv DEF q8
<1>41. Adds(q6, Tlv(6, OID_ORI_KEM) \o Tlv(48, Kemri),
           der_tlv_len(Len(OID_ORI_KEM)) + der_tlv_len(kemri), q16)
  BY <1>13, <1>40, AddsThen
<1>42. Adds(q6, Ori, ori, q16)
  BY <1>41 DEF Ori, ori
<1>43. Adds(q5, Tlv(164, Ori), der_tlv_len(ori), q16)
  BY <1>42, <1>11, AddsTlv DEF q6
<1>44. Adds(q5, Recipients, recipients, q16)
  BY <1>43 DEF Recipients, recipients
<1>45. Adds(q4, Tlv(49, Recipients), der_tlv_len(recipients), q16)
  BY <1>44, <1>10, AddsTlv DEF q5
<1>46. Adds(q3, Tlv(2, <<2>>) \o Tlv(49, Recipients),
           der_tlv_len(1) + der_tlv_len(recipients), q16)
  BY <1>9, <1>45, AddsThen
<1>47. q17 \in Seq(Seq(Nat))
  BY <1>3, <1>37, HeaderCalls DEF q17
<1>48. Adds(q17, Tlv(6, OID_CMS_DATA), der_tlv_len(Len(OID_CMS_DATA)), q18)
  BY <1>47, OidsFact, AddsOid DEF q18
<1>49. q18 \in Seq(Seq(Nat))
  BY <1>48, AddsType
<1>50. Adds(q18, Tlv(48, Tlv(6, OID_AES128_GCM) \o params),
           der_tlv_len(der_tlv_len(Len(OID_AES128_GCM)) + Len(params)), q19)
  BY <1>49, OidsFact, AddsAlgParams DEF q19
<1>51. q19 \in Seq(Seq(Nat))
  BY <1>50, AddsType
<1>52. Adds(q17, Tlv(6, OID_CMS_DATA) \o Tlv(48, Tlv(6, OID_AES128_GCM) \o params),
           der_tlv_len(Len(OID_CMS_DATA)) + der_tlv_len(der_tlv_len(Len(OID_AES128_GCM)) + Len(params)), q19)
  BY <1>48, <1>50, AddsThen
<1>53. Adds(q19, Tlv(128, enc), der_tlv_len(Len(enc)), q21)
  BY <1>51, AddsLast DEF q20, q21
<1>54. q21 \in Seq(Seq(Nat))
  BY <1>53, AddsType
<1>55. Adds(q17, Tlv(6, OID_CMS_DATA) \o Tlv(48, Tlv(6, OID_AES128_GCM) \o params) \o Tlv(128, enc),
           der_tlv_len(Len(OID_CMS_DATA)) + der_tlv_len(der_tlv_len(Len(OID_AES128_GCM)) + Len(params)) + der_tlv_len(Len(enc)), q21)
  BY <1>52, <1>53, AddsThen
<1>56. Adds(q17, Eci, eci, q21)
  BY <1>55 DEF Eci, eci, content_alg
<1>57. Adds(q16, Tlv(48, Eci), der_tlv_len(eci), q21)
  BY <1>56, <1>37, AddsTlv DEF q17
<1>58. Adds(q3, Tlv(2, <<2>>) \o Tlv(49, Recipients) \o Tlv(48, Eci),
           der_tlv_len(1) + der_tlv_len(recipients) + der_tlv_len(eci), q21)
  BY <1>46, <1>57, AddsThen
<1>59. Adds(q3, EnvelopedData, enveloped_data, q21)
  BY <1>58 DEF EnvelopedData, enveloped_data
<1>60. Adds(q2, Tlv(48, EnvelopedData), der_tlv_len(enveloped_data), q21)
  BY <1>59, <1>7, AddsTlv DEF q3
<1>61. Adds(q2, Explicit, explicit, q21)
  BY <1>60 DEF Explicit, explicit
<1>62. Adds(q1, Tlv(160, Explicit), der_tlv_len(explicit), q21)
  BY <1>61, <1>6, AddsTlv DEF q2
<1>63. Adds(q0, Tlv(6, OID_CMS_ENVELOPED_DATA) \o Tlv(160, Explicit),
           der_tlv_len(Len(OID_CMS_ENVELOPED_DATA)) + der_tlv_len(explicit), q21)
  BY <1>5, <1>62, AddsThen
<1>64. Adds(q0, ContentInfo, info, q21)
  BY <1>63 DEF ContentInfo, info
<1>65. Puts(q21, Tlv(48, ContentInfo))
  BY <1>64, PutsTlv DEF q0
<1> QED
  BY <1>1, <1>2, <1>65


(***************************************************************************)
(* The program.                                                            *)
(***************************************************************************)
Lengths == lens \in Builds

\* What signatures, ciphertexts and contents are made of.
LEMMA BytesFact ==
    ASSUME Lengths
    PROVE  /\ g_mldsa_sig \in Seq(Nat) /\ g_kem_ct \in Seq(Nat) /\ g_encrypted \in Seq(Nat)
           /\ Plaintext(97) \in Seq(Nat) /\ Nonce \in Seq(Nat) /\ lens.size \in Nat
<1>1. lens.sig \in Nat /\ lens.ct \in Nat /\ lens.plain \in Nat /\ lens.size \in Nat
  <2>1. /\ lens.sig \in 1..MaxLen /\ lens.ct \in 0..MaxLen
        /\ lens.plain \in 0..MaxLen /\ lens.size \in 0..MaxLen
    BY CmsAssumption DEF Lengths
  <2>2. MaxLen \in Nat
    BY DEF MaxLen
  <2> QED
    BY <2>1, <2>2
<1>2. Len(Filling) \in Nat \ {0} /\ \A i \in 1..Len(Filling) : Filling[i] \in Nat
  <2>1. Filling \in Seq(0..255) /\ Filling # <<>>
    BY CmsAssumption
  <2>2. Len(Filling) \in Nat /\ Len(Filling) # 0
    BY <2>1, SeqDomain, SeqEmpty
  <2>3. \A i \in 1..Len(Filling) : Filling[i] \in 0..255
    BY <2>1, SeqElt
  <2>4. \A i \in 1..Len(Filling) : Filling[i] \in Nat
    <3>1. \A b \in 0..255 : b \in Nat
      OBVIOUS
    <3> QED
      BY <2>3, <3>1
  <2>5. Len(Filling) \in Nat \ {0}
    BY <2>2
  <2> QED
    BY <2>4, <2>5
<1>3. ASSUME NEW n \in Nat PROVE Bytes(n) \in Seq(Nat)
  <2>1. ASSUME NEW i \in 1..n PROVE Filling[1 + (i % Len(Filling))] \in Nat
    <3>1. 1 + (i % Len(Filling)) \in 1..Len(Filling)
      BY <1>2
    <3> QED
      BY <1>2, <3>1
  <2>2. Bytes(n) \in [1..n -> Nat]
    BY <2>1 DEF Bytes
  <2> QED
    BY <2>2, SeqMake
<1>4. g_mldsa_sig \in Seq(Nat) /\ g_kem_ct \in Seq(Nat)
  BY <1>1, <1>3 DEF g_mldsa_sig, g_kem_ct
<1>5. g_encrypted \in Seq(Nat)
  <2>1. lens.plain + TagLen \in Nat
    BY <1>1 DEF TagLen
  <2> QED
    BY <1>3, <2>1 DEF g_encrypted
<1>6. Plaintext(97) \in Seq(Nat)
  <2>1. \A i \in 1..lens.plain : 97 + ((i - 1) % 26) \in Nat
    BY <1>1
  <2>2. Plaintext(97) \in [1..lens.plain -> Nat]
    BY <2>1 DEF Plaintext, Letters
  <2> QED
    BY <1>1, <2>2, SeqMake
<1>7. Nonce \in Seq(Nat)
  <2>1. Nonce \in [1..12 -> Nat]
    BY DEF Nonce
  <2>2. 12 \in Nat
    OBVIOUS
  <2> HIDE DEF Nonce
  <2> QED
    BY <2>1, <2>2, SeqMake
<1> QED
  BY <1>1, <1>4, <1>5, <1>6, <1>7

\* The parameters fit into aes_gcm_params, and are written as they should be.
LEMMA ParamsFact ==
    /\ cms_pqc_write_aes_gcm_params(Nonce).ok
    /\ cms_pqc_write_aes_gcm_params(Nonce).buf = ParamsOf(Nonce)
    /\ ParamsOf(Nonce) \in Seq(Nat)
<1>1. Nonce \in Seq(Nat) /\ Len(Nonce) = 12
  <2>1. Nonce \in [1..12 -> Nat] /\ 12 \in Nat
    BY DEF Nonce
  <2> HIDE DEF Nonce
  <2> QED
    BY <2>1, SeqMake
<1>2. PICK calls : /\ cms_pqc_write_aes_gcm_params(Nonce) = Written(ParamsMax, calls)
                   /\ Puts(calls, ParamsOf(Nonce))
  BY <1>1, ParamsPuts
<1>3. ParamsOf(Nonce) \in Seq(Nat)
  BY <1>2 DEF Puts
<1>4. Len(ParamsOf(Nonce)) = 19
  <2> DEFINE a == Tlv(4, Nonce)
             b == Tlv(2, <<TagLen>>)
  <2>1. a \in Seq(Nat) /\ Len(a) = 14
    <3>1. der_tlv_len(12) = 14
      BY DEF der_tlv_len, der_len_len
    <3>2. a \in Seq(Nat) /\ Len(a) = der_tlv_len(Len(Nonce))
      BY <1>1, TlvFact
    <3> QED
      BY <1>1, <3>1, <3>2
  <2>2. b \in Seq(Nat) /\ Len(b) = 3
    <3>1. <<TagLen>> \in Seq(Nat) /\ Len(<<TagLen>>) = 1
      BY DEF TagLen
    <3>2. der_tlv_len(1) = 3
      BY DEF der_tlv_len, der_len_len
    <3> QED
      BY <3>1, <3>2, TlvFact
  <2> HIDE DEF a, b
  <2>3. a \o b \in Seq(Nat) /\ Len(a \o b) = 17
    <3>1. a \o b \in Seq(Nat) /\ Len(a \o b) = Len(a) + Len(b)
      BY ZenonT(60), <2>1, <2>2, SeqConcat
    <3> QED
      BY <2>1, <2>2, <3>1
  <2>4. Len(Tlv(48, a \o b)) = der_tlv_len(17) /\ der_tlv_len(17) = 19
    <3>1. der_tlv_len(17) = 19
      BY DEF der_tlv_len, der_len_len
    <3> DEFINE c == a \o b
    <3> HIDE DEF c
    <3>2. Len(Tlv(48, c)) = der_tlv_len(Len(c))
      BY <2>3, TlvFact DEF c
    <3> QED
      BY <2>3, <3>1, <3>2 DEF c
  <2> QED
    BY <2>4 DEF a, b, ParamsOf
<1>5. ParamsMax \in Nat /\ Len(ParamsOf(Nonce)) <= ParamsMax
  BY <1>4 DEF ParamsMax
<1> QED
  BY <1>2, <1>3, <1>5, WrittenFact

\* What the two builders make: the message unless it is too long.
LEMMA BuilderFact ==
    ASSUME Lengths
    PROVE  LET s == cms_pqc_build_signed_data(Plaintext(97), g_mldsa_sig, lens.size)
               e == cms_pqc_build_enveloped_data(g_kem_ct, g_encrypted,
                        cms_pqc_write_aes_gcm_params(Nonce).buf, lens.size)
           IN  /\ s.ok <=> Len(SignedDer) <= lens.size
               /\ s.ok => s.buf = SignedDer
               /\ e.ok <=> Len(EnvelopedDer) <= lens.size
               /\ e.ok => e.buf = EnvelopedDer
<1>1. /\ g_mldsa_sig \in Seq(Nat) /\ g_kem_ct \in Seq(Nat) /\ g_encrypted \in Seq(Nat)
      /\ Plaintext(97) \in Seq(Nat) /\ Nonce \in Seq(Nat) /\ lens.size \in Nat
  BY BytesFact
<1>2. SignedDer = SignedOf(Plaintext(97), g_mldsa_sig)
  BY DEF SignedDer
<1>3. EnvelopedDer = EnvelopedOf(g_kem_ct, g_encrypted, ParamsOf(Nonce))
  BY DEF EnvelopedDer
<1>4. PICK c : /\ cms_pqc_build_signed_data(Plaintext(97), g_mldsa_sig, lens.size) = Written(lens.size, c)
               /\ Puts(c, SignedDer)
  BY <1>1, <1>2, SignedPuts
<1>5. PICK d : /\ cms_pqc_build_enveloped_data(g_kem_ct, g_encrypted, ParamsOf(Nonce), lens.size)
                      = Written(lens.size, d)
               /\ Puts(d, EnvelopedDer)
  BY <1>1, <1>3, ParamsFact, EnvelopedPuts
<1> QED
  BY SMTT(60), <1>1, <1>4, <1>5, ParamsFact, WrittenFact

\* Whatever the lengths of the signature, of the ciphertext and of the content:
\* what cms_pqc_build_signed_data and cms_pqc_build_enveloped_data write is the
\* DER of the CMS structure, the lengths written before the contents being the
\* lengths of the contents.
THEOREM CmsWritten == Spec => []CmsIsDer
<1> DEFINE Inv == Lengths /\ CmsIsDer
<1>1. Init => Inv
  BY DEF Init, Lengths, CmsIsDer
<1>2. Inv /\ [Next]_vars => Inv'
  <2> SUFFICES ASSUME Inv, [Next]_vars PROVE Inv'
    OBVIOUS
  <2>1. CASE UNCHANGED vars
    <3>1. SignedDer' = SignedDer /\ EnvelopedDer' = EnvelopedDer
      BY <2>1 DEF vars, SignedDer, EnvelopedDer, Plaintext, g_mldsa_sig, g_kem_ct, g_encrypted
    <3> QED
      BY <2>1, <3>1 DEF vars, Lengths, CmsIsDer
  <2> DEFINE Der == SignedDer' = SignedDer /\ EnvelopedDer' = EnvelopedDer
  <2>2. lens' = lens => Lengths' /\ Der
    BY DEF Lengths, SignedDer, EnvelopedDer, Plaintext, g_mldsa_sig, g_kem_ct, g_encrypted
  <2>3. CASE BuildSigned
    <3>1. Lengths' /\ Der
      BY <2>2, <2>3 DEF BuildSigned, Build
    <3>2. pc' = "find_signature" => cms' = SignedDer
      BY <2>3, BuilderFact DEF BuildSigned, Build, Fail
    <3>3. pc' # "find_ciphertext"
      BY <2>3 DEF BuildSigned, Build, Fail
    <3> QED
      BY <3>1, <3>2, <3>3 DEF CmsIsDer
  <2>4. CASE BuildEnveloped
    <3>1. Lengths' /\ Der
      BY <2>2, <2>4 DEF BuildEnveloped, Build
    <3>2. pc' = "find_ciphertext" => cms' = EnvelopedDer
      BY <2>4, BuilderFact DEF BuildEnveloped, Build, Fail
    <3>3. pc' # "find_signature"
      BY <2>4 DEF BuildEnveloped, Build, Fail
    <3> QED
      BY <3>1, <3>2, <3>3 DEF CmsIsDer
  <2>5. ASSUME \/ PrimitiveFails \/ Sign \/ FindSignature \/ Verify \/ Encapsulate \/ Encrypt
               \/ FindCiphertext \/ FindContent \/ Decapsulate \/ Decrypt
        PROVE  lens' = lens /\ pc' # "find_signature" /\ pc' # "find_ciphertext"
    BY <2>5 DEF PrimitiveFails, Sign, FindSignature, Verify, Encapsulate, Encrypt,
                FindCiphertext, FindContent, Decapsulate, Decrypt, Fail
  <2> QED
    BY <2>1, <2>2, <2>3, <2>4, <2>5 DEF Next, CmsIsDer
<1>3. Inv => CmsIsDer
  OBVIOUS
<1> QED
  BY <1>1, <1>2, <1>3, PTL DEF Spec

-----------------------------------------------------------------------------
(***************************************************************************)
(* The reader.                                                             *)
(***************************************************************************)

\* The value of a length of k octets, octet by octet.
Value(v, buf, off, k) ==
    /\ v \in [0..k -> Nat] /\ v[0] = 0
    /\ \A i \in 1..k : v[i] = IF v[i - 1] >= 256 * 256 THEN Huge
                              ELSE v[i - 1] * 256 + buf[off + 2 + i]

LEMMA ValueFact ==
    ASSUME NEW buf \in Seq(Nat), NEW off \in Nat, NEW k \in Nat, k >= 1,
           buf[off + 2] = 128 + k, off + 2 + k <= Len(buf)
    PROVE  \E v : Value(v, buf, off, k) /\ ContentLen(buf, off) = v[k]
<1> DEFINE Then(x, i) == IF x >= 256 * 256 THEN Huge ELSE x * 256 + buf[off + 2 + i]
           Body(f) == [i \in 0..k |-> IF i = 0 THEN 0 ELSE Then(f[i - 1], i)]
           Step == [i \in 1..k |-> [x \in Nat |-> Then(x, i)]]
           F == CHOOSE f : f = Body(f)
<1>1. LenLen(buf, off) = k /\ ~(buf[off + 2] < 128)
  BY DEF LenLen
<1>2. ContentLen(buf, off) = F[k]
  <2> DEFINE G(n) == CHOOSE f : f = [i \in 0..n |-> IF i = 0 THEN 0 ELSE Then(f[i - 1], i)]
  <2>1. ContentLen(buf, off) = G(LenLen(buf, off))[LenLen(buf, off)]
    BY <1>1, Zenon DEF ContentLen
  <2>2. G(k) = F
    BY Zenon
  <2> HIDE DEF G, F
  <2> QED
    BY <1>1, <2>1, <2>2
<1>3. ASSUME NEW x \in Nat, NEW i \in 1..k PROVE Then(x, i) \in Nat
  <2>1. Len(buf) \in Nat
    BY SeqDomain
  <2>2. off + 2 + i \in 1..Len(buf)
    BY <2>1
  <2>3. buf[off + 2 + i] \in Nat
    BY <2>2, SeqElt
  <2>4. Huge \in Nat
    BY DEF Huge
  <2> DEFINE b == buf[off + 2 + i]
  <2> HIDE DEF b
  <2>5. x * 256 + b \in Nat
    BY <2>3 DEF b
  <2> QED
    BY <2>4, <2>5 DEF b
<1> HIDE DEF Then
<1>4. Step \in [1..k -> [Nat -> Nat]]
  BY <1>3
<1>5. \A i \in 1..k : \A x \in Nat : Step[i][x] = Then(x, i)
  OBVIOUS
<1> HIDE DEF Step
<1>6. PICK h : Computes(h, Nat, 0, k, Step)
  <2>1. 0 \in Nat
    OBVIOUS
  <2> QED
    BY <1>4, <2>1, NatRecursion
<1>7. h \in [0..k -> Nat] /\ h[0] = 0 /\ \A i \in 1..k : h[i] = Step[i][h[i - 1]]
  BY <1>6 DEF Computes
<1>8. \A i \in 1..k : i - 1 \in 0..k /\ i \in 0..k /\ i # 0
  OBVIOUS
<1>9. \A i \in 1..k : h[i] = Then(h[i - 1], i)
  BY <1>5, <1>7, <1>8
<1>10. h = Body(h)
  <2>1. \A i \in 0..k : h[i] = IF i = 0 THEN 0 ELSE Then(h[i - 1], i)
    BY <1>7, <1>9
  <2> QED
    BY <1>7, <2>1
<1>11. F = Body(F)
  <2>1. \E f : f = Body(f)
    BY <1>10
  <2> HIDE DEF Body
  <2> QED
    BY <2>1, Zenon
<1> HIDE DEF F
<1>12. F \in [0..k -> Nat] /\ F[0] = 0 /\ \A i \in 1..k : F[i] = Then(F[i - 1], i)
  <2>1. \A i \in 0..k : F[i] = IF i = 0 THEN 0 ELSE Then(F[i - 1], i)
    BY <1>11
  <2>2. F[0] = 0 /\ \A i \in 1..k : F[i] = Then(F[i - 1], i)
    BY <1>8, <2>1
  <2> DEFINE T == {i \in 0..k : F[i] \in Nat}
  <2>3. 0 \in T
    BY <2>2
  <2>4. \A i \in 0..k : i \in T /\ i < k => i + 1 \in T
    <3> TAKE i \in 0..k
    <3> HAVE i \in T /\ i < k
    <3>1. i + 1 \in 1..k /\ (i + 1) - 1 = i /\ F[i] \in Nat /\ i + 1 \in 0..k
      OBVIOUS
    <3>2. F[i + 1] = Then(F[i], i + 1)
      BY <2>2, <3>1
    <3>3. F[i + 1] \in Nat
      BY <1>3, <3>1, <3>2
    <3> QED
      BY <3>1, <3>3
  <2>5. \A i \in 0..k : i \in T
    <3> HIDE DEF T
    <3> QED
      BY <2>3, <2>4, NatUpTo
  <2>6. F = [i \in 0..k |-> F[i]]
    BY <1>11
  <2> QED
    BY <2>2, <2>5, <2>6
<1>13. Value(F, buf, off, k)
  BY <1>12 DEF Value, Then
<1> QED
  BY <1>2, <1>13

\* The last ones of four.
LEMMA LastOfFour ==
    ASSUME NEW a \in Nat, NEW b \in Nat, NEW c \in Nat, NEW d \in Nat
    PROVE  /\ SubSeq(<<a, b, c, d>>, 4, 4) = <<d>> /\ SubSeq(<<a, b, c, d>>, 3, 4) = <<c, d>>
           /\ SubSeq(<<a, b, c, d>>, 2, 4) = <<b, c, d>>
<1> DEFINE s == <<a, b, c, d>>
           one == <<d>>
           two == <<c, d>>
           three == <<b, c, d>>
<1>1. s \in Seq(Nat) /\ Len(s) = 4 /\ s[2] = b /\ s[3] = c /\ s[4] = d
  OBVIOUS
<1>2. one \in Seq(Nat) /\ Len(one) = 1 /\ one[1] = d
  BY SeqSmall
<1>3. two \in Seq(Nat) /\ Len(two) = 2 /\ two[1] = c /\ two[2] = d
  BY SeqSmall
<1>4. three \in Seq(Nat) /\ Len(three) = 3 /\ three[1] = b /\ three[2] = c /\ three[3] = d
  BY SeqTriple
<1> HIDE DEF s, one, two, three
<1>5. ASSUME NEW f \in 2..4
      PROVE  /\ SubSeq(s, f, 4) \in Seq(Nat) /\ Len(SubSeq(s, f, 4)) = 5 - f
             /\ \A i \in 1..(5 - f) : SubSeq(s, f, 4)[i] = s[f + i - 1]
  <2>1. f \in Nat /\ 4 \in Nat /\ f >= 1 /\ 4 <= Len(s) /\ f <= 4 + 1 /\ 4 + 1 - f = 5 - f
    BY <1>1
  <2>2. /\ SubSeq(s, f, 4) \in Seq(Nat) /\ Len(SubSeq(s, f, 4)) = 4 + 1 - f
        /\ \A i \in 1..(4 + 1 - f) : SubSeq(s, f, 4)[i] = s[f + i - 1]
    BY <1>1, <2>1, SeqSegment
  <2> QED
    BY <2>1, <2>2
<1>6. SubSeq(s, 4, 4) = one
  <2> DEFINE r == SubSeq(s, 4, 4)
  <2>1. r \in Seq(Nat) /\ Len(r) = 1 /\ \A i \in 1..1 : r[i] = s[4 + i - 1]
    BY <1>5
  <2> HIDE DEF r
  <2>2. r[1] = d
    BY <1>1, <2>1
  <2>3. \A i \in 1..Len(r) : r[i] = one[i]
    BY <1>2, <2>1, <2>2
  <2> QED
    BY <1>2, <2>1, <2>3, SeqSame DEF r
<1>7. SubSeq(s, 3, 4) = two
  <2> DEFINE r == SubSeq(s, 3, 4)
  <2>1. r \in Seq(Nat) /\ Len(r) = 2 /\ \A i \in 1..2 : r[i] = s[3 + i - 1]
    BY <1>5
  <2> HIDE DEF r
  <2>2. r[1] = c /\ r[2] = d
    BY <1>1, <2>1
  <2>3. \A i \in 1..Len(r) : r[i] = two[i]
    BY <1>3, <2>1, <2>2
  <2> QED
    BY <1>3, <2>1, <2>3, SeqSame DEF r
<1>8. SubSeq(s, 2, 4) = three
  <2> DEFINE r == SubSeq(s, 2, 4)
  <2>1. r \in Seq(Nat) /\ Len(r) = 3 /\ \A i \in 1..3 : r[i] = s[2 + i - 1]
    BY <1>5
  <2> HIDE DEF r
  <2>2. r[1] = b /\ r[2] = c /\ r[3] = d
    BY <1>1, <2>1
  <2>3. \A i \in 1..Len(r) : r[i] = three[i]
    BY <1>4, <2>1, <2>2
  <2> QED
    BY <1>4, <2>1, <2>3, SeqSame DEF r
<1> QED
  BY <1>6, <1>7, <1>8 DEF s, one, two, three

\* The octets that der_put_len writes,
LEMMA OctetsAre ==
    ASSUME NEW n \in Nat, n <= MaxLen
    PROVE  /\ n < 256 => Octets(n) = <<n>>
           /\ n >= 256 /\ n < 256 * 256 => Octets(n) = <<n \div 256, n % 256>>
           /\ n >= 256 * 256 =>
                Octets(n) = <<n \div (256 * 256), (n \div 256) % 256, n % 256>>
<1> DEFINE a == n \div (256 * 256 * 256)
           b == (n \div (256 * 256)) % 256
           c == (n \div 256) % 256
           d == n % 256
           f == IF n < 256 THEN 4 ELSE IF n < 256 * 256 THEN 3 ELSE IF n <= MaxLen THEN 2 ELSE 1
<1>1. a \in Nat /\ b \in Nat /\ c \in Nat /\ d \in Nat
  <2>1. \A m \in Nat : m \div 256 \in Nat /\ m % 256 \in Nat
    OBVIOUS
  <2>2. a \in Nat /\ n \div (256 * 256) \in Nat
    OBVIOUS
  <2> QED
    BY <2>1, <2>2
<1>2. Octets(n) = SubSeq(<<a, b, c, d>>, f, 4)
  BY DEF Octets
<1>3. /\ n < 256 => f = 4 /\ d = n
      /\ n >= 256 /\ n < 256 * 256 => f = 3 /\ c = n \div 256
      /\ n >= 256 * 256 => f = 2 /\ b = n \div (256 * 256)
  <2>1. n < 256 => f = 4 /\ d = n
    OBVIOUS
  <2>2. n >= 256 /\ n < 256 * 256 => f = 3 /\ c = n \div 256
    OBVIOUS
  <2>3. n >= 256 * 256 => f = 2
    OBVIOUS
  <2>4. b = n \div (256 * 256)
    <3>1. n < 256 * 256 * 256
      BY DEF MaxLen
    <3>2. n \div (256 * 256) < 256 /\ n \div (256 * 256) \in Nat
      BY <3>1
    <3> QED
      BY <3>2
  <2> HIDE DEF b, c, d, f
  <2> QED
    BY <2>1, <2>2, <2>3, <2>4
<1> HIDE DEF a, b, c, d, f
<1>4. /\ SubSeq(<<a, b, c, d>>, 4, 4) = <<d>> /\ SubSeq(<<a, b, c, d>>, 3, 4) = <<c, d>>
      /\ SubSeq(<<a, b, c, d>>, 2, 4) = <<b, c, d>>
  BY <1>1, LastOfFour
<1>5. n < 256 => Octets(n) = <<n>>
  BY <1>2, <1>3, <1>4
<1>6. n >= 256 /\ n < 256 * 256 => Octets(n) = <<n \div 256, n % 256>>
  BY <1>2, <1>3, <1>4 DEF d
<1>7. n >= 256 * 256 => Octets(n) = <<n \div (256 * 256), (n \div 256) % 256, n % 256>>
  BY <1>2, <1>3, <1>4 DEF c, d
<1> QED
  BY <1>5, <1>6, <1>7

\* are read as the length they are of.
LEMMA ValueIs ==
    ASSUME NEW n \in Nat, n >= 128, n <= MaxLen
    PROVE  LET o == Octets(n)
           IN  /\ o \in Seq(Nat) /\ Len(o) \in 1..3
               /\ \A v, buf, off :
                    /\ Value(v, buf, off, Len(o))
                    /\ \A i \in 1..Len(o) : buf[off + 2 + i] = o[i]
                    => v[Len(o)] = n
<1> DEFINE o == Octets(n)
           Read(v, buf, off, k) == /\ Value(v, buf, off, k)
                                   /\ \A i \in 1..k : buf[off + 2 + i] = o[i]
           q == n \div 256
           p == n \div (256 * 256)
           r == n % 256
           m == q % 256
<1>1. /\ q \in Nat /\ p \in Nat /\ r \in Nat /\ m \in Nat
      /\ q * 256 + r = n /\ p * 256 + m = q
  <2>1. q \in Nat /\ p \in Nat /\ r \in Nat /\ m \in Nat
    OBVIOUS
  <2>2. q * 256 + r = n
    OBVIOUS
  <2>3. p = q \div 256
    OBVIOUS
  <2>4. (q \div 256) * 256 + m = q
    OBVIOUS
  <2> QED
    BY <2>1, <2>2, <2>3, <2>4
<1>2. q < 256 * 256 /\ p < 256
  <2>1. n < 256 * 256 * 256
    BY DEF MaxLen
  <2>2. q < 256 * 256
    BY <2>1
  <2>3. p < 256
    BY <2>1
  <2> QED
    BY <2>2, <2>3
<1>3. /\ n < 256 => o = <<n>>
      /\ n >= 256 /\ n < 256 * 256 => o = <<q, r>>
      /\ n >= 256 * 256 => o = <<p, m, r>>
  BY OctetsAre
<1> HIDE DEF q, p, r, m, o
<1>8. /\ n < 256 => o \in Seq(Nat) /\ Len(o) = 1 /\ o[1] = n
      /\ n >= 256 /\ n < 256 * 256 => o \in Seq(Nat) /\ Len(o) = 2 /\ o[1] = q /\ o[2] = r
      /\ n >= 256 * 256 => o \in Seq(Nat) /\ Len(o) = 3 /\ o[1] = p /\ o[2] = m /\ o[3] = r
  <2> DEFINE one == <<n>>
             two == <<q, r>>
             three == <<p, m, r>>
  <2>1. one \in Seq(Nat) /\ Len(one) = 1 /\ one[1] = n
    BY SeqSmall
  <2>2. two \in Seq(Nat) /\ Len(two) = 2 /\ two[1] = q /\ two[2] = r
    BY <1>1, SeqSmall
  <2>3. three \in Seq(Nat) /\ Len(three) = 3 /\ three[1] = p /\ three[2] = m /\ three[3] = r
    BY <1>1, SeqTriple
  <2>4. /\ n < 256 => o = one
        /\ n >= 256 /\ n < 256 * 256 => o = two
        /\ n >= 256 * 256 => o = three
    BY <1>3
  <2> HIDE DEF one, two, three
  <2>5. n < 256 => o \in Seq(Nat) /\ Len(o) = 1 /\ o[1] = n
    BY <2>1, <2>4
  <2>6. n >= 256 /\ n < 256 * 256 => o \in Seq(Nat) /\ Len(o) = 2 /\ o[1] = q /\ o[2] = r
    BY <2>2, <2>4
  <2>7. n >= 256 * 256 => o \in Seq(Nat) /\ Len(o) = 3 /\ o[1] = p /\ o[2] = m /\ o[3] = r
    BY <2>3, <2>4
  <2> QED
    BY <2>5, <2>6, <2>7
<1>9. o \in Seq(Nat) /\ Len(o) \in 1..3
  BY <1>8
<1>4. ASSUME NEW v, NEW buf, NEW off, NEW k \in 1..3, Read(v, buf, off, k)
      PROVE  /\ v[1] = o[1] /\ o[1] \in Nat
             /\ k > 1 /\ o[1] < 256 * 256 => v[2] = o[1] * 256 + o[2]
             /\ k > 2 /\ v[2] < 256 * 256 => v[3] = v[2] * 256 + o[3]
  <2>1. /\ v \in [0..k -> Nat] /\ v[0] = 0
        /\ \A i \in 1..k : v[i] = IF v[i - 1] >= 256 * 256 THEN Huge
                                  ELSE v[i - 1] * 256 + o[i]
    BY <1>4 DEF Value
  <2>2. 1 \in 1..k /\ 1 - 1 = 0 /\ 1 \in 0..k /\ 2 - 1 = 1 /\ 3 - 1 = 2
    BY <1>4
  <2>3. v[1] = 0 * 256 + o[1] /\ v[1] \in Nat
    BY <2>1, <2>2
  <2>4. v[1] = o[1]
    <3>1. o[1] \in Nat
      <4>1. 1 \in 1..Len(o)
        BY SMTT(60), <1>9
      <4> QED
        BY <1>9, <4>1, SeqElt
    <3> QED
      BY <2>3, <3>1
  <2>5. k > 1 /\ o[1] < 256 * 256 => v[2] = o[1] * 256 + o[2]
    <3> HAVE k > 1 /\ o[1] < 256 * 256
    <3>1. 2 \in 1..k /\ ~(v[1] >= 256 * 256)
      BY <2>3, <2>4
    <3>2. v[2] = IF v[1] >= 256 * 256 THEN Huge ELSE v[1] * 256 + o[2]
      BY <2>1, <2>2, <3>1
    <3> QED
      BY <2>4, <3>1, <3>2
  <2>6. k > 2 /\ v[2] < 256 * 256 => v[3] = v[2] * 256 + o[3]
    <3> HAVE k > 2 /\ v[2] < 256 * 256
    <3>1. 3 \in 1..k /\ 2 \in 0..k
      OBVIOUS
    <3>2. v[2] \in Nat
      BY <2>1, <3>1
    <3>3. ~(v[2] >= 256 * 256)
      BY <3>2
    <3>4. v[3] = IF v[2] >= 256 * 256 THEN Huge ELSE v[2] * 256 + o[3]
      BY <2>1, <2>2, <3>1
    <3> QED
      BY <3>3, <3>4
  <2>7. o[1] \in Nat
    BY <2>3, <2>4
  <2> QED
    BY <2>4, <2>5, <2>6, <2>7
<1>5. CASE n < 256
  <2>1. o \in Seq(Nat) /\ Len(o) = 1 /\ o[1] = n
    BY <1>5, <1>8
  <2>2. \A v, buf, off : Read(v, buf, off, 1) => v[1] = n
    <3>1. 1 \in 1..3
      OBVIOUS
    <3> HIDE DEF Read
    <3> QED
      BY <1>4, <2>1, <3>1
  <2> QED
    BY <2>1, <2>2 DEF o
<1>6. CASE n >= 256 /\ n < 256 * 256
  <2>1. o \in Seq(Nat) /\ Len(o) = 2 /\ o[1] = q /\ o[2] = r
    BY <1>6, <1>8
  <2>2. \A v, buf, off : Read(v, buf, off, 2) => v[2] = n
    <3>1. 2 \in 1..3 /\ 2 > 1
      OBVIOUS
    <3> HIDE DEF Read
    <3> QED
      BY <1>1, <1>2, <1>4, <2>1, <3>1
  <2> QED
    BY <2>1, <2>2 DEF o
<1>7. CASE n >= 256 * 256
  <2>1. o \in Seq(Nat) /\ Len(o) = 3 /\ o[1] = p /\ o[2] = m /\ o[3] = r
    BY <1>7, <1>8
  <2>2. p < 256 * 256
    BY <1>1, <1>2
  <2>3. \A v, buf, off : Read(v, buf, off, 3) => v[3] = n
    <3>1. 3 \in 1..3 /\ 3 > 1 /\ 3 > 2
      OBVIOUS
    <3> TAKE v, buf, off
    <3> HAVE Read(v, buf, off, 3)
    <3> HIDE DEF Read
    <3>2. v[2] = p * 256 + m
      BY <1>4, <2>1, <2>2, <3>1
    <3>3. v[2] = q
      BY <1>1, <3>2
    <3>4. v[3] = v[2] * 256 + r
      BY <1>2, <1>4, <2>1, <3>1, <3>3
    <3> QED
      BY <1>1, <3>3, <3>4
  <2> QED
    BY <2>1, <2>3 DEF o
<1> QED
  BY <1>5, <1>6, <1>7

\* A header is read as what was written.
LEMMA HeaderReadBack ==
    ASSUME NEW buf \in Seq(Nat), NEW off \in Nat, NEW n \in Nat, n <= MaxLen,
           off + 1 + Len(LenField(n)) + n <= Len(buf),
           \A i \in 1..Len(LenField(n)) : buf[off + 1 + i] = LenField(n)[i]
    PROVE  /\ IsTlvAt(buf, off) /\ HdrLen(buf, off) = 1 + Len(LenField(n))
           /\ ContentLen(buf, off) = n
<1> DEFINE l == LenField(n)
<1>1. l \in Seq(Nat) /\ Len(l) \in Nat /\ Len(buf) \in Nat
  <2>1. 0 \in Nat
    OBVIOUS
  <2> QED
    BY <2>1, HeaderFact, SeqDomain
<1>2. CASE n < 128
  <2>1. l = <<n>> /\ Len(<<n>>) = 1 /\ <<n>>[1] = n
    BY <1>2 DEF LenField
  <2>2. buf[off + 1 + 1] = n /\ off + 1 + 1 + n <= Len(buf) /\ off + 1 + 1 = off + 2
    BY <1>2, <2>1
  <2>3. buf[off + 2] = n
    BY <2>2
  <2>4. LenLen(buf, off) = 0 /\ ContentLen(buf, off) = n
    BY <1>2, <2>3 DEF LenLen, ContentLen
  <2>5. HdrLen(buf, off) = 2
    BY <2>4 DEF HdrLen
  <2>6. IsTlvAt(buf, off)
    BY <1>1, <1>2, <2>2, <2>3, <2>4, <2>5 DEF IsTlvAt
  <2> QED
    BY <2>1, <2>4, <2>5, <2>6
<1>3. CASE ~(n < 128)
  <2> DEFINE o == Octets(n)
             k == Len(o)
             b == 128 + k
  <2>1. o \in Seq(Nat) /\ k \in 1..3
    BY <1>3, ValueIs
  <2>2. l = <<b>> \o o
    BY <1>3 DEF LenField
  <2> HIDE DEF o
  <2>3. b \in Nat
    BY <2>1
  <2> HIDE DEF b
  <2>4. <<b>> \in Seq(Nat) /\ Len(<<b>>) = 1 /\ <<b>>[1] = b
    BY <2>3
  <2>5. Len(l) = 1 + k /\ l[1] = b /\ \A i \in 1..k : l[1 + i] = o[i]
    <3> DEFINE c == <<b>> \o o
    <3>1. /\ Len(c) = Len(<<b>>) + k /\ \A i \in 1..Len(<<b>>) : c[i] = <<b>>[i]
          /\ \A i \in 1..k : c[Len(<<b>>) + i] = o[i]
      BY <2>1, <2>4, SeqConcat
    <3> HIDE DEF c
    <3>2. Len(c) = 1 + k /\ c[1] = b /\ \A i \in 1..k : c[1 + i] = o[i]
      BY <2>4, <3>1
    <3> QED
      BY <2>2, <3>2 DEF c
  <2> HIDE DEF l
  <2>6. \A i \in 1..(1 + k) : buf[off + 1 + i] = l[i]
    BY <2>5 DEF l
  <2>7. buf[off + 2] = b /\ \A i \in 1..k : buf[off + 2 + i] = o[i]
    <3>1. k \in Nat
      BY <2>1
    <3> HIDE DEF k
    <3>2. 1 \in 1..(1 + k) /\ off + 1 + 1 = off + 2
      BY <3>1
    <3>3. \A i \in 1..k : 1 + i \in 1..(1 + k) /\ off + 1 + (1 + i) = off + 2 + i
      BY <3>1
    <3> QED
      BY <2>5, <2>6, <3>2, <3>3
  <2>8. off + 1 + (1 + k) + n <= Len(buf)
    BY <2>5 DEF l
  <2> HIDE DEF k
  <2>9. k \in Nat /\ k >= 1 /\ buf[off + 2] = 128 + k /\ off + 2 + k <= Len(buf)
    BY <1>1, <2>1, <2>7, <2>8 DEF b
  <2>10. PICK v : Value(v, buf, off, k) /\ ContentLen(buf, off) = v[k]
    BY <2>9, ValueFact
  <2>11. ContentLen(buf, off) = n
    <3>1. n >= 128
      BY <1>3
    <3>2. \A w, u, f : /\ Value(w, u, f, k) /\ \A i \in 1..k : u[f + 2 + i] = o[i]
                       => w[k] = n
      BY <3>1, ValueIs DEF k, o
    <3>3. v[k] = n
      BY <2>7, <2>10, <3>2
    <3> QED
      BY <2>10, <3>3
  <2>12. LenLen(buf, off) = k
    BY <2>9 DEF LenLen
  <2>13. HdrLen(buf, off) = 2 + k
    BY <2>12 DEF HdrLen
  <2>14. IsTlvAt(buf, off)
    <3>1. /\ k <= 4 /\ 128 + k # 128 /\ off + 2 <= Len(buf) /\ off + (2 + k) <= Len(buf)
          /\ off + (2 + k) + n <= Len(buf)
      <4>1. k \in 1..3
        BY <2>1 DEF k
      <4> QED
        BY <1>1, <2>8, <4>1
    <3> QED
      BY <2>9, <2>11, <2>12, <2>13, <3>1 DEF IsTlvAt
  <2> QED
    BY <2>5, <2>9, <2>11, <2>13, <2>14 DEF l
<1> QED
  BY <1>2, <1>3

\* In the message buf the object of this tag and content stands at off.
Stands(buf, off, tag, x) ==
    /\ off \in 0..(Len(buf) - 1) /\ IsTlvAt(buf, off) /\ buf[off + 1] = tag
    /\ ContentLen(buf, off) = Len(x) /\ ContentAt(buf, off) = x
    /\ EndAt(buf, off) = off + Len(Tlv(tag, x)) /\ EndAt(buf, off) <= Len(buf)
    /\ Len(x) < 128 => buf[off + 2] = Len(x) /\ HdrLen(buf, off) = 2

\* Between whatever else there is, an object that was written is read.
LEMMA ObjectReadBack ==
    ASSUME NEW p \in Seq(Nat), NEW tag \in Nat, NEW x \in Seq(Nat), NEW q \in Seq(Nat),
           Len(x) <= MaxLen
    PROVE  Stands((p \o Tlv(tag, x)) \o q, Len(p), tag, x)
<1> DEFINE n == Len(x)
           l == LenField(n)
           h == <<tag>> \o l
           t == h \o x
           b == p \o t
           buf == b \o q
           off == Len(p)
           k == Len(l)
<1>1. Tlv(tag, x) = t
  BY DEF Tlv
<1>2. n \in Nat /\ off \in Nat /\ Len(q) \in Nat
  BY SeqDomain
<1>3. l \in Seq(Nat)
  BY <1>2, HeaderFact
<1>4. k \in Nat
  BY <1>3, SeqDomain
<1>5. n < 128 => k = 1 /\ l[1] = n
  <2>1. n < 128 => l = <<n>>
    BY DEF LenField
  <2>2. Len(<<n>>) = 1 /\ <<n>>[1] = n
    OBVIOUS
  <2> HIDE DEF l
  <2> QED
    BY <2>1, <2>2
<1> HIDE DEF n, l
<1>6. /\ h \in Seq(Nat) /\ Len(h) = 1 + k /\ h[1] = tag /\ \A i \in 1..k : h[1 + i] = l[i]
  <2>1. <<tag>> \in Seq(Nat) /\ Len(<<tag>>) = 1 /\ <<tag>>[1] = tag
    OBVIOUS
  <2>2. /\ h \in Seq(Nat) /\ Len(h) = Len(<<tag>>) + Len(l)
        /\ \A i \in 1..Len(<<tag>>) : h[i] = <<tag>>[i]
        /\ \A i \in 1..Len(l) : h[Len(<<tag>>) + i] = l[i]
    BY <1>3, <2>1, SeqConcat
  <2> HIDE DEF h
  <2> QED
    BY <1>4, <2>1, <2>2
<1> HIDE DEF h, k
<1>7. /\ t \in Seq(Nat) /\ Len(t) = 1 + k + n /\ \A i \in 1..(1 + k) : t[i] = h[i]
      /\ \A i \in 1..n : t[1 + k + i] = x[i]
  <2>1. /\ t \in Seq(Nat) /\ Len(t) = Len(h) + Len(x)
        /\ \A i \in 1..Len(h) : t[i] = h[i]
        /\ \A i \in 1..Len(x) : t[Len(h) + i] = x[i]
    <3>1. h \in Seq(Nat)
      BY <1>6
    <3> QED
      BY <3>1, SeqConcat
  <2> HIDE DEF t
  <2> QED
    BY <1>2, <1>4, <1>6, <2>1 DEF n
<1> HIDE DEF t
<1>8. /\ b \in Seq(Nat) /\ Len(b) = off + (1 + k + n)
      /\ \A i \in 1..(1 + k + n) : b[off + i] = t[i]
  <2>1. /\ b \in Seq(Nat) /\ Len(b) = Len(p) + Len(t)
        /\ \A i \in 1..Len(t) : b[Len(p) + i] = t[i]
    <3>1. t \in Seq(Nat)
      BY <1>7
    <3> QED
      BY <3>1, SeqConcat
  <2> HIDE DEF b
  <2> QED
    BY <1>7, <2>1
<1> HIDE DEF b
<1>9. /\ buf \in Seq(Nat) /\ Len(buf) = off + (1 + k + n) + Len(q)
      /\ \A i \in 1..(off + (1 + k + n)) : buf[i] = b[i]
  <2>1. /\ buf \in Seq(Nat) /\ Len(buf) = Len(b) + Len(q)
        /\ \A i \in 1..Len(b) : buf[i] = b[i]
    <3>1. b \in Seq(Nat)
      BY <1>8
    <3> QED
      BY <3>1, SeqConcat
  <2> HIDE DEF buf
  <2> QED
    BY <1>8, <2>1
<1> HIDE DEF buf, off
<1>10. \A i \in 1..(1 + k + n) : buf[off + i] = t[i]
  <2> TAKE i \in 1..(1 + k + n)
  <2>1. off + i \in 1..(off + (1 + k + n))
    BY <1>2, <1>4
  <2> QED
    BY <1>8, <1>9, <2>1
<1>11. buf[off + 1] = tag /\ \A i \in 1..k : buf[off + 1 + i] = l[i]
  <2>1. 1 \in 1..(1 + k + n) /\ 1 \in 1..(1 + k)
    BY <1>2, <1>4
  <2>2. buf[off + 1] = tag
    BY <1>6, <1>7, <1>10, <2>1
  <2>3. ASSUME NEW i \in 1..k PROVE buf[off + 1 + i] = l[i]
    <3>1. 1 + i \in 1..(1 + k + n) /\ 1 + i \in 1..(1 + k) /\ off + 1 + i = off + (1 + i)
      BY <1>2, <1>4
    <3> QED
      BY <1>6, <1>7, <1>10, <3>1
  <2> QED
    BY <2>2, <2>3
<1>12. /\ IsTlvAt(buf, off) /\ HdrLen(buf, off) = 1 + k /\ ContentLen(buf, off) = n
  <2>1. off + 1 + k + n <= Len(buf) /\ n <= MaxLen
    BY <1>2, <1>4, <1>9 DEF n
  <2> QED
    BY <1>2, <1>9, <1>11, <2>1, HeaderReadBack DEF l, k
<1>13. EndAt(buf, off) = off + (1 + k) + n
  BY <1>12 DEF EndAt
<1>14. ContentAt(buf, off) = x
  <2> DEFINE s == off + (1 + k) + 1
             e == off + (1 + k) + n
             r == SubSeq(buf, s, e)
  <2>1. ContentAt(buf, off) = r
    BY <1>12, <1>13 DEF ContentAt
  <2>2. /\ s \in Nat /\ e \in Nat /\ s >= 1 /\ e <= Len(buf) /\ s <= e + 1 /\ e + 1 - s = n
        /\ \A i \in 1..n : s + i - 1 = off + (1 + k + i) /\ 1 + k + i \in 1..(1 + k + n)
    <3>1. Len(buf) = off + (1 + k + n) + Len(q)
      BY <1>9
    <3>2. s \in Nat /\ e \in Nat /\ s >= 1 /\ s <= e + 1 /\ e + 1 - s = n
      BY <1>2, <1>4
    <3>3. e <= Len(buf)
      BY <1>2, <1>4, <3>1
    <3>4. \A i \in 1..n : s + i - 1 = off + (1 + k + i) /\ 1 + k + i \in 1..(1 + k + n)
      BY <1>2, <1>4
    <3> QED
      BY <3>2, <3>3, <3>4
  <2> HIDE DEF s, e
  <2>3. r \in Seq(Nat) /\ Len(r) = n /\ \A i \in 1..n : r[i] = buf[s + i - 1]
    BY SMTT(60), <1>9, <2>2, SeqSegment
  <2> HIDE DEF r
  <2>4. \A i \in 1..n : r[i] = x[i]
    BY <1>7, <1>10, <2>2, <2>3
  <2> QED
    BY <2>1, <2>3, <2>4, SeqSame DEF n
<1>15. n < 128 => buf[off + 2] = n /\ HdrLen(buf, off) = 2
  <2> HAVE n < 128
  <2>1. k = 1 /\ l[1] = n
    BY <1>5 DEF k, n, l
  <2>2. off + 1 + 1 = off + 2 /\ 1 \in 1..k
    BY <1>2, <2>1
  <2> QED
    BY <1>11, <1>12, <2>1, <2>2
<1>16. off \in 0..(Len(buf) - 1) /\ EndAt(buf, off) <= Len(buf) /\ EndAt(buf, off) = off + Len(t)
  <2>1. /\ Len(buf) = off + (1 + k + n) + Len(q) /\ Len(t) = 1 + k + n
        /\ EndAt(buf, off) = off + (1 + k) + n
    BY <1>7, <1>9, <1>13
  <2> QED
    BY <1>2, <1>4, <2>1
<1>17. Stands(buf, off, tag, x)
  BY <1>1, <1>11, <1>12, <1>14, <1>15, <1>16 DEF Stands, n
<1> QED
  BY <1>1, <1>17 DEF buf, b, off

(***************************************************************************)
(* The searches.                                                           *)
(***************************************************************************)

\* If only one place qualifies it is the first one.
LEMMA FirstOfOne ==
    ASSUME NEW T, NEW i \in T, i \in Nat, \A j \in T : j = i
    PROVE  First(T) = i
<1>1. \A j \in T : i <= j
  OBVIOUS
<1>2. \E k \in T : \A j \in T : k <= j
  BY <1>1
<1>3. First(T) \in T
  BY <1>2, Zenon DEF First
<1> QED
  BY <1>3

\* The octet string is found.
LEMMA OctetStringFound ==
    ASSUME NEW buf, NEW off \in Nat, NEW x, Stands(buf, off, 4, x),
           AtMostOne(OctetStrings(buf, Len(x)))
    PROVE  cms_find_octet_string_by_len(buf, Len(x)) = <<x>>
<1> DEFINE T == OctetStrings(buf, Len(x))
<1>1. off \in T /\ ContentAt(buf, off) = x
  BY DEF Stands, OctetStrings
<1>2. \A j \in T : j = off
  BY <1>1 DEF AtMostOne
<1> HIDE DEF T
<1>3. First(T) = off /\ T # {}
  BY <1>1, <1>2, FirstOfOne
<1> QED
  BY <1>1, <1>3 DEF cms_find_octet_string_by_len, T

\* An object that is read ends behind its beginning and within the message.
LEMMA EndFact ==
    ASSUME NEW buf \in Seq(Nat), NEW off \in 0..Len(buf), IsTlvAt(buf, off)
    PROVE  EndAt(buf, off) \in (off + 1)..Len(buf)
<1>1. Len(buf) \in Nat /\ off \in Nat
  BY SeqDomain
<1> DEFINE c == buf[off + 2]
           k == LenLen(buf, off)
<1>2. c \in Nat /\ off + 2 <= Len(buf) /\ c # 128 /\ k <= 4 /\ off + (2 + k) <= Len(buf)
  <2>1. off + 2 <= Len(buf) /\ c # 128 /\ k <= 4 /\ off + (2 + k) <= Len(buf)
    BY DEF IsTlvAt, HdrLen
  <2>2. off + 2 \in 1..Len(buf)
    BY <1>1, <2>1
  <2> QED
    BY <2>1, <2>2, SeqElt
<1>3. k \in Nat
  BY SMTT(60), <1>2 DEF LenLen
<1>4. ContentLen(buf, off) \in Nat
  <2>1. CASE c < 128
    BY <1>2, <2>1 DEF ContentLen
  <2>2. CASE ~(c < 128)
    <3>1. k >= 1 /\ c = 128 + k
      BY SMTT(60), <1>2, <2>2 DEF LenLen
    <3> HIDE DEF k
    <3>2. off + 2 + k <= Len(buf)
      BY <1>1, <1>2, <1>3
    <3>3. PICK v : Value(v, buf, off, k) /\ ContentLen(buf, off) = v[k]
      BY <1>1, <1>3, <3>1, <3>2, ValueFact
    <3>4. v \in [0..k -> Nat] /\ k \in 0..k
      BY <1>3, <3>3 DEF Value
    <3> QED
      BY <3>3, <3>4
  <2> QED
    BY <2>1, <2>2
<1> HIDE DEF k
<1>5. /\ EndAt(buf, off) = off + (2 + k) + ContentLen(buf, off)
      /\ off + (2 + k) + ContentLen(buf, off) <= Len(buf)
  BY DEF EndAt, IsTlvAt, HdrLen, k
<1> QED
  BY <1>1, <1>3, <1>4, <1>5

\* Where the walk over objects stops: at one of the wanted tag, at something that
\* is none, or at the end.
Stop(buf, tag) ==
    CHOOSE f : f = [off \in 0..Len(buf) |->
                       IF IsTlvAt(buf, off) /\ buf[off + 1] # tag
                       THEN f[EndAt(buf, off)] ELSE off]

\* It goes on from object to object.
LEMMA StopFact ==
    ASSUME NEW buf \in Seq(Nat), NEW tag
    PROVE  \A off \in 0..Len(buf) :
              Stop(buf, tag)[off] = IF IsTlvAt(buf, off) /\ buf[off + 1] # tag
                                    THEN Stop(buf, tag)[EndAt(buf, off)] ELSE off
<1> DEFINE L == Len(buf)
           On(p) == IsTlvAt(buf, p) /\ buf[p + 1] # tag
           Ends(p) == EndAt(buf, p)
           Where(f, p) == IF On(p) THEN f[Ends(p)] ELSE p
           Body(f) == [p \in 0..L |-> Where(f, p)]
           O == [0..L -> 0..L]
           Good(k, f) == \A p \in 0..L : p + k >= L => f[p] = Where(f, p)
           T == {k \in 0..L : \E f \in O : Good(k, f)}
           F == CHOOSE f : f = Body(f)
<1>1. L \in Nat
  BY SeqDomain
<1>2. Stop(buf, tag) = F
  BY Zenon DEF Stop
<1>3. \A p \in 0..L : On(p) => Ends(p) \in (p + 1)..L
  BY EndFact
<1> HIDE DEF L, On, Ends
<1>4. \A f \in O : \A p \in 0..L : Where(f, p) \in 0..L
  <2> TAKE f \in O
  <2> TAKE p \in 0..L
  <2>1. On(p) => Ends(p) \in 0..L
    BY <1>1, <1>3
  <2> QED
    BY <2>1
<1>5. 0 \in T
  <2> DEFINE f == [p \in 0..L |-> p]
  <2>1. f \in O
    OBVIOUS
  <2>2. Good(0, f)
    <3> SUFFICES ASSUME NEW p \in 0..L, p + 0 >= L PROVE f[p] = Where(f, p)
      OBVIOUS
    <3>1. p = L
      BY <1>1
    <3>2. ~On(p)
      <4> SUFFICES ASSUME On(p) PROVE FALSE
        OBVIOUS
      <4>1. Ends(p) \in (L + 1)..L
        BY <1>3, <3>1
      <4> QED
        BY <1>1, <4>1
    <3> QED
      BY <3>2
  <2> HIDE DEF f, Good, O
  <2>3. \E g \in O : Good(0, g)
    BY <2>1, <2>2
  <2> QED
    BY <1>1, <2>3
<1>6. ASSUME NEW k \in 0..L, k \in T, k < L PROVE k + 1 \in T
  <2>1. PICK f \in O : Good(k, f)
    BY <1>6
  <2> DEFINE q == L - (k + 1)
             v == Where(f, q)
             g == [p \in 0..L |-> IF p = q THEN v ELSE f[p]]
  <2>2. q \in 0..L
    BY <1>1, <1>6
  <2>3. v \in 0..L
    <3> HIDE DEF q, Where
    <3> QED
      BY <1>4, <2>1, <2>2
  <2> HIDE DEF v
  <2>4. g \in O
    <3> HIDE DEF q
    <3> QED
      BY <2>1, <2>3
  <2>5. g[q] = v /\ \A p \in 0..L : p # q => g[p] = f[p]
    <3> HIDE DEF q
    <3> QED
      BY <2>2
  <2> HIDE DEF g
  <2>6. \A p \in 0..L : p >= q => Where(g, p) = Where(f, p)
    <3> TAKE p \in 0..L
    <3> HAVE p >= q
    <3>1. CASE On(p)
      <4>1. Ends(p) \in (p + 1)..L
        BY <1>3, <3>1
      <4>2. Ends(p) \in 0..L /\ Ends(p) # q
        <5> HIDE DEF q
        <5>1. \A e \in (p + 1)..L : e \in 0..L /\ e # q
          BY <1>1, <2>2
        <5> QED
          BY <4>1, <5>1
      <4>3. g[Ends(p)] = f[Ends(p)]
        BY <2>5, <4>2
      <4> QED
        BY <4>3
    <3>2. CASE ~On(p)
      BY <3>2
    <3> QED
      BY <3>1, <3>2
  <2>7. Good(k + 1, g)
    <3> SUFFICES ASSUME NEW p \in 0..L, p + (k + 1) >= L PROVE g[p] = Where(g, p)
      OBVIOUS
    <3>1. p >= q /\ (p # q => p + k >= L)
      BY <1>1, <1>6
    <3>2. Where(g, p) = Where(f, p)
      <4> HIDE DEF Where, q
      <4> QED
        BY <2>6, <3>1
    <3>3. CASE p = q
      <4> HIDE DEF Where, q
      <4> QED
        BY <2>5, <3>2, <3>3 DEF v
    <3>4. CASE p # q
      <4>1. f[p] = Where(f, p)
        <5> HIDE DEF Where, q
        <5> QED
          BY <2>1, <3>1, <3>4
      <4> HIDE DEF Where, q
      <4> QED
        BY <2>5, <3>2, <3>4, <4>1
    <3> QED
      BY <3>3, <3>4
  <2>8. k + 1 \in 0..L
    BY <1>1, <1>6
  <2> HIDE DEF Good, O
  <2> QED
    BY <2>4, <2>7, <2>8
<1>7. L \in T
  <2> HIDE DEF T
  <2>1. \A k \in 0..L : k \in T
    BY <1>1, <1>5, <1>6, NatUpTo
  <2> QED
    BY <1>1, <2>1
<1>8. PICK h \in O : Good(L, h)
  <2> HIDE DEF Good, O
  <2> QED
    BY <1>7
<1>9. h = Body(h)
  <2>1. \A p \in 0..L : h[p] = Where(h, p)
    <3> TAKE p \in 0..L
    <3>1. p + L >= L
      BY <1>1
    <3> HIDE DEF Where
    <3> QED
      BY <1>8, <3>1
  <2> HIDE DEF Where
  <2> QED
    BY <1>8, <2>1
<1>10. F = Body(F)
  <2>1. \E f : f = Body(f)
    <3> HIDE DEF Body
    <3> QED
      BY <1>9
  <2> HIDE DEF Body
  <2> QED
    BY <2>1, Zenon
<1> HIDE DEF F
<1>11. \A p \in 0..L : F[p] = Where(F, p)
  <2> HIDE DEF Where
  <2> QED
    BY <1>10
<1> QED
  BY <1>2, <1>11 DEF L, On, Ends

\* The object is found: the OID stands at one place only, and from behind it the
\* walk stops at the object.
LEMMA FoundAfterOid ==
    ASSUME NEW buf \in Seq(Nat), NEW oid, NEW tag, NEW i \in OidOffsets(buf, oid), i \in Nat,
           AtMostOne(OidOffsets(buf, oid)), NEW at \in Nat,
           Stop(buf, tag)[i + 2 + Len(oid)] = at, at # Len(buf), IsTlvAt(buf, at)
    PROVE  cms_find_tlv_after_oid(buf, oid, tag) = <<ContentAt(buf, at)>>
<1> DEFINE stop == Stop(buf, tag)
           places == {j \in OidOffsets(buf, oid) : stop[j + 2 + Len(oid)] # Len(buf)}
           there == stop[First(places) + 2 + Len(oid)]
<1>1. cms_find_tlv_after_oid(buf, oid, tag) =
        IF places = {} \/ ~IsTlvAt(buf, there) THEN <<>> ELSE <<ContentAt(buf, there)>>
  BY Zenon DEF cms_find_tlv_after_oid, Stop
<1>2. i \in places /\ \A j \in places : j = i
  BY DEF AtMostOne
<1>3. there = at /\ places # {}
  <2> HIDE DEF places, stop
  <2>1. First(places) = i /\ places # {}
    BY <1>2, FirstOfOne
  <2> QED
    BY <2>1 DEF stop
<1> HIDE DEF places, there
<1> QED
  BY <1>1, <1>3

(***************************************************************************)
(* What stands in the messages.                                            *)
(***************************************************************************)
Holds(b, z) ==
    /\ b \in Seq(Nat) /\ z \in Seq(Nat)
    /\ \E p \in Seq(Nat), q \in Seq(Nat) : b = (p \o z) \o q

LEMMA NatConcat ==
    ASSUME NEW s \in Seq(Nat), NEW t \in Seq(Nat)
    PROVE  s \o t \in Seq(Nat) /\ Len(s \o t) = Len(s) + Len(t)
BY SeqConcat

\* Everything holds itself;
LEMMA HoldsItself ==
    ASSUME NEW z \in Seq(Nat)
    PROVE  Holds(z, z)
<1>1. <<>> \in Seq(Nat) /\ (<<>> \o z) \o <<>> = z
  BY SeqNone, SeqUnit
<1> QED
  BY <1>1 DEF Holds

\* what holds it is still there with more in front of it, more behind it,
LEMMA HoldsBehind ==
    ASSUME NEW x \in Seq(Nat), NEW y, NEW z, Holds(y, z)
    PROVE  Holds(x \o y, z)
<1>1. y \in Seq(Nat) /\ z \in Seq(Nat)
  BY DEF Holds
<1>2. PICK p \in Seq(Nat), q \in Seq(Nat) : y = (p \o z) \o q
  BY DEF Holds
<1> DEFINE pz == p \o z
           xp == x \o p
<1>3. pz \in Seq(Nat) /\ xp \in Seq(Nat) /\ x \o y \in Seq(Nat)
  BY <1>1, NatConcat
<1>4. xp \o z = x \o pz
  BY ZenonT(60), <1>1, NatAssoc
<1> HIDE DEF pz
<1>5. x \o (pz \o q) = (x \o pz) \o q
  BY ZenonT(60), <1>3, NatAssoc
<1>6. x \o y = (xp \o z) \o q
  BY <1>2, <1>4, <1>5 DEF pz
<1> QED
  BY <1>1, <1>3, <1>6 DEF Holds

LEMMA HoldsBefore ==
    ASSUME NEW x, NEW y \in Seq(Nat), NEW z, Holds(x, z)
    PROVE  Holds(x \o y, z)
<1>1. x \in Seq(Nat) /\ z \in Seq(Nat)
  BY DEF Holds
<1>2. PICK p \in Seq(Nat), q \in Seq(Nat) : x = (p \o z) \o q
  BY DEF Holds
<1> DEFINE pz == p \o z
           qy == q \o y
<1>3. pz \in Seq(Nat) /\ qy \in Seq(Nat) /\ x \o y \in Seq(Nat)
  BY <1>1, NatConcat
<1> HIDE DEF pz
<1>4. (pz \o q) \o y = pz \o qy
  <2>1. pz \in Seq(Nat)
    BY <1>3
  <2> QED
    BY <2>1, NatAssoc
<1>5. x \o y = (p \o z) \o qy
  BY <1>2, <1>4 DEF pz
<1> QED
  BY <1>1, <1>3, <1>5 DEF Holds

\* and inside an object.
LEMMA HoldsTlv ==
    ASSUME NEW tag \in Nat, NEW x, NEW z, Holds(x, z)
    PROVE  Holds(Tlv(tag, x), z)
<1>1. x \in Seq(Nat)
  BY DEF Holds
<1>2. H(tag, Len(x)) \in Seq(Nat) /\ Tlv(tag, x) = H(tag, Len(x)) \o x
  BY <1>1, SeqDomain, HeaderFact, TlvFact
<1> QED
  BY <1>2, HoldsBehind

\* The contents of an object and what follows it.
LEMMA HoldsPair ==
    ASSUME NEW x \in Seq(Nat), NEW tag \in Nat, NEW a \in Seq(Nat), NEW b \in Seq(Nat)
    PROVE  Holds((x \o Tlv(tag, a)) \o b, a \o b)
<1> DEFINE h == H(tag, Len(a))
           xh == x \o h
           ab == a \o b
           ha == h \o a
<1>1. h \in Seq(Nat) /\ Tlv(tag, a) = ha
  BY SeqDomain, HeaderFact, TlvFact
<1> HIDE DEF h
<1>2. xh \in Seq(Nat) /\ ab \in Seq(Nat) /\ ha \in Seq(Nat)
  BY <1>1, NatConcat
<1>3. x \o ha = xh \o a
  BY <1>1, NatAssoc
<1>4. (xh \o a) \o b = xh \o ab
  <2> HIDE DEF xh
  <2>1. xh \in Seq(Nat)
    BY <1>2
  <2> QED
    BY <2>1, NatAssoc
<1> HIDE DEF xh, ab, ha
<1>5. Holds(xh \o ab, ab)
  BY <1>2, HoldsItself, HoldsBehind
<1> QED
  BY <1>1, <1>3, <1>4, <1>5 DEF ab

\* At i in the message b lies z.
Lies(b, i, z) ==
    /\ b \in Seq(Nat) /\ z \in Seq(Nat)
    /\ \E p \in Seq(Nat), q \in Seq(Nat) : b = (p \o z) \o q /\ i = Len(p)

LEMMA HeldLies ==
    ASSUME NEW b, NEW z, Holds(b, z)
    PROVE  \E i \in Nat : Lies(b, i, z)
<1>1. PICK p \in Seq(Nat), q \in Seq(Nat) : b = (p \o z) \o q
  BY DEF Holds
<1>2. Lies(b, Len(p), z) /\ Len(p) \in Nat
  BY <1>1, SeqDomain DEF Holds, Lies
<1> QED
  BY <1>2

LEMMA LiesFront ==
    ASSUME NEW b, NEW i, NEW x \in Seq(Nat), NEW y \in Seq(Nat), Lies(b, i, x \o y)
    PROVE  Lies(b, i, x)
<1> DEFINE xy == x \o y
<1>1. PICK p \in Seq(Nat), q \in Seq(Nat) : b = (p \o xy) \o q /\ i = Len(p)
  BY DEF Lies
<1> DEFINE px == p \o x
           yq == y \o q
<1>2. px \in Seq(Nat) /\ yq \in Seq(Nat)
  BY NatConcat
<1>3. p \o xy = px \o y
  BY NatAssoc
<1> HIDE DEF xy
<1>4. (px \o y) \o q = px \o yq
  <2>1. px \in Seq(Nat)
    BY <1>2
  <2> HIDE DEF px
  <2> QED
    BY <2>1, NatAssoc
<1>5. b = px \o yq
  BY <1>1, <1>3, <1>4
<1>6. b \in Seq(Nat)
  BY DEF Lies
<1> HIDE DEF yq
<1> QED
  BY <1>1, <1>2, <1>5, <1>6 DEF Lies, px

LEMMA LiesBack ==
    ASSUME NEW b, NEW i, NEW x \in Seq(Nat), NEW y \in Seq(Nat), Lies(b, i, x \o y)
    PROVE  Lies(b, i + Len(x), y)
<1> DEFINE xy == x \o y
<1>1. PICK p \in Seq(Nat), q \in Seq(Nat) : b = (p \o xy) \o q /\ i = Len(p)
  BY DEF Lies
<1> DEFINE px == p \o x
<1>2. px \in Seq(Nat) /\ Len(px) = Len(p) + Len(x)
  BY NatConcat
<1>3. p \o xy = px \o y
  BY NatAssoc
<1> HIDE DEF xy, px
<1>4. b = (px \o y) \o q /\ i + Len(x) = Len(px)
  BY <1>1, <1>2, <1>3
<1>5. b \in Seq(Nat)
  BY DEF Lies
<1> QED
  BY <1>2, <1>4, <1>5 DEF Lies

\* An object that lies in a message is read there.
LEMMA ObjectStands ==
    ASSUME NEW b, NEW i, NEW tag \in Nat, NEW x \in Seq(Nat), Lies(b, i, Tlv(tag, x)),
           Len(b) <= MaxLen
    PROVE  Stands(b, i, tag, x)
<1> DEFINE t == Tlv(tag, x)
<1>1. PICK p \in Seq(Nat), q \in Seq(Nat) : b = (p \o t) \o q /\ i = Len(p)
  BY DEF Lies
<1>2. Len(x) <= MaxLen
  <2>1. Len(x) \in Nat /\ Len(p) \in Nat /\ Len(q) \in Nat
    BY SeqDomain
  <2>2. t \in Seq(Nat) /\ Len(t) = der_tlv_len(Len(x))
    BY TlvFact
  <2>3. Len(H(tag, Len(x))) + Len(x) = Len(t) /\ Len(H(tag, Len(x))) \in Nat
    <3>1. H(tag, Len(x)) \in Seq(Nat) /\ Len(H(tag, Len(x))) + Len(x) = der_tlv_len(Len(x))
      BY <2>1, HeaderFact
    <3> QED
      BY <2>2, <3>1, SeqDomain
  <2> HIDE DEF t
  <2> DEFINE pt == p \o t
  <2>4. pt \in Seq(Nat) /\ Len(pt) = Len(p) + Len(t)
    BY <2>2, NatConcat
  <2> HIDE DEF pt
  <2>5. Len(pt \o q) = Len(pt) + Len(q)
    BY <2>4, NatConcat
  <2>6. Len(b) = Len(pt) + Len(q)
    BY <1>1, <2>5 DEF pt
  <2>7. MaxLen \in Nat /\ Len(t) \in Nat
    BY <2>2, SeqDomain DEF MaxLen
  <2> QED
    BY <2>1, <2>3, <2>4, <2>6, <2>7
<1>3. Stands((p \o t) \o q, Len(p), tag, x)
  BY <1>2, ObjectReadBack
<1> QED
  BY <1>1, <1>3

\* An OID that stands there with something behind it is one of those a search tries.
LEMMA OidStands ==
    ASSUME NEW b \in Seq(Nat), NEW oid \in Seq(Nat), Len(oid) < 128, NEW i,
           Stands(b, i, 6, oid), NEW s, NEW x, Stands(b, i + Len(Tlv(6, oid)), s, x)
    PROVE  i \in Nat /\ i \in OidOffsets(b, oid) /\ i + 2 + Len(oid) = i + Len(Tlv(6, oid))
<1> DEFINE n == Len(oid)
           e == i + Len(Tlv(6, oid))
           size == Len(b)
<1>1. n \in Nat /\ size \in Nat
  BY SeqDomain
<1>2. /\ i \in 0..(size - 1) /\ b[i + 1] = 6 /\ b[i + 2] = n /\ HdrLen(b, i) = 2
      /\ ContentLen(b, i) = n /\ ContentAt(b, i) = oid /\ EndAt(b, i) = e
  BY DEF Stands
<1>3. e \in 0..(size - 1)
  BY DEF Stands
<1> HIDE DEF e, size, n
<1>4. e = i + 2 + n
  BY <1>2 DEF EndAt
<1>5. SubSeq(b, i + 3, i + 2 + n) = oid
  <2>1. SubSeq(b, i + HdrLen(b, i) + 1, EndAt(b, i)) = oid
    BY <1>2, Zenon DEF ContentAt
  <2>2. i + HdrLen(b, i) + 1 = i + 3 /\ EndAt(b, i) = i + 2 + n
    BY <1>2, <1>4
  <2> QED
    BY <2>1, <2>2, Zenon
<1>6. i \in 0..(size - 3 - n) /\ i \in Nat
  <2>1. i \in Int /\ 0 <= i
    BY <1>1, <1>2
  <2>2. i + 2 + n <= size - 1
    BY <1>1, <1>3, <1>4
  <2> QED
    BY <1>1, <2>1, <2>2
<1>7. i \in OidOffsets(b, oid)
  BY <1>2, <1>5, <1>6 DEF OidOffsets, n, size
<1> QED
  BY <1>4, <1>6, <1>7 DEF e, n

\* The object behind the OID is found,
LEMMA NextFound ==
    ASSUME NEW b, Len(b) <= MaxLen, NEW oid \in Seq(Nat), Len(oid) < 128,
           NEW tag \in Nat, NEW y \in Seq(Nat), Holds(b, Tlv(6, oid) \o Tlv(tag, y)),
           AtMostOne(OidOffsets(b, oid))
    PROVE  cms_find_tlv_after_oid(b, oid, tag) = <<y>>
<1> DEFINE u == Tlv(6, oid)
           v == Tlv(tag, y)
<1>1. u \in Seq(Nat) /\ v \in Seq(Nat) /\ b \in Seq(Nat)
  BY TlvFact DEF Holds
<1>2. PICK i \in Nat : Lies(b, i, u \o v)
  BY HeldLies
<1> HIDE DEF u, v
<1>3. Lies(b, i, u) /\ Lies(b, i + Len(u), v)
  BY <1>1, <1>2, LiesFront, LiesBack
<1> DEFINE at == i + Len(u)
<1>4. Stands(b, i, 6, oid) /\ Stands(b, at, tag, y)
  BY <1>3, ObjectStands DEF u, v
<1>5. i \in OidOffsets(b, oid) /\ i + 2 + Len(oid) = at
  BY <1>1, <1>4, OidStands DEF u
<1> HIDE DEF at
<1>6. at \in 0..Len(b) /\ at \in Nat /\ at # Len(b)
  <2>1. Len(b) \in Nat
    BY <1>1, SeqDomain
  <2>2. at \in 0..(Len(b) - 1)
    BY <1>4 DEF Stands
  <2> QED
    BY <2>1, <2>2
<1>7. IsTlvAt(b, at) /\ b[at + 1] = tag /\ ContentAt(b, at) = y
  BY <1>4 DEF Stands
<1>8. Stop(b, tag)[at] = at
  BY <1>1, <1>6, <1>7, StopFact
<1>9. Stop(b, tag)[i + 2 + Len(oid)] = at
  BY <1>5, <1>8
<1> QED
  BY SMTT(60), <1>1, <1>5, <1>6, <1>7, <1>9, FoundAfterOid

\* and so is the one after it, when the tags differ.
LEMMA NextButOneFound ==
    ASSUME NEW b, Len(b) <= MaxLen, NEW oid \in Seq(Nat), Len(oid) < 128,
           NEW s \in Nat, NEW x \in Seq(Nat), NEW tag \in Nat, NEW y \in Seq(Nat), s # tag,
           Holds(b, Tlv(6, oid) \o (Tlv(s, x) \o Tlv(tag, y))),
           AtMostOne(OidOffsets(b, oid))
    PROVE  cms_find_tlv_after_oid(b, oid, tag) = <<y>>
<1> DEFINE u == Tlv(6, oid)
           w == Tlv(s, x)
           v == Tlv(tag, y)
           wv == w \o v
<1>1. u \in Seq(Nat) /\ v \in Seq(Nat) /\ w \in Seq(Nat) /\ b \in Seq(Nat)
  BY TlvFact DEF Holds
<1>2. PICK i \in Nat : Lies(b, i, u \o wv)
  BY HeldLies
<1> HIDE DEF u, v, w
<1>3. wv \in Seq(Nat)
  BY <1>1, NatConcat
<1> DEFINE from == i + Len(u)
           at == from + Len(w)
<1>4. Lies(b, i, u) /\ Lies(b, from, wv)
  <2> HIDE DEF wv
  <2> QED
    BY <1>1, <1>2, <1>3, LiesFront, LiesBack
<1>5. Lies(b, from, w) /\ Lies(b, at, v)
  <2> HIDE DEF from
  <2> QED
    BY <1>1, <1>4, LiesFront, LiesBack
<1>6. Stands(b, i, 6, oid) /\ Stands(b, from, s, x) /\ Stands(b, at, tag, y)
  BY <1>4, <1>5, ObjectStands DEF u, v, w
<1>7. i \in OidOffsets(b, oid) /\ i + 2 + Len(oid) = from
  BY <1>1, <1>6, OidStands DEF u
<1>8. EndAt(b, from) = at
  BY <1>6 DEF Stands, w
<1> HIDE DEF at, from
<1>9. at \in 0..Len(b) /\ at \in Nat /\ at # Len(b) /\ from \in 0..Len(b)
  <2>1. Len(b) \in Nat
    BY <1>1, SeqDomain
  <2>2. at \in 0..(Len(b) - 1) /\ from \in 0..(Len(b) - 1)
    BY <1>6 DEF Stands
  <2> QED
    BY <2>1, <2>2
<1>10. IsTlvAt(b, at) /\ b[at + 1] = tag /\ ContentAt(b, at) = y
  BY <1>6 DEF Stands
<1>11. IsTlvAt(b, from) /\ b[from + 1] # tag
  BY <1>6 DEF Stands
<1>12. Stop(b, tag)[at] = at
  BY SMTT(60), <1>1, <1>9, <1>10, StopFact
<1>13. Stop(b, tag)[from] = at
  BY SMTT(60), <1>1, <1>8, <1>9, <1>11, <1>12, StopFact
<1>14. Stop(b, tag)[i + 2 + Len(oid)] = at
  BY <1>7, <1>13
<1> HIDE DEF wv
<1>15. at \in Nat /\ at # Len(b) /\ IsTlvAt(b, at) /\ i \in OidOffsets(b, oid)
  BY <1>7, <1>9, <1>10
<1>16. cms_find_tlv_after_oid(b, oid, tag) = <<ContentAt(b, at)>>
  BY <1>1, <1>14, <1>15, FoundAfterOid
<1> QED
  BY <1>10, <1>16

\* The objects the messages are made of.
LEMMA PiecesFact ==
    /\ \A n \in Nat : Tlv(2, <<n>>) \in Seq(Nat)
    /\ Tlv(128, <<>>) \in Seq(Nat) /\ Tlv(4, <<>>) \in Seq(Nat)
    /\ \A oid \in Seq(Nat) : Tlv(6, oid) \in Seq(Nat) /\ Alg(oid) \in Seq(Nat)
    /\ \A x \in Seq(Nat), y \in Seq(Nat) : x \o y \in Seq(Nat)
    /\ \A tag \in Nat, x \in Seq(Nat) : Tlv(tag, x) \in Seq(Nat)
<1>1. \A tag \in Nat, x \in Seq(Nat) : Tlv(tag, x) \in Seq(Nat)
  BY TlvFact
<1>2. <<>> \in Seq(Nat) /\ \A n \in Nat : <<n>> \in Seq(Nat)
  OBVIOUS
<1>3. \A oid \in Seq(Nat) : Tlv(6, oid) \in Seq(Nat) /\ Alg(oid) \in Seq(Nat)
  BY <1>1 DEF Alg
<1>4. \A x \in Seq(Nat), y \in Seq(Nat) : x \o y \in Seq(Nat)
  BY NatConcat
<1>5. /\ \A n \in Nat : Tlv(2, <<n>>) \in Seq(Nat)
      /\ Tlv(128, <<>>) \in Seq(Nat) /\ Tlv(4, <<>>) \in Seq(Nat)
  BY <1>1, <1>2
<1> QED
  BY <1>1, <1>3, <1>4, <1>5

\* The SignedData ends with the signature.
LEMMA SignedHolds ==
    ASSUME NEW content \in Seq(Nat), NEW signature \in Seq(Nat)
    PROVE  Holds(SignedOf(content, signature), Tlv(4, signature))
<1> DEFINE S == Tlv(4, signature)
           Algs == Alg(OID_MLDSA44)
           f1 == Tlv(2, <<1>>) \o Tlv(128, <<>>)
           f2 == f1 \o Algs
           f == f2 \o Algs
           EContent == Tlv(160, Tlv(4, content))
           Encap == Tlv(6, OID_CMS_DATA) \o EContent
           g1 == Tlv(2, <<1>>) \o Tlv(49, Algs)
           g == g1 \o Tlv(48, Encap)
           d == Tlv(6, OID_CMS_SIGNED_DATA)
           SignerInfo == Tlv(48, f \o S)
           Signers == Tlv(49, SignerInfo)
           SignedData == Tlv(48, g \o Signers)
           Explicit == Tlv(160, SignedData)
<1>1. SignedOf(content, signature) = Tlv(48, d \o Explicit)
  BY DEF SignedOf
<1>2. S \in Seq(Nat) /\ Algs \in Seq(Nat) /\ d \in Seq(Nat) /\ Tlv(6, OID_CMS_DATA) \in Seq(Nat)
  BY OidsFact, PiecesFact
<1>3. EContent \in Seq(Nat)
  <2>1. Tlv(4, content) \in Seq(Nat)
    BY PiecesFact
  <2> QED
    BY <2>1, PiecesFact
<1> HIDE DEF S, Algs, d, EContent
<1>4. f1 \in Seq(Nat)
  BY PiecesFact
<1> HIDE DEF f1
<1>5. f2 \in Seq(Nat)
  BY <1>2, <1>4, PiecesFact
<1> HIDE DEF f2
<1>6. f \in Seq(Nat)
  BY <1>2, <1>5, PiecesFact
<1> HIDE DEF f
<1>7. Encap \in Seq(Nat)
  BY <1>2, <1>3, PiecesFact
<1> HIDE DEF Encap
<1>8. g1 \in Seq(Nat)
  BY <1>2, PiecesFact
<1> HIDE DEF g1
<1>9. g \in Seq(Nat)
  BY <1>7, <1>8, PiecesFact
<1> HIDE DEF g
<1>10. Holds(f \o S, S)
  BY <1>2, <1>6, HoldsItself, HoldsBehind
<1>11. Holds(SignerInfo, S)
  BY <1>10, HoldsTlv
<1>12. Holds(Signers, S)
  BY <1>11, HoldsTlv
<1> HIDE DEF Signers
<1>13. Holds(g \o Signers, S)
  BY <1>9, <1>12, HoldsBehind
<1>14. Holds(SignedData, S)
  BY <1>13, HoldsTlv
<1>15. Holds(Explicit, S)
  BY <1>14, HoldsTlv
<1> HIDE DEF Explicit
<1>16. Holds(d \o Explicit, S)
  BY <1>2, <1>15, HoldsBehind
<1>17. Holds(Tlv(48, d \o Explicit), S)
  BY <1>16, HoldsTlv
<1> QED
  BY <1>1, <1>17 DEF S

\* The EnvelopedData: the KEM's OID ends an algorithm identifier, and the ciphertext
\* follows; the OID of the cipher and its parameters end another one, and what is
\* encrypted follows.
LEMMA EnvelopedHolds ==
    ASSUME NEW kem_ct \in Seq(Nat), NEW content \in Seq(Nat), NEW params \in Seq(Nat)
    PROVE  LET b == EnvelopedOf(kem_ct, content, params)
           IN  /\ Holds(b, Tlv(6, OID_MLKEM512) \o Tlv(4, kem_ct))
               /\ Holds(b, (Tlv(6, OID_AES128_GCM) \o params) \o Tlv(128, content))
<1> DEFINE C == Tlv(4, kem_ct)
           E == Tlv(128, content)
           k == Tlv(6, OID_MLKEM512)
           c == Tlv(6, OID_AES128_GCM) \o params
           kC == k \o C
           cE == c \o E
           m == Tlv(2, <<0>>) \o Tlv(128, <<>>)
           r0 == (m \o Tlv(48, k)) \o C
           r1 == r0 \o Alg(OID_HKDF_SHA256)
           r2 == r1 \o Tlv(2, <<16>>)
           r3 == r2 \o Alg(OID_AES128_WRAP)
           r4 == r3 \o Tlv(4, <<>>)
           Kemri == Tlv(48, r4)
           o == Tlv(6, OID_ORI_KEM)
           Infos == Tlv(49, Tlv(164, o \o Kemri))
           d == Tlv(6, OID_CMS_DATA)
           e0 == (d \o Tlv(48, c)) \o E
           Eci == Tlv(48, e0)
           v == Tlv(2, <<2>>)
           vI == v \o Infos
           Explicit == Tlv(160, Tlv(48, vI \o Eci))
           a == Tlv(6, OID_CMS_ENVELOPED_DATA)
           b == EnvelopedOf(kem_ct, content, params)
<1>1. b = Tlv(48, a \o Explicit)
  BY DEF EnvelopedOf, Alg
<1>2. /\ C \in Seq(Nat) /\ E \in Seq(Nat) /\ k \in Seq(Nat) /\ o \in Seq(Nat) /\ d \in Seq(Nat)
      /\ v \in Seq(Nat) /\ a \in Seq(Nat) /\ m \in Seq(Nat) /\ c \in Seq(Nat)
      /\ Alg(OID_HKDF_SHA256) \in Seq(Nat) /\ Alg(OID_AES128_WRAP) \in Seq(Nat)
      /\ Tlv(2, <<16>>) \in Seq(Nat) /\ Tlv(4, <<>>) \in Seq(Nat)
  <2>1. C \in Seq(Nat) /\ E \in Seq(Nat) /\ k \in Seq(Nat) /\ o \in Seq(Nat) /\ d \in Seq(Nat)
    BY SMTT(60), OidsFact, PiecesFact
  <2>2. v \in Seq(Nat) /\ Tlv(2, <<16>>) \in Seq(Nat) /\ Tlv(4, <<>>) \in Seq(Nat)
    BY PiecesFact
  <2>3. m \in Seq(Nat)
    BY PiecesFact
  <2>4. c \in Seq(Nat)
    BY OidsFact, PiecesFact
  <2>5. /\ a \in Seq(Nat) /\ Alg(OID_HKDF_SHA256) \in Seq(Nat)
        /\ Alg(OID_AES128_WRAP) \in Seq(Nat)
    BY OidsFact, PiecesFact
  <2> QED
    BY <2>1, <2>2, <2>3, <2>4, <2>5
<1> HIDE DEF b, C, E, o, d, v, a, m
<1>3. Holds(r0, kC) /\ Holds(e0, cE)
  <2>1. Holds(r0, kC)
    <3> HIDE DEF k
    <3> QED
      BY <1>2, HoldsPair
  <2>2. Holds(e0, cE)
    <3> HIDE DEF c
    <3> QED
      BY <1>2, HoldsPair
  <2> QED
    BY <2>1, <2>2
<1> HIDE DEF k, c, r0, e0, kC, cE
<1>4. Holds(r1, kC)
  BY <1>2, <1>3, HoldsBefore
<1> HIDE DEF r1
<1>5. Holds(r2, kC)
  BY <1>2, <1>4, HoldsBefore
<1> HIDE DEF r2
<1>6. Holds(r3, kC)
  BY <1>2, <1>5, HoldsBefore
<1> HIDE DEF r3
<1>7. Holds(r4, kC)
  BY <1>2, <1>6, HoldsBefore
<1> HIDE DEF r4
<1>8. Holds(Kemri, kC)
  BY <1>7, HoldsTlv
<1> HIDE DEF Kemri
<1>9. Holds(o \o Kemri, kC)
  BY <1>2, <1>8, HoldsBehind
<1>10. Holds(Infos, kC)
  <2>1. Holds(Tlv(164, o \o Kemri), kC)
    BY <1>9, HoldsTlv
  <2> QED
    BY <2>1, HoldsTlv
<1> HIDE DEF Infos
<1>11. Holds(vI, kC) /\ vI \in Seq(Nat)
  <2>1. Holds(vI, kC)
    BY <1>2, <1>10, HoldsBehind
  <2> HIDE DEF vI
  <2> QED
    BY <2>1 DEF Holds
<1> HIDE DEF vI
<1>12. Holds(Eci, cE) /\ Eci \in Seq(Nat)
  <2>1. Holds(Eci, cE)
    BY <1>3, HoldsTlv
  <2> HIDE DEF Eci
  <2> QED
    BY <2>1 DEF Holds
<1> HIDE DEF Eci
<1>13. Holds(vI \o Eci, kC) /\ Holds(vI \o Eci, cE)
  BY <1>11, <1>12, HoldsBefore, HoldsBehind
<1>14. Holds(Explicit, kC) /\ Holds(Explicit, cE)
  <2>1. Holds(Tlv(48, vI \o Eci), kC) /\ Holds(Tlv(48, vI \o Eci), cE)
    BY <1>13, HoldsTlv
  <2> QED
    BY <2>1, HoldsTlv
<1> HIDE DEF Explicit
<1>15. Holds(b, kC) /\ Holds(b, cE)
  <2>1. Holds(a \o Explicit, kC) /\ Holds(a \o Explicit, cE)
    BY <1>2, <1>14, HoldsBehind
  <2> QED
    BY <1>1, <2>1, HoldsTlv
<1> QED
  BY <1>15 DEF b, kC, cE, k, c, C, E

-----------------------------------------------------------------------------
(***************************************************************************)
(* The self-tests succeed.                                                 *)
(***************************************************************************)
LEMMA SameRange ==
    \A m \in Nat, n \in Nat : 1..m = 1..n => m = n
<1> TAKE m \in Nat, n \in Nat
<1> HAVE 1..m = 1..n
<1>1. CASE m > n
  <2>1. m \in 1..m /\ m \notin 1..n
    BY <1>1
  <2> QED
    BY <2>1
<1>2. CASE n > m
  <2>1. n \in 1..n /\ n \notin 1..m
    BY <1>2
  <2> QED
    BY <2>1
<1> QED
  BY <1>1, <1>2

\* How long they are.
LEMMA BytesLength ==
    ASSUME Lengths
    PROVE  /\ Len(g_mldsa_sig) = lens.sig /\ Len(g_kem_ct) = lens.ct
           /\ Len(g_encrypted) = lens.plain + TagLen
<1>1. lens.sig \in Nat /\ lens.ct \in Nat /\ lens.plain + TagLen \in Nat
  <2>1. /\ lens.sig \in 1..MaxLen /\ lens.ct \in 0..MaxLen /\ lens.plain \in 0..MaxLen
    BY CmsAssumption DEF Lengths
  <2>2. MaxLen \in Nat /\ TagLen \in Nat
    BY DEF MaxLen, TagLen
  <2> QED
    BY <2>1, <2>2
<1>2. ASSUME NEW n \in Nat, Bytes(n) \in Seq(Nat) PROVE Len(Bytes(n)) = n
  <2> DEFINE s == Bytes(n)
  <2>1. DOMAIN s = 1..n
    BY DEF Bytes
  <2> HIDE DEF s
  <2>2. Len(s) \in Nat /\ DOMAIN s = 1..Len(s)
    BY <1>2, SeqDomain DEF s
  <2>3. 1..Len(s) = 1..n
    BY <2>1, <2>2
  <2>4. Len(s) = n
    BY <1>2, <2>2, <2>3, SameRange, Zenon
  <2> QED
    BY <2>4 DEF s
<1>3. Bytes(lens.sig) \in Seq(Nat) /\ Bytes(lens.ct) \in Seq(Nat)
      /\ Bytes(lens.plain + TagLen) \in Seq(Nat)
  BY BytesFact DEF g_mldsa_sig, g_kem_ct, g_encrypted
<1> QED
  BY <1>1, <1>2, <1>3 DEF g_mldsa_sig, g_kem_ct, g_encrypted

\* No second place in the two messages of this build.
LEMMA AlikeFact ==
    ASSUME NothingLooksAlike, Lengths
    PROVE  /\ AtMostOne(OctetStrings(SignedDer, lens.sig))
           /\ AtMostOne(OidOffsets(EnvelopedDer, OID_MLKEM512))
           /\ AtMostOne(OidOffsets(EnvelopedDer, OID_AES128_GCM))
<1>1. /\ SignedDer = SignedOf(Letters(lens.plain, 97), Bytes(lens.sig))
      /\ EnvelopedDer = EnvelopedOf(Bytes(lens.ct), Bytes(lens.plain + TagLen), ParamsOf(Nonce))
  BY DEF SignedDer, EnvelopedDer, Plaintext, g_mldsa_sig, g_kem_ct, g_encrypted
<1> QED
  BY <1>1 DEF NothingLooksAlike, Lengths

\* The signature is found.
LEMMA SignatureFound ==
    ASSUME NothingLooksAlike, Lengths, Len(SignedDer) <= lens.size
    PROVE  cms_find_octet_string_by_len(SignedDer, lens.sig) = <<g_mldsa_sig>>
<1>1. g_mldsa_sig \in Seq(Nat) /\ Plaintext(97) \in Seq(Nat) /\ Len(g_mldsa_sig) = lens.sig
  BY BytesFact, BytesLength
<1>2. Holds(SignedDer, Tlv(4, g_mldsa_sig))
  BY <1>1, SignedHolds DEF SignedDer
<1>3. Len(SignedDer) <= MaxLen
  <2>1. lens.size \in 0..MaxLen /\ MaxLen \in Nat
    <3>1. MaxLen \in Nat
      BY DEF MaxLen
    <3>2. lens.size \in 0..MaxLen
      BY CmsAssumption DEF Lengths
    <3> QED
      BY <3>1, <3>2
  <2>2. Len(SignedDer) \in Nat
    BY <1>2, SeqDomain DEF Holds
  <2> QED
    BY <2>1, <2>2
<1>4. PICK i \in Nat : Lies(SignedDer, i, Tlv(4, g_mldsa_sig))
  BY <1>2, HeldLies
<1>5. Stands(SignedDer, i, 4, g_mldsa_sig)
  BY <1>1, <1>3, <1>4, ObjectStands
<1> QED
  BY <1>1, <1>5, AlikeFact, OctetStringFound

LEMMA DerLengths ==
    ASSUME Lengths
    PROVE  Len(SignedDer) \in Nat /\ Len(EnvelopedDer) \in Nat /\ lens.size \in Nat
<1>1. SignedDer \in Seq(Nat)
  BY BytesFact, SignedHolds DEF SignedDer, Holds
<1>2. EnvelopedDer \in Seq(Nat)
  <2>1. g_kem_ct \in Seq(Nat) /\ g_encrypted \in Seq(Nat) /\ ParamsOf(Nonce) \in Seq(Nat)
    BY BytesFact, ParamsFact
  <2> QED
    BY <2>1, EnvelopedHolds DEF EnvelopedDer, Holds
<1> QED
  BY <1>1, <1>2, BytesFact, SeqDomain

\* The KEM ciphertext and the encrypted content are found.
LEMMA PartsFound ==
    ASSUME NothingLooksAlike, Lengths, Len(EnvelopedDer) <= lens.size
    PROVE  /\ cms_find_tlv_after_oid(EnvelopedDer, OID_MLKEM512, 4) = <<g_kem_ct>>
           /\ cms_find_tlv_after_oid(EnvelopedDer, OID_AES128_GCM, 128) = <<g_encrypted>>
<1> DEFINE b == EnvelopedDer
           params == ParamsOf(Nonce)
           inner == Tlv(4, Nonce) \o Tlv(2, <<TagLen>>)
           c == Tlv(6, OID_AES128_GCM)
           v == Tlv(128, g_encrypted)
<1>1. /\ g_kem_ct \in Seq(Nat) /\ g_encrypted \in Seq(Nat) /\ Nonce \in Seq(Nat)
      /\ params \in Seq(Nat)
  BY BytesFact, ParamsFact
<1>2. /\ Holds(b, Tlv(6, OID_MLKEM512) \o Tlv(4, g_kem_ct))
      /\ Holds(b, (c \o params) \o v)
  BY <1>1, EnvelopedHolds DEF EnvelopedDer
<1>3. params = Tlv(48, inner) /\ inner \in Seq(Nat)
  <2>1. Tlv(4, Nonce) \in Seq(Nat) /\ TagLen \in Nat
    BY <1>1, PiecesFact DEF TagLen
  <2>2. Tlv(2, <<TagLen>>) \in Seq(Nat)
    BY <2>1, PiecesFact
  <2> QED
    BY <2>1, <2>2, PiecesFact DEF ParamsOf
<1> HIDE DEF b
<1>4. Len(b) <= MaxLen
  <2>1. lens.size \in 0..MaxLen /\ MaxLen \in Nat
    <3>1. MaxLen \in Nat
      BY DEF MaxLen
    <3>2. lens.size \in 0..MaxLen
      BY CmsAssumption DEF Lengths
    <3> QED
      BY <3>1, <3>2
  <2>2. Len(b) \in Nat
    BY <1>2, SeqDomain DEF Holds
  <2>3. Len(b) <= lens.size
    BY DEF b
  <2> QED
    BY <2>1, <2>2, <2>3
<1>5. AtMostOne(OidOffsets(b, OID_MLKEM512)) /\ AtMostOne(OidOffsets(b, OID_AES128_GCM))
  BY AlikeFact DEF b
<1>6. OID_MLKEM512 \in Seq(Nat) /\ Len(OID_MLKEM512) < 128
  BY OidsFact DEF OID_MLKEM512
<1>7. OID_AES128_GCM \in Seq(Nat) /\ Len(OID_AES128_GCM) < 128
  BY OidsFact DEF OID_AES128_GCM
<1>8. cms_find_tlv_after_oid(b, OID_MLKEM512, 4) = <<g_kem_ct>>
  BY <1>1, <1>2, <1>4, <1>5, <1>6, NextFound
<1>9. Holds(b, c \o (Tlv(48, inner) \o v))
  <2>1. c \in Seq(Nat) /\ v \in Seq(Nat)
    BY <1>1, OidsFact, PiecesFact
  <2> HIDE DEF c, v, params
  <2>2. (c \o params) \o v = c \o (params \o v)
    <3>1. params \in Seq(Nat)
      BY <1>1
    <3> QED
      BY <2>1, <3>1, NatAssoc
  <2> QED
    BY <1>2, <1>3, <2>2
<1> HIDE DEF inner
<1>10. cms_find_tlv_after_oid(b, OID_AES128_GCM, 128) = <<g_encrypted>>
  BY <1>1, <1>3, <1>4, <1>5, <1>7, <1>9, NextButOneFound
<1> QED
  BY <1>8, <1>10 DEF b

\* What is known at every step of the self-tests.
Found ==
    /\ pc = "find_signature" => cms = SignedDer /\ Len(SignedDer) <= lens.size
    /\ pc = "verify" => sig = <<g_mldsa_sig>>
    /\ pc \in {"find_ciphertext", "find_content"} =>
           cms = EnvelopedDer /\ Len(EnvelopedDer) <= lens.size
    /\ pc \in {"find_content", "decapsulate", "decrypt"} => ct = <<g_kem_ct>>
    /\ pc \in {"decapsulate", "decrypt"} => encrypted = <<g_encrypted>>
    /\ pc = "decrypt" => key = Material("originator", g_kem_ct)

Reasons == Lengths /\ Found /\ FailsForAReason

LEMMA ReasonsStep ==
    ASSUME NothingLooksAlike, Reasons, [Next]_vars
    PROVE  Reasons'
<1> DEFINE Same == /\ lens' = lens /\ g_mldsa_sig' = g_mldsa_sig /\ g_kem_ct' = g_kem_ct
                   /\ g_encrypted' = g_encrypted /\ SignedDer' = SignedDer
                   /\ EnvelopedDer' = EnvelopedDer
<1>1. lens' = lens
  BY DEF Next, vars, PrimitiveFails, Sign, BuildSigned, FindSignature, Verify, Encapsulate,
         Encrypt, BuildEnveloped, FindCiphertext, FindContent, Decapsulate, Decrypt, Build
<1>2. Same /\ Lengths /\ Lengths'
  BY <1>1 DEF Reasons, Lengths, SignedDer, EnvelopedDer, Plaintext, g_mldsa_sig, g_kem_ct, g_encrypted
<1> DEFINE Reason == broken' \/ Len(SignedDer) > lens.size \/ Len(EnvelopedDer) > lens.size
<1>3. CASE UNCHANGED vars
  BY <1>2, <1>3 DEF vars, Reasons, Found, FailsForAReason
<1>4. CASE PrimitiveFails
  BY <1>2, <1>4 DEF PrimitiveFails, Fail, Reasons, Found, FailsForAReason
<1>5. CASE Sign
  BY <1>2, <1>5 DEF Sign, Reasons, Found, FailsForAReason
<1>6. CASE BuildSigned
  <2> DEFINE w == cms_pqc_build_signed_data(Plaintext(97), g_mldsa_sig, lens.size)
  <2>1. /\ IF w.ok THEN cms' = w.buf /\ pc' = "find_signature" ELSE pc' = "failed"
    BY <1>6 DEF BuildSigned, Build, Fail
  <2>2. (w.ok <=> Len(SignedDer) <= lens.size) /\ (w.ok => w.buf = SignedDer)
    BY <1>2, BuilderFact
  <2>3. Len(SignedDer) <= lens.size \/ Len(SignedDer) > lens.size
    BY <1>2, DerLengths
  <2> HIDE DEF w
  <2> QED
    BY <1>2, <2>1, <2>2, <2>3 DEF Reasons, Found, FailsForAReason
<1>7. CASE FindSignature
  <2>1. cms = SignedDer /\ Len(SignedDer) <= lens.size
    BY <1>7 DEF FindSignature, Reasons, Found
  <2>2. sig' = <<g_mldsa_sig>>
    BY <1>2, <1>7, <2>1, SignatureFound DEF FindSignature
  <2>3. pc' = "verify"
    BY <1>7, <2>2 DEF FindSignature, Fail
  <2> QED
    BY <1>2, <2>2, <2>3 DEF Reasons, Found, FailsForAReason
<1>8. CASE Verify
  <2>1. pc' = "encapsulate"
    BY <1>8 DEF Verify, Fail, Reasons, Found
  <2> QED
    BY <1>2, <2>1 DEF Reasons, Found, FailsForAReason
<1>9. CASE Encapsulate
  BY <1>2, <1>9 DEF Encapsulate, Reasons, Found, FailsForAReason
<1>10. CASE Encrypt
  <2>1. pc' = "build_enveloped"
    BY <1>10, ParamsFact DEF Encrypt, Fail
  <2> QED
    BY <1>2, <2>1 DEF Reasons, Found, FailsForAReason
<1>11. CASE BuildEnveloped
  <2> DEFINE w == cms_pqc_build_enveloped_data(g_kem_ct, g_encrypted,
                      cms_pqc_write_aes_gcm_params(Nonce).buf, lens.size)
  <2>1. /\ IF w.ok THEN cms' = w.buf /\ pc' = "find_ciphertext" ELSE pc' = "failed"
    BY <1>11 DEF BuildEnveloped, Build, Fail
  <2>2. (w.ok <=> Len(EnvelopedDer) <= lens.size) /\ (w.ok => w.buf = EnvelopedDer)
    BY <1>2, BuilderFact
  <2>3. Len(EnvelopedDer) <= lens.size \/ Len(EnvelopedDer) > lens.size
    BY <1>2, DerLengths
  <2> HIDE DEF w
  <2> QED
    BY <1>2, <2>1, <2>2, <2>3 DEF Reasons, Found, FailsForAReason
<1>12. CASE FindCiphertext
  <2>1. cms = EnvelopedDer /\ Len(EnvelopedDer) <= lens.size
    BY <1>12 DEF FindCiphertext, Reasons, Found
  <2>2. ct' = <<g_kem_ct>>
    BY <1>2, <1>12, <2>1, PartsFound DEF FindCiphertext
  <2>3. ct' # <<>> /\ Len(ct'[1]) = lens.ct
    BY <1>2, <2>2, BytesLength
  <2>4. pc' = "find_content" /\ cms' = cms
    BY <1>12, <2>3 DEF FindCiphertext, Fail
  <2> QED
    BY <1>2, <2>1, <2>2, <2>4 DEF Reasons, Found, FailsForAReason
<1>13. CASE FindContent
  <2>1. cms = EnvelopedDer /\ Len(EnvelopedDer) <= lens.size /\ ct = <<g_kem_ct>>
    BY <1>13 DEF FindContent, Reasons, Found
  <2>2. encrypted' = <<g_encrypted>>
    BY <1>2, <1>13, <2>1, PartsFound DEF FindContent
  <2>3. encrypted' # <<>> /\ Len(encrypted'[1]) = lens.plain + TagLen
    BY <1>2, <2>2, BytesLength
  <2>4. pc' = "decapsulate" /\ ct' = ct
    BY <1>13, <2>3 DEF FindContent, Fail
  <2> QED
    BY <1>2, <2>1, <2>2, <2>4 DEF Reasons, Found, FailsForAReason
<1>14. CASE Decapsulate
  <2>1. ct[1] = g_kem_ct /\ ct = <<g_kem_ct>> /\ encrypted = <<g_encrypted>>
    BY <1>14 DEF Decapsulate, Reasons, Found
  <2>2. Secret(ct[1]) = "originator"
    BY <2>1 DEF Secret
  <2>3. /\ pc' = "decrypt" /\ key' = Material("originator", g_kem_ct)
        /\ ct' = ct /\ encrypted' = encrypted
    BY <1>14, <2>1, <2>2 DEF Decapsulate
  <2> QED
    BY <1>2, <2>1, <2>3 DEF Reasons, Found, FailsForAReason
<1>15. CASE Decrypt
  <2>1. encrypted[1] = g_encrypted /\ key = Material("originator", g_kem_ct)
    BY <1>15 DEF Decrypt, Reasons, Found
  <2>2. pc' = "passed"
    BY <1>15, <2>1 DEF Decrypt
  <2> QED
    BY <1>2, <2>2 DEF Reasons, Found, FailsForAReason
<1> QED
  BY <1>3, <1>4, <1>5, <1>6, <1>7, <1>8, <1>9, <1>10, <1>11, <1>12, <1>13, <1>14, <1>15 DEF Next

\* FailsForAReason: cms_pqc_self_test fails only if a primitive fails or a message is
\* longer than g_cms_buf.  Whatever the lengths, the searches find what the builders
\* wrote, provided that nothing else in the messages looks like it; the run's
\* configuration evaluates that condition for its builds.
THEOREM SelfTestsSucceed ==
    ASSUME NothingLooksAlike
    PROVE  Spec => []FailsForAReason
<1>1. Init => Reasons
  BY DEF Init, Reasons, Lengths, Found, FailsForAReason
<1>2. Reasons /\ [Next]_vars => Reasons'
  BY ReasonsStep
<1>3. Reasons => FailsForAReason
  BY DEF Reasons
<1> QED
  BY <1>1, <1>2, <1>3, PTL DEF Spec

=============================================================================
