----------------------------- MODULE SeqLemmas -----------------------------
(***************************************************************************)
(* Facts about sequences over any set, for the provers: they are stated    *)
(* once here so that a proof about the queues of a model need not expand   *)
(* what the queues hold.  Recursive functions are unfolded by induction    *)
(* over the naturals, which rests on one fact of the library, that < is    *)
(* well-founded.                                                           *)
(***************************************************************************)
EXTENDS Naturals, Sequences, TLAPS, WellFoundedInduction

\* An element of a sequence is in the set the sequence is over.
LEMMA SeqElt ==
    ASSUME NEW S, NEW s \in Seq(S), NEW i \in 1..Len(s)
    PROVE  s[i] \in S
OBVIOUS

\* A function on 1..n is a sequence of length n.
LEMMA SeqMake ==
    ASSUME NEW S, NEW n \in Nat, NEW f \in [1..n -> S]
    PROVE  f \in Seq(S) /\ Len(f) = n
OBVIOUS

\* What Append does to the length and the elements.
LEMMA SeqAppend ==
    ASSUME NEW S, NEW s \in Seq(S), NEW e \in S
    PROVE  /\ Append(s, e) \in Seq(S) /\ Len(Append(s, e)) = Len(s) + 1
           /\ \A i \in 1..Len(s) : Append(s, e)[i] = s[i]
           /\ Append(s, e)[Len(s) + 1] = e
OBVIOUS

\* What concatenation does to the length and the elements.
LEMMA SeqConcat ==
    ASSUME NEW S, NEW s \in Seq(S), NEW t \in Seq(S)
    PROVE  /\ s \o t \in Seq(S) /\ Len(s \o t) = Len(s) + Len(t)
           /\ \A i \in 1..Len(s) : (s \o t)[i] = s[i]
           /\ \A i \in 1..Len(t) : (s \o t)[Len(s) + i] = t[i]
           /\ \A i \in 1..(Len(s) + Len(t)) : i > Len(s) => (s \o t)[i] = t[i - Len(s)]
OBVIOUS

\* Head and Tail of a nonempty sequence.
LEMMA SeqTail ==
    ASSUME NEW S, NEW s \in Seq(S), s # <<>>
    PROVE  /\ Len(s) \in Nat \ {0} /\ Head(s) = s[1] /\ Head(s) \in S
           /\ Tail(s) \in Seq(S) /\ Len(Tail(s)) = Len(s) - 1
           /\ \A i \in 1..(Len(s) - 1) : Tail(s)[i] = s[i + 1]
OBVIOUS

\* A segment of a sequence.
LEMMA SeqSegment ==
    ASSUME NEW S, NEW s \in Seq(S), NEW a \in Nat, NEW b \in Nat, a >= 1, b <= Len(s), a <= b + 1
    PROVE  /\ SubSeq(s, a, b) \in Seq(S) /\ Len(SubSeq(s, a, b)) = b + 1 - a
           /\ \A i \in 1..(b + 1 - a) : SubSeq(s, a, b)[i] = s[a + i - 1]
OBVIOUS

\* A sequence is empty exactly when its length is zero.
LEMMA SeqEmpty ==
    ASSUME NEW S, NEW s \in Seq(S)
    PROVE  (s = <<>>) <=> (Len(s) = 0)
OBVIOUS

\* The empty sequence.
LEMMA SeqNone ==
    ASSUME NEW S
    PROVE  <<>> \in Seq(S) /\ Len(<<>>) = 0
OBVIOUS

\* Small sequences.
LEMMA SeqSmall ==
    ASSUME NEW S, NEW a \in S, NEW b \in S
    PROVE  /\ <<a>> \in Seq(S) /\ Len(<<a>>) = 1 /\ <<a>>[1] = a
           /\ <<a, b>> \in Seq(S) /\ Len(<<a, b>>) = 2
           /\ <<a, b>>[1] = a /\ <<a, b>>[2] = b
OBVIOUS

\* A sequence over a set is one over a larger set.
LEMMA SeqWider ==
    ASSUME NEW S, NEW T, S \subseteq T, NEW s \in Seq(S)
    PROVE  s \in Seq(T)
OBVIOUS

\* The positions of a sequence.
LEMMA SeqDomain ==
    ASSUME NEW S, NEW s \in Seq(S)
    PROVE  Len(s) \in Nat /\ DOMAIN s = 1..Len(s)
OBVIOUS

\* Sequences with the same elements are the same.
LEMMA SeqSame ==
    ASSUME NEW S, NEW s \in Seq(S), NEW t \in Seq(S), Len(s) = Len(t),
           \A i \in 1..Len(s) : s[i] = t[i]
    PROVE  s = t
OBVIOUS

\* Concatenation is associative,
LEMMA SeqAssoc ==
    ASSUME NEW S, NEW s \in Seq(S), NEW t \in Seq(S), NEW u \in Seq(S)
    PROVE  (s \o t) \o u = s \o (t \o u)
OBVIOUS

\* and the empty sequence changes nothing.
LEMMA SeqUnit ==
    ASSUME NEW S, NEW s \in Seq(S)
    PROVE  s \o <<>> = s /\ <<>> \o s = s
OBVIOUS

\* A sequence is its first element and the others,
LEMMA SeqFirst ==
    ASSUME NEW S, NEW s \in Seq(S), s # <<>>
    PROVE  <<Head(s)>> \o Tail(s) = s
OBVIOUS

\* or its first n elements and the others.
LEMMA SeqSplit ==
    ASSUME NEW S, NEW s \in Seq(S), NEW n \in 0..Len(s)
    PROVE  SubSeq(s, 1, n) \o SubSeq(s, n + 1, Len(s)) = s
<1> DEFINE f == SubSeq(s, 1, n)
           r == SubSeq(s, n + 1, Len(s))
           c == f \o r
<1>1. f \in Seq(S) /\ Len(f) = n /\ \A i \in 1..n : f[i] = s[i]
  OBVIOUS
<1>2. /\ r \in Seq(S) /\ Len(r) = Len(s) - n
      /\ \A i \in 1..(Len(s) - n) : r[i] = s[n + i]
  OBVIOUS
<1>3. f \in Seq(S) /\ r \in Seq(S)
  OBVIOUS
<1> HIDE DEF f, r
<1>4. /\ c \in Seq(S) /\ Len(c) = Len(f) + Len(r)
      /\ \A i \in 1..Len(f) : c[i] = f[i]
      /\ \A i \in 1..(Len(f) + Len(r)) : i > Len(f) => c[i] = r[i - Len(f)]
  BY <1>3, SeqConcat
<1> HIDE DEF c
<1>5. Len(c) = Len(s)
  BY <1>1, <1>2, <1>4
<1>6. ASSUME NEW i \in 1..Len(c) PROVE c[i] = s[i]
  BY <1>1, <1>2, <1>4
<1>7. c = s
  BY <1>4, <1>5, <1>6, SeqSame
<1> QED
  BY <1>7 DEF c, f, r

\* Append is a concatenation.
LEMMA SeqAppendConcat ==
    ASSUME NEW S, NEW s \in Seq(S), NEW e \in S
    PROVE  Append(s, e) = s \o <<e>>
<1> DEFINE a == Append(s, e)
           c == s \o <<e>>
<1>1. <<e>> \in Seq(S) /\ Len(<<e>>) = 1 /\ <<e>>[1] = e
  OBVIOUS
<1>2. /\ c \in Seq(S) /\ Len(c) = Len(s) + 1
      /\ \A i \in 1..Len(s) : c[i] = s[i]
      /\ c[Len(s) + 1] = e
  BY <1>1, SeqConcat
<1>3. /\ a \in Seq(S) /\ Len(a) = Len(s) + 1
      /\ \A i \in 1..Len(s) : a[i] = s[i]
      /\ a[Len(s) + 1] = e
  BY SeqAppend
<1> HIDE DEF a, c
<1>4. ASSUME NEW i \in 1..Len(a) PROVE a[i] = c[i]
  BY <1>2, <1>3
<1>5. a = c
  BY <1>2, <1>3, <1>4, SeqSame
<1> QED
  BY <1>5 DEF a, c

\* Three elements.
LEMMA SeqTriple ==
    ASSUME NEW S, NEW a \in S, NEW b \in S, NEW c \in S
    PROVE  /\ <<a, b, c>> \in Seq(S) /\ Len(<<a, b, c>>) = 3
           /\ <<a, b, c>>[1] = a /\ <<a, b, c>>[2] = b /\ <<a, b, c>>[3] = c
OBVIOUS

\* The first three elements of a concatenation,
LEMMA SeqBefore ==
    ASSUME NEW S, NEW h \in Seq(S), NEW t \in Seq(S)
    PROVE  Len(h) = 3 =>
           /\ h \o t \in Seq(S) /\ Len(h \o t) = 3 + Len(t)
           /\ (h \o t)[1] = h[1] /\ (h \o t)[2] = h[2] /\ (h \o t)[3] = h[3]
<1>1. /\ h \o t \in Seq(S) /\ Len(h \o t) = Len(h) + Len(t)
      /\ \A i \in 1..Len(h) : (h \o t)[i] = h[i]
  OBVIOUS
<1> DEFINE r == h \o t
           n == Len(h)
<1>2. r \in Seq(S) /\ Len(r) = n + Len(t) /\ \A i \in 1..n : r[i] = h[i]
  BY <1>1
<1> HIDE DEF r, n
<1>3. n = 3 => Len(r) = 3 + Len(t) /\ r[1] = h[1] /\ r[2] = h[2] /\ r[3] = h[3]
  BY <1>2
<1> QED BY <1>2, <1>3 DEF r, n

\* as in a header in front of a text.
LEMMA SeqHeader ==
    ASSUME NEW S, NEW a \in S, NEW b \in S, NEW c \in S, NEW t \in Seq(S)
    PROVE  /\ <<a, b, c>> \o t \in Seq(S) /\ Len(<<a, b, c>> \o t) = 3 + Len(t)
           /\ (<<a, b, c>> \o t)[1] = a /\ (<<a, b, c>> \o t)[2] = b
           /\ (<<a, b, c>> \o t)[3] = c
<1> DEFINE h == <<a, b, c>>
<1>1. /\ h \in Seq(S) /\ Len(h) = 3
      /\ h[1] = a /\ h[2] = b /\ h[3] = c
  BY SeqTriple
<1> HIDE DEF h
<1>2. /\ h \o t \in Seq(S) /\ Len(h \o t) = 3 + Len(t)
      /\ (h \o t)[1] = h[1] /\ (h \o t)[2] = h[2] /\ (h \o t)[3] = h[3]
  BY <1>1, SeqBefore
<1>3. /\ h \o t \in Seq(S) /\ Len(h \o t) = 3 + Len(t)
      /\ (h \o t)[1] = a /\ (h \o t)[2] = b /\ (h \o t)[3] = c
  BY <1>1, <1>2, Zenon
<1> QED BY <1>3 DEF h

\* Three sequences, one after the other.
Joined(h, p, x) == (h \o p) \o x

\* An element that goes from the head of one sequence to the end of the one
\* before, in the middle of three,
LEMMA SeqPass ==
    ASSUME NEW S, NEW h \in Seq(S), NEW p \in Seq(S), NEW x \in Seq(S), x # <<>>
    PROVE  Joined(h, Append(p, Head(x)), Tail(x)) = Joined(h, p, x)
<1> DEFINE e == Head(x)
           r == Tail(x)
<1>1. e \in S /\ r \in Seq(S)
  BY SeqTail
<1>2. <<e>> \o r = x
  BY SeqFirst
<1> HIDE DEF e, r
<1>3. <<e>> \in Seq(S)
  BY <1>1
<1>4. Append(p, e) = p \o <<e>> /\ p \o <<e>> \in Seq(S)
  BY <1>1, <1>3, SeqAppendConcat, SeqConcat
<1>5. (h \o (p \o <<e>>)) \o r = h \o ((p \o <<e>>) \o r)
  <2> DEFINE q == p \o <<e>>
  <2>1. q \in Seq(S) /\ r \in Seq(S)
    BY <1>1, <1>4
  <2> HIDE DEF q
  <2>2. (h \o q) \o r = h \o (q \o r)
    BY SMTT(60), <2>1
  <2> QED
    BY <2>2 DEF q
<1>6. (p \o <<e>>) \o r = p \o (<<e>> \o r)
  BY <1>1, <1>3, SeqAssoc
<1>7. h \o (p \o x) = (h \o p) \o x
  BY SMTT(60), SeqAssoc
<1>8. (h \o Append(p, e)) \o r = (h \o p) \o x
  BY <1>2, <1>4, <1>5, <1>6, <1>7
<1> QED
  BY <1>8 DEF e, r, Joined

\* or at the front,
LEMMA SeqPassFirst ==
    ASSUME NEW S, NEW h \in Seq(S), NEW p \in Seq(S), NEW x \in Seq(S), p # <<>>
    PROVE  Joined(Append(h, Head(p)), Tail(p), x) = Joined(h, p, x)
<1> DEFINE e == Head(p)
           r == Tail(p)
<1>1. e \in S /\ r \in Seq(S)
  BY SeqTail
<1>2. <<e>> \o r = p
  BY SeqFirst
<1> HIDE DEF e, r
<1>3. <<e>> \in Seq(S)
  BY <1>1
<1>4. Append(h, e) = h \o <<e>>
  BY <1>1, SeqAppendConcat
<1>5. (h \o <<e>>) \o r = h \o (<<e>> \o r)
  BY <1>1, <1>3, SeqAssoc
<1>6. (Append(h, e) \o r) \o x = (h \o p) \o x
  BY <1>2, <1>4, <1>5
<1> QED
  BY <1>6 DEF e, r, Joined

\* and several of them, change nothing in the concatenation.
LEMMA SeqPassPart ==
    ASSUME NEW S, NEW h \in Seq(S), NEW p \in Seq(S), NEW x \in Seq(S), NEW n \in 0..Len(p)
    PROVE  Joined(h \o SubSeq(p, 1, n), SubSeq(p, n + 1, Len(p)), x) = Joined(h, p, x)
<1> DEFINE f == SubSeq(p, 1, n)
           r == SubSeq(p, n + 1, Len(p))
<1>1. f \in Seq(S) /\ r \in Seq(S)
  OBVIOUS
<1>2. f \o r = p
  BY SeqSplit
<1> HIDE DEF f, r
<1>3. (h \o f) \o r = h \o (f \o r)
  BY SMTT(60), <1>1, SeqAssoc
<1>4. ((h \o f) \o r) \o x = (h \o p) \o x
  BY <1>2, <1>3
<1> QED
  BY <1>4 DEF f, r, Joined

\* The first of two sequences, and what is left without it.
LEMMA SeqWithout ==
    ASSUME NEW S, NEW h \in Seq(S), NEW y \in Seq(S)
    PROVE  SubSeq(h \o y, Len(h) + 1, Len(h \o y)) = y
<1> DEFINE c == h \o y
           m == Len(h)
           n == Len(y)
           r == SubSeq(c, m + 1, Len(c))
<1>1. m \in Nat /\ n \in Nat
  BY SeqDomain
<1>2. /\ c \in Seq(S) /\ Len(c) = m + n
      /\ \A i \in 1..n : c[m + i] = y[i]
  BY SeqConcat
<1> HIDE DEF c
<1>3. /\ r \in Seq(S) /\ Len(r) = Len(c) + 1 - (m + 1)
      /\ \A i \in 1..(Len(c) + 1 - (m + 1)) : r[i] = c[(m + 1) + i - 1]
  <2> HIDE DEF m, n
  <2>1. m + 1 \in Nat /\ Len(c) \in Nat /\ m + 1 >= 1 /\ m + 1 <= Len(c) + 1
    BY <1>1, <1>2
  <2> QED
    BY SMTT(60), <1>2, <2>1, SeqSegment
<1> HIDE DEF r
<1>4. Len(r) = n /\ \A i \in 1..n : r[i] = y[i]
  <2> HIDE DEF m, n
  <2> QED
    BY SMTT(60), <1>1, <1>2, <1>3
<1>5. r = y
  BY <1>3, <1>4, SeqSame
<1> QED
  BY <1>5 DEF r, c, m

\* The two parts of a sequence are sequences.
LEMMA SeqCut ==
    ASSUME NEW S, NEW s \in Seq(S), NEW n \in 0..Len(s)
    PROVE  SubSeq(s, 1, n) \in Seq(S) /\ SubSeq(s, n + 1, Len(s)) \in Seq(S)
OBVIOUS

\* What is added at the end leaves the first element where it is.
LEMMA SeqLonger ==
    ASSUME NEW S, NEW s \in Seq(S), NEW t \in Seq(S), s # <<>>
    PROVE  s \o t \in Seq(S) /\ s \o t # <<>> /\ (s \o t)[1] = s[1]
<1> DEFINE c == s \o t
           m == Len(s)
           n == Len(t)
<1>1. c \in Seq(S) /\ Len(c) = m + n /\ \A i \in 1..m : c[i] = s[i]
  BY SeqConcat
<1>2. m \in Nat \ {0} /\ n \in Nat
  BY SeqTail, SeqDomain
<1> HIDE DEF c, m, n
<1>3. c[1] = s[1] /\ Len(c) # 0
  BY <1>1, <1>2
<1>4. c # <<>>
  BY <1>1, <1>3, SeqEmpty
<1> QED
  BY <1>1, <1>3, <1>4 DEF c

\* A sequence of one element at most that is not empty.
LEMMA SeqOne ==
    ASSUME NEW S, NEW s \in Seq(S), s # <<>>, Len(s) <= 1
    PROVE  Len(s) = 1
<1>1. Len(s) \in Nat /\ Len(s) # 0
  BY SeqEmpty, SeqDomain
<1>. QED  BY <1>1

\* One element in front of a sequence.
LEMMA SeqOneBefore ==
    ASSUME NEW S, NEW h \in Seq(S), NEW t \in Seq(S)
    PROVE  Len(h) = 1 =>
           /\ h \o t \in Seq(S) /\ Len(h \o t) = 1 + Len(t) /\ (h \o t)[1] = h[1]
           /\ \A i \in 1..Len(t) : (h \o t)[1 + i] = t[i]
<1>1. /\ h \o t \in Seq(S) /\ Len(h \o t) = Len(h) + Len(t)
      /\ \A i \in 1..Len(h) : (h \o t)[i] = h[i]
      /\ \A i \in 1..Len(t) : (h \o t)[Len(h) + i] = t[i]
  BY SeqConcat
<1> DEFINE r == h \o t
           n == Len(h)
<1>2. /\ r \in Seq(S) /\ Len(r) = n + Len(t) /\ \A i \in 1..n : r[i] = h[i]
      /\ \A i \in 1..Len(t) : r[n + i] = t[i]
  BY <1>1
<1> HIDE DEF r, n
<1>3. n = 1 => Len(r) = 1 + Len(t) /\ r[1] = h[1] /\ \A i \in 1..Len(t) : r[1 + i] = t[i]
  BY <1>2
<1> QED BY <1>2, <1>3 DEF r, n

\* The first two elements, where there are any.
LEMMA SeqFirstTwo ==
    ASSUME NEW S, NEW s \in Seq(S)
    PROVE  (Len(s) >= 1 => s[1] \in S) /\ (Len(s) = 2 => s[2] \in S)
<1>1. Len(s) \in Nat
  BY SeqDomain
<1>2. (Len(s) >= 1 => 1 \in 1..Len(s)) /\ (Len(s) = 2 => 2 \in 1..Len(s))
  BY SMTT(60), <1>1
<1> QED  BY <1>2, SeqElt

\* The first elements of a sequence and the next one.
LEMMA SeqNext ==
    ASSUME NEW S, NEW s \in Seq(S), NEW n \in Nat, n < Len(s)
    PROVE  Append(SubSeq(s, 1, n), s[n + 1]) = SubSeq(s, 1, n + 1)
<1> DEFINE a == Append(SubSeq(s, 1, n), s[n + 1])
           r == SubSeq(s, 1, n + 1)
           p == SubSeq(s, 1, n)
<1>1. p \in Seq(S) /\ Len(p) = n /\ \A i \in 1..n : p[i] = s[i]
  OBVIOUS
<1>2. r \in Seq(S) /\ Len(r) = n + 1 /\ \A i \in 1..(n + 1) : r[i] = s[i]
  OBVIOUS
<1>3. s[n + 1] \in S
  OBVIOUS
<1> HIDE DEF p, r
<1>4. /\ a \in Seq(S) /\ Len(a) = n + 1 /\ \A i \in 1..n : a[i] = p[i]
      /\ a[n + 1] = s[n + 1]
  BY <1>1, <1>3, SeqAppend DEF p
<1> HIDE DEF a
<1>5. \A i \in 1..(n + 1) : a[i] = r[i]
  <2>1. ASSUME NEW i \in 1..(n + 1)
        PROVE  a[i] = r[i]
    <3>1. CASE i = n + 1
      BY <1>2, <1>4, <3>1
    <3>2. CASE i # n + 1
      <4>1. i \in 1..n
        BY <3>2
      <4> QED  BY <1>1, <1>2, <1>4, <4>1
    <3> QED  BY <3>1, <3>2
  <2> QED  BY <2>1
<1>6. a = r
  BY <1>2, <1>4, <1>5, SeqSame
<1> QED  BY <1>6 DEF a, r

\* All elements of a sequence are the sequence.
LEMMA SeqAll ==
    ASSUME NEW S, NEW s \in Seq(S)
    PROVE  SubSeq(s, 1, Len(s)) = s
<1> DEFINE r == SubSeq(s, 1, Len(s))
<1>1. r \in Seq(S) /\ Len(r) = Len(s) /\ \A i \in 1..Len(s) : r[i] = s[i]
  OBVIOUS
<1> HIDE DEF r
<1>2. r = s
  BY <1>1, SeqSame
<1> QED  BY <1>2 DEF r

(***************************************************************************)
(* Induction and recursion.                                                *)
(***************************************************************************)

\* A nonempty set of naturals has a least element.
LEMMA NatMin ==
    ASSUME NEW T \in SUBSET Nat, T # {}
    PROVE  \E x \in T : \A y \in T : x <= y
<1> DEFINE R == {ss \in Nat \X Nat : ss[1] < ss[2]}
<1>1. IsWellFoundedOn(R, Nat)
  BY NatLessThanWellFounded DEF OpToRel
<1>2. PICK x \in T : \A y \in T : ~(<<y, x>> \in R)
  <2> HIDE DEF R
  <2> QED
    BY <1>1, WFMin
<1>3. ASSUME NEW y \in T PROVE x <= y
  <2>1. x \in Nat /\ y \in Nat
    OBVIOUS
  <2>2. ~(y < x)
    BY <1>2, <2>1
  <2> QED
    BY <2>1, <2>2
<1> QED
  BY <1>3

\* Induction: a set that holds 0 and with every number below n also the next one
\* holds all numbers up to n.
LEMMA NatUpTo ==
    ASSUME NEW n \in Nat, NEW T, 0 \in T, \A i \in 0..n : i \in T /\ i < n => i + 1 \in T
    PROVE  \A i \in 0..n : i \in T
<1> DEFINE B == {i \in 0..n : i \notin T}
<1>1. SUFFICES ASSUME B # {} PROVE FALSE
  OBVIOUS
<1>2. B \in SUBSET Nat
  OBVIOUS
<1>3. PICK x \in B : \A y \in B : x <= y
  <2> HIDE DEF B
  <2> QED
    BY <1>1, <1>2, NatMin
<1>4. x \in 0..n /\ x \notin T /\ x # 0
  BY <1>3
<1>5. x - 1 \in 0..n /\ x - 1 < n /\ (x - 1) + 1 = x
  BY <1>4
<1>6. x - 1 \notin B
  <2> HIDE DEF B
  <2>1. ~(x <= x - 1)
    BY <1>4
  <2> QED
    BY <1>3, <2>1
<1>7. x - 1 \in T
  BY <1>5, <1>6
<1> QED
  BY <1>4, <1>5, <1>7

\* Recursion: values can be computed one after the other.
Computes(f, S, base, n, Step) ==
    f \in [0..n -> S] /\ f[0] = base /\ \A i \in 1..n : f[i] = Step[i][f[i - 1]]

LEMMA NatRecursion ==
    ASSUME NEW S, NEW base \in S, NEW n \in Nat, NEW Step \in [1..n -> [S -> S]]
    PROVE  \E f : Computes(f, S, base, n, Step)
<1> DEFINE Good(k, f) == f[0] = base /\ \A i \in 1..k : f[i] = Step[i][f[i - 1]]
           T == {k \in 0..n : \E f \in [0..k -> S] : Good(k, f)}
<1>1. 0 \in T
  <2> DEFINE f == [i \in 0..0 |-> base]
  <2>1. f \in [0..0 -> S] /\ Good(0, f)
    OBVIOUS
  <2> HIDE DEF f, Good
  <2>2. \E g \in [0..0 -> S] : Good(0, g)
    BY <2>1
  <2> QED
    BY <2>2
<1>2. ASSUME NEW k \in 0..n, k \in T, k < n
      PROVE  k + 1 \in T
  <2>1. PICK f \in [0..k -> S] : Good(k, f)
    BY <1>2
  <2> DEFINE v == Step[k + 1][f[k]]
             g == [i \in 0..(k + 1) |-> IF i = k + 1 THEN v ELSE f[i]]
  <2>2. v \in S
    <3>1. f[k] \in S /\ k + 1 \in 1..n
      BY <1>2
    <3>2. Step[k + 1] \in [S -> S]
      BY <3>1
    <3> QED
      BY <3>1, <3>2
  <2> HIDE DEF v
  <2>3. g \in [0..(k + 1) -> S]
    BY <1>2, <2>1, <2>2
  <2>4. g[0] = base /\ g[k + 1] = v /\ \A i \in 0..k : g[i] = f[i]
    BY <1>2, <2>1
  <2> HIDE DEF g
  <2>5. ASSUME NEW i \in 1..(k + 1) PROVE g[i] = Step[i][g[i - 1]]
    <3>1. i - 1 \in 0..k
      BY <1>2
    <3>2. CASE i = k + 1
      <4>1. i - 1 = k
        BY <1>2, <3>2
      <4> QED
        BY <2>4, <3>1, <3>2, <4>1 DEF v
    <3>3. CASE i # k + 1
      <4>1. i \in 1..k
        BY <1>2, <3>3
      <4>2. g[i] = f[i] /\ g[i - 1] = f[i - 1]
        BY <2>4, <3>1, <4>1
      <4> QED
        BY <2>1, <4>1, <4>2
    <3> QED
      BY <3>2, <3>3
  <2>6. Good(k + 1, g)
    BY <2>1, <2>4, <2>5
  <2>7. k + 1 \in 0..n
    BY <1>2
  <2> HIDE DEF Good
  <2> QED
    BY <2>3, <2>6, <2>7
<1>3. \A k \in 0..n : k \in T
  <2> HIDE DEF T
  <2> QED
    BY <1>1, <1>2, NatUpTo
<1>4. n \in T
  <2> HIDE DEF T
  <2> QED
    BY <1>3
<1>5. \E f \in [0..n -> S] : Good(n, f)
  <2> HIDE DEF Good
  <2> QED
    BY <1>4
<1> QED
  BY <1>5 DEF Computes

=============================================================================
