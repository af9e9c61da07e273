-------------------------- MODULE EmacsIpc_proofs --------------------------
(***************************************************************************)
(* Proofs about the Emacs client: a command is answered by its own          *)
(* response, after everything it displayed, and no frame is lost.           *)
(*                                                                          *)
(* The argument is that the frames of the list and of the connection are,   *)
(* in order, what the daemon answers the requests of this connection with,  *)
(* less what was returned; when the connection is lost the list keeps the   *)
(* oldest of them.  So a result stands behind every display of its own      *)
(* evaluation, and its id, which no other evaluation has, identifies it.    *)
(***************************************************************************)
EXTENDS EmacsIpc, WellFoundedInduction, SequenceTheorems, TLAPS

-----------------------------------------------------------------------------
(* Numbers.                                                                 *)

\* A nonempty set of numbers has a least one.
LEMMA LeastNumber ==
  ASSUME NEW T \in SUBSET Nat, T # {}
  PROVE  \E x \in T : \A y \in T : x <= y
<1>1. PICK x \in T : \A y \in T : ~ (<<y, x>> \in OpToRel(<, Nat))
  BY NatLessThanWellFounded, WFMin, Zenon
<1>2. x \in T /\ \A y \in T : ~ (y < x)
  BY <1>1, Zenon DEF OpToRel
<1>3. \A y \in T : y \in Nat /\ x \in Nat
  BY <1>2
<1>. QED
  BY <1>2, <1>3

LEMMA MinIs ==
  ASSUME NEW T \in SUBSET Nat, T # {}
  PROVE  Min(T) \in T /\ \A y \in T : Min(T) <= y
BY LeastNumber DEF Min

-----------------------------------------------------------------------------
(* Sequences, and sequences of parts.                                       *)

LEMMA ReverseIs ==
  ASSUME NEW S, NEW s \in Seq(S)
  PROVE  /\ Reverse(s) \in Seq(S) /\ Len(Reverse(s)) = Len(s)
         /\ \A i \in 1 .. Len(s) : Reverse(s)[i] = s[Len(s) - i + 1]
BY DEF Reverse

LEMMA ReverseReverse ==
  ASSUME NEW S, NEW s \in Seq(S)
  PROVE  Reverse(Reverse(s)) = s
<1> DEFINE r == Reverse(s)
<1>1. /\ r \in Seq(S) /\ Len(r) = Len(s)
      /\ \A i \in 1 .. Len(s) : r[i] = s[Len(s) - i + 1]
  BY ReverseIs
<1> HIDE DEF r
<1>2. /\ Reverse(r) \in Seq(S) /\ Len(Reverse(r)) = Len(s)
      /\ \A i \in 1 .. Len(s) : Reverse(r)[i] = r[Len(s) - i + 1]
  BY <1>1, ReverseIs
<1>3. \A i \in 1 .. Len(s) : Reverse(r)[i] = s[i]
  BY <1>1, <1>2
<1> QED
  BY <1>2, <1>3, SeqEqual DEF r

LEMMA ReverseConcat ==
  ASSUME NEW S, NEW s \in Seq(S), NEW t \in Seq(S)
  PROVE  Reverse(Reverse(s) \o t) = Reverse(t) \o s
<1> DEFINE r == Reverse(s)
           u == Reverse(t)
<1>1. /\ r \in Seq(S) /\ Len(r) = Len(s)
      /\ \A i \in 1 .. Len(s) : r[i] = s[Len(s) - i + 1]
  BY ReverseIs
<1>2. /\ u \in Seq(S) /\ Len(u) = Len(t)
      /\ \A i \in 1 .. Len(t) : u[i] = t[Len(t) - i + 1]
  BY ReverseIs
<1> HIDE DEF r, u
<1>n. PICK n \in Nat : n = Len(s) + Len(t) /\ n = Len(t) + Len(s)
  OBVIOUS
<1>3. /\ r \o t \in Seq(S) /\ Len(r \o t) = n
      /\ \A i \in 1 .. n : (r \o t)[i] = IF i <= Len(s) THEN r[i] ELSE t[i - Len(s)]
  BY <1>n, <1>1, ConcatProperties
<1>4. /\ u \o s \in Seq(S) /\ Len(u \o s) = n
      /\ \A i \in 1 .. n : (u \o s)[i] = IF i <= Len(t) THEN u[i] ELSE s[i - Len(t)]
  <2>1. /\ u \o s \in Seq(S) /\ Len(u \o s) = Len(u) + Len(s)
        /\ \A i \in 1 .. Len(u) + Len(s) :
              (u \o s)[i] = IF i <= Len(u) THEN u[i] ELSE s[i - Len(u)]
    BY <1>2, ConcatProperties, SMTT(30)
  <2>2. Len(u) = Len(t) /\ Len(u) + Len(s) = n
    BY <1>n, <1>2
  <2> QED
    BY <2>1, <2>2
<1> DEFINE v == r \o t
           w == u \o s
<1> HIDE DEF v, w
<1>5. /\ Reverse(v) \in Seq(S) /\ Len(Reverse(v)) = n
      /\ \A i \in 1 .. n : Reverse(v)[i] = v[n - i + 1]
  BY <1>3, ReverseIs DEF v
<1>6. \A i \in 1 .. n : Reverse(v)[i] = w[i]
  <2> SUFFICES ASSUME NEW i \in 1 .. n
               PROVE  v[n - i + 1] = w[i]
    BY <1>5
  <2>1. Len(s) \in Nat /\ Len(t) \in Nat /\ n = Len(s) + Len(t)
        /\ n - i + 1 \in 1 .. n
    BY <1>n
  <2>2. ASSUME i <= Len(t)
        PROVE  v[n - i + 1] = w[i]
    <3>1. v[n - i + 1] = t[Len(t) - i + 1]
      BY <1>3, <2>1, <2>2 DEF v
    <3>2. w[i] = u[i]
      BY <1>4, <2>1, <2>2 DEF w
    <3> QED
      BY <1>2, <2>1, <2>2, <3>1, <3>2
  <2>3. ASSUME ~ (i <= Len(t))
        PROVE  v[n - i + 1] = w[i]
    <3>1. v[n - i + 1] = r[n - i + 1]
      BY <1>3, <2>1, <2>3 DEF v
    <3>2. w[i] = s[i - Len(t)]
      BY <1>4, <2>1, <2>3 DEF w
    <3>3. n - i + 1 \in 1 .. Len(s) /\ Len(s) - (n - i + 1) + 1 = i - Len(t)
      BY <2>1, <2>3
    <3> QED
      BY <1>1, <3>1, <3>2, <3>3
  <2> QED
    BY <2>2, <2>3
<1> QED
  <2>1. Reverse(v) = w
    BY <1>4, <1>5, <1>6, SeqEqual DEF w
  <2> QED
    BY <2>1 DEF r, u, v, w

LEMMA RemoveIs ==
  ASSUME NEW S, NEW s \in Seq(S), NEW k \in 1 .. Len(s)
  PROVE  /\ RemoveAt(s, k) \in Seq(S) /\ Len(RemoveAt(s, k)) = Len(s) - 1
         /\ \A i \in 1 .. Len(s) - 1 :
               RemoveAt(s, k)[i] = IF i < k THEN s[i] ELSE s[i + 1]
<1> DEFINE a == SubSeq(s, 1, k - 1)
           b == SubSeq(s, k + 1, Len(s))
<1>1. /\ a \in Seq(S) /\ Len(a) = k - 1
      /\ \A i \in 1 .. k - 1 : a[i] = s[i]
  BY SubSeqProperties
<1>2. /\ b \in Seq(S) /\ Len(b) = Len(s) - k
      /\ \A i \in 1 .. Len(s) - k : b[i] = s[k + i]
  BY SubSeqProperties
<1> HIDE DEF a, b
<1>3. /\ a \o b \in Seq(S) /\ Len(a \o b) = Len(s) - 1
      /\ \A i \in 1 .. Len(s) - 1 :
            (a \o b)[i] = IF i <= k - 1 THEN a[i] ELSE b[i - (k - 1)]
  BY <1>1, <1>2, ConcatProperties
<1>4. RemoveAt(s, k) = a \o b
  BY DEF RemoveAt, a, b
<1>5. \A i \in 1 .. Len(s) - 1 : (a \o b)[i] = IF i < k THEN s[i] ELSE s[i + 1]
  BY <1>1, <1>2, <1>3, SMTT(30)
<1> QED
  BY <1>3, <1>4, <1>5

LEMMA PartsIs ==
  ASSUME NEW S, NEW s \in Seq(S)
  PROVE  /\ Parts(s) \in Seq(S) /\ Len(Parts(s)) = 2 * Len(s)
         /\ \A k \in 1 .. Len(s) : /\ Parts(s)[2 * k - 1] = s[k]
                                   /\ Parts(s)[2 * k] = s[k]
BY DEF Parts

LEMMA ConcatAssoc ==
  ASSUME NEW S, NEW s \in Seq(S), NEW t \in Seq(S), NEW u \in Seq(S)
  PROVE  (s \o t) \o u = s \o (t \o u)
OBVIOUS

\* The same for a name that the provers leave unexpanded, which makes it quick
\* to cite.
Cat(s, t) == s \o t

LEMMA CatAssoc ==
  ASSUME NEW S, NEW s \in Seq(S), NEW t \in Seq(S), NEW u \in Seq(S)
  PROVE  Cat(Cat(s, t), u) = Cat(s, Cat(t, u))
BY ConcatAssoc DEF Cat

LEMMA WholeIs ==
  ASSUME NEW S, NEW b \in Seq(S)
  PROVE  /\ Whole(b) \in Seq(S) /\ Len(Whole(b)) = Len(b) \div 2
         /\ \A i \in 1 .. Len(b) \div 2 : Whole(b)[i] = b[2 * i]
BY DEF Whole

\* A sequence of parts is one of whole frames when it falls into equal pairs.
Paired(b) ==
    /\ Len(b) = 2 * (Len(b) \div 2)
    /\ \A k \in 1 .. Len(b) \div 2 : b[2 * k - 1] = b[2 * k]

LEMMA PairedIs ==
  ASSUME NEW S, NEW b \in Seq(S)
  PROVE  Paired(b) <=> b = Parts(Whole(b))
<1> DEFINE w == Whole(b)
<1>1. /\ w \in Seq(S) /\ Len(w) = Len(b) \div 2
      /\ \A i \in 1 .. Len(b) \div 2 : w[i] = b[2 * i]
  BY WholeIs
<1> HIDE DEF w
<1> DEFINE p == Parts(w)
<1>2. /\ p \in Seq(S) /\ Len(p) = 2 * Len(w)
      /\ \A k \in 1 .. Len(w) : p[2 * k - 1] = w[k] /\ p[2 * k] = w[k]
  BY <1>1, PartsIs
<1> HIDE DEF p
<1>3. ASSUME Paired(b)
      PROVE  b = p
  <2>1. Len(p) = Len(b)
    BY <1>1, <1>2, <1>3 DEF Paired
  <2>2. \A i \in 1 .. Len(b) : p[i] = b[i]
    <3> SUFFICES ASSUME NEW i \in 1 .. Len(b)
                 PROVE  p[i] = b[i]
      OBVIOUS
    <3>1. PICK k \in 1 .. Len(w) : i = 2 * k - 1 \/ i = 2 * k
      <4> DEFINE k == (i + 1) \div 2
      <4>1. k \in 1 .. Len(w) /\ (i = 2 * k - 1 \/ i = 2 * k)
        BY <1>1, <1>3 DEF Paired
      <4> QED
        BY <4>1
    <3>2. p[i] = w[k]
      BY <1>2, <3>1
    <3>3. b[i] = b[2 * k]
      BY <1>1, <1>3, <3>1 DEF Paired
    <3> QED
      BY <1>1, <3>2, <3>3
  <2> QED
    BY <1>2, <2>1, <2>2, SeqEqual
<1>4. ASSUME b = p
      PROVE  Paired(b)
  <2>1. Len(b) = 2 * Len(w)
    BY <1>2, <1>4
  <2>2. \A k \in 1 .. Len(w) : b[2 * k - 1] = b[2 * k]
    BY <1>2, <1>4
  <2> QED
    BY <1>1, <2>1, <2>2 DEF Paired
<1> QED
  BY <1>3, <1>4 DEF p, w

LEMMA PairedParts ==
  ASSUME NEW S, NEW s \in Seq(S)
  PROVE  Paired(Parts(s)) /\ Whole(Parts(s)) = s
<1> DEFINE p == Parts(s)
<1>1. /\ p \in Seq(S) /\ Len(p) = 2 * Len(s)
      /\ \A k \in 1 .. Len(s) : p[2 * k - 1] = s[k] /\ p[2 * k] = s[k]
  BY PartsIs
<1> HIDE DEF p
<1>2. Len(p) \div 2 = Len(s)
  BY <1>1
<1>3. Paired(p)
  BY <1>1, <1>2 DEF Paired
<1>4. /\ Whole(p) \in Seq(S) /\ Len(Whole(p)) = Len(s)
      /\ \A i \in 1 .. Len(s) : Whole(p)[i] = s[i]
  <2> DEFINE w == Whole(p)
  <2>1. /\ w \in Seq(S) /\ Len(w) = Len(p) \div 2
        /\ \A i \in 1 .. Len(p) \div 2 : w[i] = p[2 * i]
    BY <1>1, WholeIs
  <2> HIDE DEF w
  <2>2. /\ w \in Seq(S) /\ Len(w) = Len(s)
        /\ \A i \in 1 .. Len(s) : w[i] = s[i]
    BY <1>1, <1>2, <2>1, Zenon
  <2> QED
    BY <2>2 DEF w
<1> QED
  BY <1>3, <1>4, SeqEqual DEF p

LEMMA PairedConcat ==
  ASSUME NEW S, NEW b \in Seq(S), NEW c \in Seq(S), Paired(b), Paired(c)
  PROVE  Paired(b \o c) /\ Whole(b \o c) = Whole(b) \o Whole(c)
<1> DEFINE v == Whole(b)
           w == Whole(c)
           d == b \o c
<1>1. /\ v \in Seq(S) /\ Len(v) = Len(b) \div 2
      /\ \A i \in 1 .. Len(b) \div 2 : v[i] = b[2 * i]
  BY WholeIs
<1>2. /\ w \in Seq(S) /\ Len(w) = Len(c) \div 2
      /\ \A i \in 1 .. Len(c) \div 2 : w[i] = c[2 * i]
  BY WholeIs
<1>3. /\ d \in Seq(S) /\ Len(d) = Len(b) + Len(c)
      /\ \A i \in 1 .. Len(b) + Len(c) : d[i] = IF i <= Len(b) THEN b[i] ELSE c[i - Len(b)]
  BY ConcatProperties
<1> HIDE DEF v, w, d
<1>4. /\ v \o w \in Seq(S) /\ Len(v \o w) = Len(v) + Len(w)
      /\ \A i \in 1 .. Len(v) + Len(w) :
            (v \o w)[i] = IF i <= Len(v) THEN v[i] ELSE w[i - Len(v)]
  BY <1>1, <1>2, ConcatProperties
<1>5. /\ Len(v) \in Nat /\ Len(w) \in Nat
      /\ Len(b) = 2 * Len(v) /\ Len(c) = 2 * Len(w)
      /\ Len(d) = 2 * (Len(v) + Len(w)) /\ Len(d) \div 2 = Len(v) + Len(w)
  <2>1. Len(v) \in Nat /\ Len(w) \in Nat
    BY <1>1, <1>2
  <2>2. Len(b) = 2 * Len(v) /\ Len(c) = 2 * Len(w)
    BY <1>1, <1>2 DEF Paired
  <2>3. Len(d) = 2 * (Len(v) + Len(w))
    BY <1>3, <2>1, <2>2
  <2> QED
    BY <2>1, <2>2, <2>3
<1>6. \A k \in 1 .. Len(v) + Len(w) :
         /\ d[2 * k - 1] = d[2 * k]
         /\ d[2 * k] = (v \o w)[k]
  <2> SUFFICES ASSUME NEW k \in 1 .. Len(v) + Len(w)
               PROVE  d[2 * k - 1] = d[2 * k] /\ d[2 * k] = (v \o w)[k]
    OBVIOUS
  <2>1. ASSUME k <= Len(v)
        PROVE  d[2 * k - 1] = d[2 * k] /\ d[2 * k] = (v \o w)[k]
    <3>1. d[2 * k - 1] = b[2 * k - 1] /\ d[2 * k] = b[2 * k]
      <4>1. 2 * k - 1 \in 1 .. Len(b) + Len(c) /\ 2 * k \in 1 .. Len(b) + Len(c)
            /\ 2 * k - 1 <= Len(b) /\ 2 * k <= Len(b)
        BY <1>5, <2>1, SMTT(30)
      <4> QED
        BY <1>3, <4>1
    <3>2. b[2 * k - 1] = b[2 * k] /\ v[k] = b[2 * k]
      BY <1>1, <1>5, <2>1 DEF Paired
    <3> QED
      BY <1>4, <2>1, <3>1, <3>2
  <2>2. ASSUME ~ (k <= Len(v))
        PROVE  d[2 * k - 1] = d[2 * k] /\ d[2 * k] = (v \o w)[k]
    <3>1. PICK j \in 1 .. Len(w) : k = Len(v) + j
      <4>1. k - Len(v) \in 1 .. Len(w) /\ k = Len(v) + (k - Len(v))
        BY <1>5, <2>2
      <4> QED
        BY <4>1
    <3>2. d[2 * k - 1] = c[2 * j - 1] /\ d[2 * k] = c[2 * j]
      <4>1. 2 * k - 1 - Len(b) = 2 * j - 1 /\ 2 * k - Len(b) = 2 * j
        BY <1>5, <3>1
      <4>2. 2 * k - 1 \in 1 .. Len(b) + Len(c) /\ 2 * k \in 1 .. Len(b) + Len(c)
            /\ ~ (2 * k - 1 <= Len(b)) /\ ~ (2 * k <= Len(b))
        <5> DEFINE m == Len(v)
                   n == Len(w)
        <5>1. m \in Nat /\ n \in Nat /\ k = m + j /\ Len(b) = 2 * m /\ Len(c) = 2 * n
              /\ j \in 1 .. n
          BY <1>5, <3>1
        <5> HIDE DEF m, n
        <5>2. 2 * k = 2 * m + 2 * j /\ j \in Nat /\ 1 <= j /\ j <= n
          BY <5>1
        <5> QED
          BY <5>1, <5>2
      <4> QED
        BY <1>3, <4>1, <4>2
    <3>3. c[2 * j - 1] = c[2 * j] /\ w[j] = c[2 * j]
      BY <1>2, <1>5, <3>1 DEF Paired
    <3>4. (v \o w)[k] = w[j]
      <4>1. k - Len(v) = j
        BY <1>5, <3>1
      <4> QED
        BY <1>4, <2>2, <4>1
    <3> QED
      BY <3>2, <3>3, <3>4
  <2> QED
    BY <2>1, <2>2
<1>7. Paired(d)
  BY <1>5, <1>6 DEF Paired
<1>8. /\ Whole(d) \in Seq(S) /\ Len(Whole(d)) = Len(v) + Len(w)
      /\ \A i \in 1 .. Len(v) + Len(w) : Whole(d)[i] = d[2 * i]
  BY <1>3, <1>5, WholeIs
<1>9. \A i \in 1 .. Len(Whole(d)) : Whole(d)[i] = (v \o w)[i]
  BY <1>6, <1>8
<1>10. Whole(d) = v \o w
  BY <1>4, <1>8, <1>9, SeqEqual
<1> QED
  BY <1>7, <1>10 DEF v, w, d

\* Whole frames are taken off the front.
LEMMA PairedRest ==
  ASSUME NEW S, NEW b \in Seq(S), Paired(b), NEW n \in 0 .. Len(b) \div 2
  PROVE  LET c == SubSeq(b, 2 * n + 1, Len(b))
             x == [i \in 1 .. n |-> b[2 * i]] IN
         /\ c \in Seq(S) /\ x \in Seq(S)
         /\ Paired(c) /\ Whole(b) = x \o Whole(c)
<1> DEFINE c == SubSeq(b, 2 * n + 1, Len(b))
           x == [i \in 1 .. n |-> b[2 * i]]
           v == Whole(b)
           w == Whole(c)
<1>0. Len(b) \in Nat /\ n \in Nat /\ 2 * n <= Len(b)
  OBVIOUS
<1>1. /\ c \in Seq(S) /\ Len(c) = Len(b) - 2 * n
      /\ \A i \in 1 .. Len(b) - 2 * n : c[i] = b[2 * n + i]
  <2>1. \A i \in 2 * n + 1 .. Len(b) : b[i] \in S
    BY <1>0
  <2>2. /\ c \in Seq(S)
        /\ Len(c) = IF 2 * n + 1 <= Len(b) THEN Len(b) - (2 * n + 1) + 1 ELSE 0
        /\ \A i \in 1 .. Len(b) - (2 * n + 1) + 1 : c[i] = b[2 * n + 1 + i - 1]
    <3> DEFINE m == 2 * n + 1
    <3>1. m \in Int /\ Len(b) \in Int
      BY <1>0
    <3> HIDE DEF m
    <3>2. \A i \in m .. Len(b) : b[i] \in S
      BY <2>1 DEF m
    <3>3. /\ SubSeq(b, m, Len(b)) \in Seq(S)
          /\ Len(SubSeq(b, m, Len(b))) = IF m <= Len(b) THEN Len(b) - m + 1 ELSE 0
          /\ \A i \in 1 .. Len(b) - m + 1 : SubSeq(b, m, Len(b))[i] = b[m + i - 1]
      BY <3>1, <3>2, SubSeqProperties
    <3> QED
      BY <3>3, Zenon DEF m
  <2>3. Len(b) - (2 * n + 1) + 1 = Len(b) - 2 * n
        /\ \A i \in 1 .. Len(b) - 2 * n : 2 * n + 1 + i - 1 = 2 * n + i
    BY <1>0
  <2>4. Len(c) = Len(b) - 2 * n
    <3>1. IF 2 * n + 1 <= Len(b) THEN TRUE ELSE Len(b) - 2 * n = 0
      BY <1>0
    <3> QED
      BY <2>2, <2>3, <3>1, Zenon
  <2> QED
    BY <2>2, <2>3, <2>4, Zenon
<1>2. /\ x \in Seq(S) /\ Len(x) = n
      /\ \A i \in 1 .. n : x[i] = b[2 * i]
  <2>1. \A i \in 1 .. n : b[2 * i] \in S
    BY <1>0
  <2> QED
    BY <1>0, <2>1
<1> HIDE DEF c, x
<1>3. /\ v \in Seq(S) /\ Len(v) = Len(b) \div 2
      /\ \A i \in 1 .. Len(b) \div 2 : v[i] = b[2 * i]
  BY WholeIs
<1>4. /\ w \in Seq(S) /\ Len(w) = Len(c) \div 2
      /\ \A i \in 1 .. Len(c) \div 2 : w[i] = c[2 * i]
  BY <1>1, WholeIs
<1> HIDE DEF v, w
<1>5. /\ Len(v) \in Nat /\ Len(w) \in Nat
      /\ Len(b) = 2 * Len(v) /\ Len(c) = 2 * Len(w) /\ Len(v) = n + Len(w)
  <2>1. Len(v) \in Nat /\ Len(w) \in Nat
    BY <1>3, <1>4
  <2>2. Len(b) = 2 * Len(v)
    BY <1>3 DEF Paired
  <2>3. Len(c) = 2 * (Len(v) - n)
    BY <1>0, <1>1, <2>1, <2>2
  <2>4. Len(w) = Len(v) - n
    BY <1>0, <1>4, <2>1, <2>2, <2>3
  <2> QED
    BY <1>0, <2>1, <2>2, <2>3, <2>4
<1>6. \A j \in 1 .. Len(w) : /\ c[2 * j - 1] = b[2 * (n + j) - 1]
                             /\ c[2 * j] = b[2 * (n + j)]
  <2> SUFFICES ASSUME NEW j \in 1 .. Len(w)
               PROVE  c[2 * j - 1] = b[2 * (n + j) - 1] /\ c[2 * j] = b[2 * (n + j)]
    OBVIOUS
  <2>1. /\ 2 * j - 1 \in 1 .. Len(b) - 2 * n /\ 2 * j \in 1 .. Len(b) - 2 * n
        /\ 2 * n + (2 * j - 1) = 2 * (n + j) - 1 /\ 2 * n + 2 * j = 2 * (n + j)
    BY <1>0, <1>5
  <2> QED
    BY <1>1, <2>1
<1>7. \A j \in 1 .. Len(w) : n + j \in 1 .. Len(b) \div 2
  BY <1>0, <1>3, <1>5
<1>8. Paired(c)
  BY <1>4, <1>5, <1>6, <1>7 DEF Paired
<1>9. /\ x \o w \in Seq(S) /\ Len(x \o w) = Len(v)
      /\ \A i \in 1 .. Len(v) : (x \o w)[i] = IF i <= n THEN x[i] ELSE w[i - n]
  <2> DEFINE y == x \o w
  <2>1. /\ y \in Seq(S) /\ Len(y) = Len(x) + Len(w)
        /\ \A i \in 1 .. Len(x) + Len(w) : y[i] = IF i <= Len(x) THEN x[i] ELSE w[i - Len(x)]
    BY <1>2, <1>4, ConcatProperties, Zenon
  <2> HIDE DEF y
  <2>2. Len(x) = n /\ Len(x) + Len(w) = Len(v)
    BY <1>2, <1>5
  <2>3. /\ y \in Seq(S) /\ Len(y) = Len(v)
        /\ \A i \in 1 .. Len(v) : y[i] = IF i <= n THEN x[i] ELSE w[i - n]
    BY <2>1, <2>2, Zenon
  <2> QED
    BY <2>3 DEF y
<1>10. \A i \in 1 .. Len(v) : v[i] = (x \o w)[i]
  <2> SUFFICES ASSUME NEW i \in 1 .. Len(v)
               PROVE  v[i] = (x \o w)[i]
    OBVIOUS
  <2>1. ASSUME i <= n
        PROVE  v[i] = (x \o w)[i]
    <3>1. i \in 1 .. n /\ i \in 1 .. Len(b) \div 2
      BY <1>0, <1>3, <2>1
    <3> QED
      BY <1>2, <1>3, <1>9, <2>1, <3>1
  <2>2. ASSUME ~ (i <= n)
        PROVE  v[i] = (x \o w)[i]
    <3>1. PICK j \in 1 .. Len(w) : i = n + j /\ i - n = j
      BY <1>0, <1>5, <2>2
    <3>2. (x \o w)[i] = w[j]
      BY <1>9, <2>2, <3>1
    <3>3. w[j] = c[2 * j]
      BY <1>4, <3>1
    <3>4. v[i] = b[2 * (n + j)]
      BY <1>3, <1>7, <3>1
    <3> QED
      BY <1>6, <3>2, <3>3, <3>4
  <2> QED
    BY <2>1, <2>2
<1>11. v = x \o w
  BY <1>3, <1>9, <1>10, SeqEqual
<1> QED
  BY <1>1, <1>2, <1>8, <1>11, Zenon DEF c, x, v, w

-----------------------------------------------------------------------------
(* Frames in the order they are sent in.                                    *)

LEMMA EarlierIsStrict ==
  ASSUME NEW f \in Frames, NEW g \in Frames
  PROVE  ~ Earlier(f, f) /\ (Earlier(f, g) => ~ Earlier(g, f))
<1>1. f.job \in Nat /\ f.n \in Nat /\ g.job \in Nat /\ g.n \in Nat
  BY EmacsAssumption DEF Frames
<1> QED
  BY <1>1 DEF Earlier

LEMMA RangeIs ==
  ASSUME NEW S, NEW q \in Seq(S)
  PROVE  /\ DOMAIN q = 1 .. Len(q) /\ Range(q) \subseteq S
         /\ Range(q) = {q[i] : i \in 1 .. Len(q)}
BY DEF Range

LEMMA InOrderConcat ==
  ASSUME NEW S, NEW q \in Seq(S), NEW r \in Seq(S)
  PROVE  /\ InOrder(q \o r) <=>
               /\ InOrder(q) /\ InOrder(r)
               /\ \A f \in Range(q), g \in Range(r) : Earlier(f, g)
         /\ Range(q \o r) = Range(q) \cup Range(r)
<1> DEFINE t == q \o r
<1>1. /\ t \in Seq(S) /\ Len(t) = Len(q) + Len(r)
      /\ \A i \in 1 .. Len(q) + Len(r) : t[i] = IF i <= Len(q) THEN q[i] ELSE r[i - Len(q)]
  BY ConcatProperties
<1> HIDE DEF t
<1>2. /\ DOMAIN q = 1 .. Len(q) /\ DOMAIN r = 1 .. Len(r)
      /\ DOMAIN t = 1 .. Len(q) + Len(r)
      /\ Len(q) \in Nat /\ Len(r) \in Nat
  BY <1>1
<1>3. \A i \in 1 .. Len(q) : i \in 1 .. Len(q) + Len(r) /\ t[i] = q[i]
  BY <1>1, <1>2
<1>4. \A j \in 1 .. Len(r) : Len(q) + j \in 1 .. Len(q) + Len(r) /\ t[Len(q) + j] = r[j]
  <2> SUFFICES ASSUME NEW j \in 1 .. Len(r)
               PROVE  Len(q) + j \in 1 .. Len(q) + Len(r) /\ t[Len(q) + j] = r[j]
    OBVIOUS
  <2>1. Len(q) + j \in 1 .. Len(q) + Len(r) /\ ~ (Len(q) + j <= Len(q))
        /\ Len(q) + j - Len(q) = j
    BY <1>2
  <2> QED
    BY <1>1, <2>1
<1>5. \A k \in 1 .. Len(q) + Len(r) :
         \/ k \in 1 .. Len(q)
         \/ \E j \in 1 .. Len(r) : k = Len(q) + j
  <2> SUFFICES ASSUME NEW k \in 1 .. Len(q) + Len(r), ~ (k \in 1 .. Len(q))
               PROVE  \E j \in 1 .. Len(r) : k = Len(q) + j
    OBVIOUS
  <2>1. k - Len(q) \in 1 .. Len(r) /\ k = Len(q) + (k - Len(q))
    BY <1>2
  <2> QED
    BY <2>1
<1>6. ASSUME InOrder(t)
      PROVE  /\ InOrder(q) /\ InOrder(r)
             /\ \A f \in Range(q), g \in Range(r) : Earlier(f, g)
  <2>1. InOrder(q)
    BY <1>2, <1>3, <1>6 DEF InOrder
  <2>2. InOrder(r)
    <3> SUFFICES ASSUME NEW i \in 1 .. Len(r), NEW j \in 1 .. Len(r), i < j
                 PROVE  Earlier(r[i], r[j])
      BY <1>2 DEF InOrder
    <3>1. Len(q) + i < Len(q) + j
      BY <1>2
    <3> QED
      BY <1>2, <1>4, <1>6, <3>1 DEF InOrder
  <2>3. ASSUME NEW i \in 1 .. Len(q), NEW j \in 1 .. Len(r)
        PROVE  Earlier(q[i], r[j])
    <3>1. i < Len(q) + j
      BY <1>2
    <3> QED
      BY <1>2, <1>3, <1>4, <1>6, <3>1 DEF InOrder
  <2> QED
    BY <1>2, <2>1, <2>2, <2>3 DEF Range
<1>7. ASSUME InOrder(q), InOrder(r), \A f \in Range(q), g \in Range(r) : Earlier(f, g)
      PROVE  InOrder(t)
  <2> SUFFICES ASSUME NEW i \in 1 .. Len(q) + Len(r), NEW j \in 1 .. Len(q) + Len(r), i < j
               PROVE  Earlier(t[i], t[j])
    BY <1>2 DEF InOrder
  <2>1. ASSUME j \in 1 .. Len(q)
        PROVE  Earlier(t[i], t[j])
    <3>1. i \in 1 .. Len(q)
      BY <1>2, <2>1
    <3> QED
      BY <1>2, <1>3, <1>7, <2>1, <3>1 DEF InOrder
  <2>2. ASSUME NEW l \in 1 .. Len(r), j = Len(q) + l
        PROVE  Earlier(t[i], t[j])
    <3>1. ASSUME i \in 1 .. Len(q)
          PROVE  Earlier(t[i], t[j])
      BY <1>2, <1>3, <1>4, <1>7, <2>2, <3>1 DEF Range
    <3>2. ASSUME NEW k \in 1 .. Len(r), i = Len(q) + k
          PROVE  Earlier(t[i], t[j])
      <4>1. k < l
        BY <1>2, <2>2, <3>2
      <4> QED
        BY <1>2, <1>4, <1>7, <2>2, <3>2, <4>1 DEF InOrder
    <3> QED
      BY <1>5, <3>1, <3>2
  <2> QED
    BY <1>5, <2>1, <2>2
<1>8. Range(t) = Range(q) \cup Range(r)
  <2>1. Range(t) \subseteq Range(q) \cup Range(r)
    <3> SUFFICES ASSUME NEW k \in 1 .. Len(q) + Len(r)
                 PROVE  t[k] \in Range(q) \/ t[k] \in Range(r)
      BY <1>2 DEF Range
    <3>1. ASSUME k \in 1 .. Len(q)
          PROVE  t[k] \in Range(q)
      BY <1>2, <1>3, <3>1 DEF Range
    <3>2. ASSUME NEW j \in 1 .. Len(r), k = Len(q) + j
          PROVE  t[k] \in Range(r)
      BY <1>2, <1>4, <3>2 DEF Range
    <3> QED
      BY <1>5, <3>1, <3>2
  <2>2. Range(q) \subseteq Range(t) /\ Range(r) \subseteq Range(t)
    BY <1>2, <1>3, <1>4 DEF Range
  <2> QED
    BY <2>1, <2>2
<1> QED
  BY <1>6, <1>7, <1>8 DEF t

\* Taking a frame out leaves the others, in order.
LEMMA InOrderRemove ==
  ASSUME NEW q \in Seq(Frames), InOrder(q), NEW k \in 1 .. Len(q)
  PROVE  /\ InOrder(RemoveAt(q, k))
         /\ Range(RemoveAt(q, k)) = Range(q) \ {q[k]}
<1> DEFINE S == Frames
           r == RemoveAt(q, k)
<1>0. \A f \in S : ~ Earlier(f, f)
  BY EarlierIsStrict
<1>. HIDE DEF S
<1>1. /\ r \in Seq(S) /\ Len(r) = Len(q) - 1
      /\ \A i \in 1 .. Len(q) - 1 : r[i] = IF i < k THEN q[i] ELSE q[i + 1]
  <2>1. q \in Seq(S)
    BY DEF S
  <2> QED
    BY <2>1, RemoveIs
<1>2. q \in Seq(S) /\ DOMAIN q = 1 .. Len(q) /\ DOMAIN r = 1 .. Len(q) - 1
      /\ Len(q) \in Nat /\ k \in Nat
  BY <1>1 DEF S
<1> HIDE DEF r
<1>3. InOrder(r)
  <2> SUFFICES ASSUME NEW i \in 1 .. Len(q) - 1, NEW j \in 1 .. Len(q) - 1, i < j
               PROVE  Earlier(r[i], r[j])
    BY <1>2 DEF InOrder
  <2>1. PICK a \in 1 .. Len(q) : r[i] = q[a] /\ a = IF i < k THEN i ELSE i + 1
    BY <1>1, <1>2
  <2>2. PICK b \in 1 .. Len(q) : r[j] = q[b] /\ b = IF j < k THEN j ELSE j + 1
    BY <1>1, <1>2
  <2>3. a < b
    BY <1>2, <2>1, <2>2
  <2> QED
    BY <1>2, <2>1, <2>2, <2>3 DEF InOrder
<1>4. Range(r) \subseteq Range(q) \ {q[k]}
  <2> SUFFICES ASSUME NEW i \in 1 .. Len(q) - 1
               PROVE  r[i] \in Range(q) /\ r[i] # q[k]
    BY <1>2 DEF Range
  <2>1. PICK a \in 1 .. Len(q) : r[i] = q[a] /\ a # k
    BY <1>1, <1>2
  <2>2. Earlier(q[a], q[k]) \/ Earlier(q[k], q[a])
    BY <1>2, <2>1 DEF InOrder
  <2>3. q[k] \in S
    BY <1>2
  <2> QED
    BY <1>0, <1>2, <2>1, <2>2, <2>3 DEF Range
<1>5. Range(q) \ {q[k]} \subseteq Range(r)
  <2> SUFFICES ASSUME NEW a \in 1 .. Len(q), a # k
               PROVE  q[a] \in Range(r)
    BY <1>2 DEF Range
  <2>1. PICK i \in 1 .. Len(q) - 1 : r[i] = q[a]
    <3>1. ASSUME a < k
          PROVE  a \in 1 .. Len(q) - 1 /\ r[a] = q[a]
      BY <1>1, <1>2, <3>1
    <3>2. ASSUME ~ (a < k)
          PROVE  a - 1 \in 1 .. Len(q) - 1 /\ r[a - 1] = q[a]
      <4>1. a - 1 \in 1 .. Len(q) - 1 /\ ~ (a - 1 < k) /\ a - 1 + 1 = a
        BY <1>2, <3>2
      <4> QED
        BY <1>1, <4>1
    <3> QED
      BY <3>1, <3>2
  <2> QED
    BY <1>2, <2>1 DEF Range
<1> QED
  BY <1>3, <1>4, <1>5 DEF r

\* The list q and the parts b hold the frames of D, in order.
Streamed(b, q, D) ==
    /\ Paired(b) /\ InOrder(q \o Whole(b)) /\ Range(q \o Whole(b)) = D

\* The list q holds the oldest of the frames of D.
Oldest(q, D) ==
    /\ InOrder(q) /\ Range(q) \subseteq D
    /\ \A f \in D, g \in Range(q) : Earlier(f, g) => f \in Range(q)

LEMMA StreamedSent ==
  ASSUME NEW b \in Seq(Frames), NEW q \in Seq(Frames), NEW D, Streamed(b, q, D),
         NEW a \in Seq(Frames), InOrder(a),
         \A f \in D, g \in Range(a) : Earlier(f, g)
  PROVE  Streamed(b \o Parts(a), q, D \cup Range(a))
<1> DEFINE S == Frames
<1> HIDE DEF S
<1>0. b \in Seq(S) /\ q \in Seq(S) /\ a \in Seq(S)
  BY DEF S
<1>1. Parts(a) \in Seq(S) /\ Paired(Parts(a)) /\ Whole(Parts(a)) = a
  BY <1>0, PartsIs, PairedParts
<1>2. Paired(b \o Parts(a)) /\ Whole(b \o Parts(a)) = Whole(b) \o a
  BY <1>0, <1>1, PairedConcat DEF Streamed
<1>3. Whole(b) \in Seq(S)
  BY <1>0, WholeIs
<1>4. q \o Whole(b) \in Seq(S) /\ q \o (Whole(b) \o a) = (q \o Whole(b)) \o a
  <2>1. q \o Whole(b) \in Seq(S)
    BY <1>0, <1>3, ConcatProperties, Zenon
  <2>2. (q \o Whole(b)) \o a = q \o (Whole(b) \o a)
    <3>1. Cat(Cat(q, Whole(b)), a) = Cat(q, Cat(Whole(b), a))
      BY <1>0, <1>3, CatAssoc
    <3> QED
      BY <3>1 DEF Cat
  <2> QED
    BY <2>1, <2>2, Zenon
<1> DEFINE u == q \o Whole(b)
<1>5. Paired(b) /\ InOrder(u) /\ Range(u) = D
  BY DEF Streamed
<1> HIDE DEF u
<1>6. InOrder(u \o a) /\ Range(u \o a) = D \cup Range(a)
  <2>1. u \in Seq(S) /\ a \in Seq(S)
    BY <1>0, <1>4 DEF u
  <2> QED
    BY <1>5, <2>1, InOrderConcat, Zenon
<1>7. q \o Whole(b \o Parts(a)) = u \o a
  BY <1>2, <1>4, Zenon DEF u
<1> QED
  BY <1>2, <1>6, <1>7, Zenon DEF Streamed

LEMMA StreamedReturned ==
  ASSUME NEW b \in Seq(Frames), NEW q \in Seq(Frames), NEW D, Streamed(b, q, D),
         NEW k \in 1 .. Len(q)
  PROVE  Streamed(b, RemoveAt(q, k), D \ {q[k]})
<1> DEFINE S == Frames
<1>0. \A f \in S : ~ Earlier(f, f)
  BY EarlierIsStrict
<1>1. InOrder(q) => /\ InOrder(RemoveAt(q, k))
                    /\ Range(RemoveAt(q, k)) = Range(q) \ {q[k]}
  BY InOrderRemove
<1> HIDE DEF S
<1>2. b \in Seq(S) /\ q \in Seq(S)
  BY DEF S
<1>3. Whole(b) \in Seq(S) /\ RemoveAt(q, k) \in Seq(S)
  BY <1>2, WholeIs, RemoveIs
<1>4. /\ InOrder(q) /\ InOrder(Whole(b)) /\ D = Range(q) \cup Range(Whole(b))
      /\ \A f \in Range(q), g \in Range(Whole(b)) : Earlier(f, g)
  BY <1>2, <1>3, InOrderConcat DEF Streamed
<1>5. q[k] \in Range(q) /\ q[k] \in S
  BY <1>2, RangeIs
<1>6. q[k] \notin Range(Whole(b))
  BY <1>0, <1>4, <1>5
<1>7. Range(RemoveAt(q, k)) \cup Range(Whole(b)) = D \ {q[k]}
  BY <1>1, <1>4, <1>6
<1> QED
  BY <1>1, <1>3, <1>4, <1>7, InOrderConcat DEF Streamed

LEMMA StreamedDecoded ==
  ASSUME NEW b \in Seq(Frames), NEW q \in Seq(Frames), NEW D, Streamed(b, q, D),
         NEW n \in 0 .. Len(b) \div 2
  PROVE  Streamed(SubSeq(b, 2 * n + 1, Len(b)), q \o [i \in 1 .. n |-> b[2 * i]], D)
<1> DEFINE S == Frames
           c == SubSeq(b, 2 * n + 1, Len(b))
           x == [i \in 1 .. n |-> b[2 * i]]
<1> HIDE DEF S
<1>1. b \in Seq(S) /\ q \in Seq(S)
  BY DEF S
<1>2. c \in Seq(S) /\ x \in Seq(S) /\ Paired(c) /\ Whole(b) = x \o Whole(c)
  BY <1>1, PairedRest DEF Streamed
<1> HIDE DEF c, x
<1>3. Whole(c) \in Seq(S)
  BY <1>2, WholeIs
<1>4. q \o (x \o Whole(c)) = (q \o x) \o Whole(c)
  <2> DEFINE w == Whole(c)
  <2>1. q \in Seq(S) /\ x \in Seq(S) /\ w \in Seq(S)
    BY <1>1, <1>2, <1>3
  <2> HIDE DEF w
  <2>2. (q \o x) \o w = q \o (x \o w)
    <3>1. Cat(Cat(q, x), w) = Cat(q, Cat(x, w))
      BY <2>1, CatAssoc
    <3> QED
      BY <3>1 DEF Cat
  <2> QED
    BY <2>2, Zenon DEF w
<1>5. Streamed(c, q \o x, D)
  BY <1>2, <1>4 DEF Streamed
<1> QED
  BY <1>5 DEF c, x

LEMMA StreamedOldest ==
  ASSUME NEW b \in Seq(Frames), NEW q \in Seq(Frames), NEW D, Streamed(b, q, D)
  PROVE  Oldest(q, D)
<1> DEFINE S == Frames
<1>0. \A f, g \in S : Earlier(f, g) => ~ Earlier(g, f)
  BY EarlierIsStrict
<1> HIDE DEF S
<1>1. b \in Seq(S) /\ q \in Seq(S)
  BY DEF S
<1>2. Whole(b) \in Seq(S)
  BY <1>1, WholeIs
<1>3. /\ InOrder(q) /\ D = Range(q) \cup Range(Whole(b))
      /\ \A f \in Range(q), g \in Range(Whole(b)) : Earlier(f, g)
  BY <1>1, <1>2, InOrderConcat DEF Streamed
<1>4. Range(q) \subseteq S /\ Range(Whole(b)) \subseteq S
  BY <1>1, <1>2, RangeIs
<1> QED
  BY <1>0, <1>3, <1>4 DEF Oldest

LEMMA OldestReturned ==
  ASSUME NEW q \in Seq(Frames), NEW D, Oldest(q, D), NEW k \in 1 .. Len(q)
  PROVE  Oldest(RemoveAt(q, k), D \ {q[k]})
<1>1. InOrder(RemoveAt(q, k)) /\ Range(RemoveAt(q, k)) = Range(q) \ {q[k]}
  BY InOrderRemove DEF Oldest
<1> QED
  BY <1>1 DEF Oldest

-----------------------------------------------------------------------------
(* The inductive invariant.                                                 *)

TypeInv ==
    /\ conn \in 0 .. MaxConns /\ live \in BOOLEAN
    /\ wire \in Seq(Frames) /\ buffer \in Seq(Frames) /\ frames \in Seq(Frames)
    /\ next_id \in 1 .. MaxEvals + 1
    /\ phase \in Phases /\ pending \in 0 .. MaxEvals
    /\ jobs \in Seq(Requests) /\ call \in 0 .. Len(jobs)
    /\ shown \in Seq(1 .. MaxDisplays)
    /\ last \in Returns \cup {None} /\ taken \subseteq Frames

\* What the running command is doing.
PhaseInv ==
    /\ phase = "idle" => pending = 0
    /\ live => conn >= 1
    /\ phase = "connect" => ~ live /\ Len(jobs) + 2 <= MaxJobs
    /\ phase \in {"scan", "wait"} =>
          /\ call = Len(jobs) /\ call >= 1 /\ jobs[call].conn = conn
          /\ pending # 0 => Len(jobs) + 1 <= MaxJobs

\* Connections follow one another, and no two evaluations have the same id.
JobsInv ==
    /\ Len(jobs) <= MaxJobs /\ pending < next_id
    /\ \A i, j \in DOMAIN jobs : i <= j => jobs[i].conn <= jobs[j].conn
    /\ \A j \in DOMAIN jobs : jobs[j].conn <= conn
    /\ \A j \in DOMAIN jobs : jobs[j].kind = "eval" =>
          jobs[j].id < next_id /\ jobs[j].id # pending /\ jobs[j].id >= 1
    /\ \A i, j \in DOMAIN jobs :
          jobs[i].kind = "eval" /\ jobs[j].kind = "eval" /\ jobs[i].id = jobs[j].id
             => i = j

\* Nothing of the request that waits has been returned.
TakenInv ==
    /\ \A f \in taken : f.job \in DOMAIN jobs
    /\ phase \in {"scan", "wait"} => \A f \in taken : f.job < call

\* The list holds the oldest frames that were not returned; with the
\* connection, as long as it lives, it holds them all.
ListInv == Oldest(Reverse(frames), Due \ taken)
StreamInv == live => Streamed(buffer \o wire, Reverse(frames), Due \ taken)

ReturnInv ==
    /\ last # None => last.job \in DOMAIN jobs
    /\ AnswersItsOwn /\ OutputComplete

EInv ==
    /\ TypeInv /\ PhaseInv /\ JobsInv /\ TakenInv
    /\ ListInv /\ StreamInv /\ ReturnInv

-----------------------------------------------------------------------------
(* What the daemon answers.                                                 *)

LastKind(r) == IF r.big THEN "oversized" ELSE "eval-result"

LEMMA FrameIs ==
  ASSUME NEW j \in 1 .. MaxJobs, NEW kind \in Kinds, NEW n \in 0 .. MaxDisplays
  PROVE  /\ Frame(j, kind, n) \in Frames
         /\ Frame(j, kind, n).job = j /\ Frame(j, kind, n).kind = kind
         /\ Frame(j, kind, n).n = n
BY DEF Frame, Frames

LEMMA RequestIs ==
  ASSUME NEW r \in Requests
  PROVE  /\ r.kind \in {"hello", "eval"} /\ r.id \in 0 .. MaxEvals
         /\ r.displays \in 0 .. MaxDisplays /\ r.displays \in Nat
         /\ r.big \in BOOLEAN /\ r.conn \in 1 .. MaxConns
<1>1. /\ r.kind \in {"hello", "eval"} /\ r.id \in 0 .. MaxEvals
      /\ r.displays \in 0 .. MaxDisplays /\ r.big \in BOOLEAN
      /\ r.conn \in 1 .. MaxConns
  BY DEF Requests
<1> QED
  BY <1>1, EmacsAssumption

LEMMA AnswerIs ==
  ASSUME NEW r \in Requests, NEW j \in 1 .. MaxJobs
  PROVE  /\ Answer(r, j) \in Seq(Frames) /\ InOrder(Answer(r, j))
         /\ \A f \in Range(Answer(r, j)) : f.job = j
         /\ r.kind = "hello" => Range(Answer(r, j)) = {Frame(j, "hello-ack", 0)}
         /\ r.kind = "eval" =>
               Range(Answer(r, j)) =
                  {Frame(j, "display", n) : n \in 1 .. r.displays}
                     \cup {Frame(j, LastKind(r), 0)}
<1> DEFINE S == Frames
           a == Answer(r, j)
           d == r.displays
           l == Frame(j, LastKind(r), 0)
           x == [n \in 1 .. d |-> Frame(j, "display", n)]
<1>1. /\ d \in Nat /\ d <= MaxDisplays /\ j \in Nat /\ r.kind \in {"hello", "eval"}
      /\ 0 \in 0 .. MaxDisplays /\ \A n \in 1 .. d : n \in 0 .. MaxDisplays
  BY RequestIs, EmacsAssumption
<1>2. /\ l \in S /\ l.job = j /\ l.kind # "display"
  <2>1. LastKind(r) \in Kinds /\ LastKind(r) # "display"
    BY DEF LastKind, Kinds
  <2> QED
    BY <1>1, <2>1, FrameIs
<1>3. /\ Frame(j, "hello-ack", 0) \in S /\ Frame(j, "hello-ack", 0).job = j
  BY <1>1, FrameIs DEF Kinds
<1>4. \A n \in 1 .. d : /\ Frame(j, "display", n) \in S
                        /\ Frame(j, "display", n).job = j
                        /\ Frame(j, "display", n).kind = "display"
                        /\ Frame(j, "display", n).n = n
  BY <1>1, FrameIs DEF Kinds
<1>5. ASSUME r.kind = "hello"
      PROVE  /\ a \in Seq(S) /\ InOrder(a)
             /\ Range(a) = {Frame(j, "hello-ack", 0)}
  <2> DEFINE h == Frame(j, "hello-ack", 0)
  <2>1. a = <<h>>
    BY <1>5 DEF Answer
  <2>2. h \in S
    BY <1>3
  <2> HIDE DEF S, h, a
  <2>3. a \in Seq(S) /\ DOMAIN a = 1 .. 1 /\ a[1] = h
    BY <2>1, <2>2
  <2>4. InOrder(a)
    BY <2>3 DEF InOrder
  <2>5. Range(a) = {h}
    BY <2>3 DEF Range
  <2> QED
    BY <2>3, <2>4, <2>5 DEF h
<1>6. ASSUME r.kind = "eval"
      PROVE  /\ a \in Seq(S) /\ InOrder(a)
             /\ Range(a) = {Frame(j, "display", n) : n \in 1 .. d} \cup {l}
  <2>1. a = Append(x, l)
    BY <1>6 DEF Answer, LastKind
  <2>2. x = [n \in 1 .. d |-> Frame(j, "display", n)]
    OBVIOUS
  <2> HIDE DEF S, l, a, x, d
  <2>3. x \in Seq(S) /\ Len(x) = d /\ \A n \in 1 .. d : x[n] = Frame(j, "display", n)
    BY <1>1, <1>4, <2>2
  <2>4. /\ a \in Seq(S) /\ DOMAIN a = 1 .. d + 1
        /\ \A n \in 1 .. d : a[n] = Frame(j, "display", n)
        /\ a[d + 1] = l
    BY <1>1, <1>2, <2>1, <2>3
  <2>5. InOrder(a)
    <3> SUFFICES ASSUME NEW i \in 1 .. d + 1, NEW k \in 1 .. d + 1, i < k
                 PROVE  Earlier(a[i], a[k])
      BY <2>4 DEF InOrder
    <3>1. i \in 1 .. d /\ i \in Nat /\ k \in Nat
      BY <1>1
    <3>2. a[i].job = j /\ a[i].kind = "display" /\ a[i].n = i
      BY <1>4, <2>4, <3>1
    <3>3. ASSUME k \in 1 .. d
          PROVE  a[k].job = j /\ a[k].n = k
      BY <1>4, <2>4, <3>3
    <3>4. ASSUME k = d + 1
          PROVE  a[k].job = j /\ a[k].kind # "display"
      BY <1>2, <2>4, <3>4
    <3>5. k \in 1 .. d \/ k = d + 1
      BY <1>1
    <3> QED
      BY <3>2, <3>3, <3>4, <3>5 DEF Earlier
  <2>6. Range(a) = {a[n] : n \in 1 .. d} \cup {a[d + 1]}
    <3>1. \A n : n \in 1 .. d + 1 <=> n \in 1 .. d \/ n = d + 1
      BY <1>1
    <3> QED
      BY <2>4, <3>1 DEF Range
  <2>7. {a[n] : n \in 1 .. d} = {Frame(j, "display", n) : n \in 1 .. d}
    BY <2>4
  <2> QED
    BY <2>4, <2>5, <2>6, <2>7
<1>7. \A f \in Range(a) : f.job = j
  BY <1>1, <1>2, <1>3, <1>4, <1>5, <1>6
<1> QED
  BY <1>1, <1>5, <1>6, <1>7

-----------------------------------------------------------------------------
(* What a pass over the list shows.                                         *)

LEMMA DisplaysIs ==
  ASSUME NEW q \in Seq(Frames)
  PROVE  /\ Displays(q, 0) = <<>>
         /\ \A m \in 1 .. Len(q) :
               Displays(q, m) =
                  IF Mine(q[m]) THEN Append(Displays(q, m - 1), q[m].n)
                  ELSE Displays(q, m - 1)
<1> DEFINE G(f, i) == IF i = 0 THEN <<>>
                      ELSE IF Mine(q[i]) THEN Append(f[i - 1], q[i].n) ELSE f[i - 1]
           Shows(f, m) == f = [i \in 0 .. m |-> G(f, i)]
           T == {m \in Nat : ~ \E f : Shows(f, m)}
<1>1. T = {}
  <2> SUFFICES ASSUME T # {}
               PROVE  FALSE
    OBVIOUS
  <2>1. PICK m \in T : \A y \in T : m <= y
    BY LeastNumber
  <2>2. m \in Nat
    OBVIOUS
  <2>3. ASSUME m = 0
        PROVE  FALSE
    <3> DEFINE f == [i \in 0 .. 0 |-> <<>>]
    <3>1. f = [i \in 0 .. 0 |-> G(f, i)]
      OBVIOUS
    <3> QED
      BY <2>3, <3>1
  <2>4. ASSUME m # 0
        PROVE  FALSE
    <3>1. m - 1 \in Nat /\ ~ (m <= m - 1)
      BY <2>2, <2>4
    <3>2. PICK f : Shows(f, m - 1)
      BY <2>1, <3>1
    <3> DEFINE g == [i \in 0 .. m |-> IF i < m THEN f[i] ELSE G(f, m)]
    <3>3. \A i \in 0 .. m - 1 : i \in 0 .. m /\ i < m /\ f[i] = G(f, i)
      <4>1. f = [i \in 0 .. m - 1 |-> G(f, i)]
        BY <3>2
      <4>2. \A i \in 0 .. m - 1 : i \in 0 .. m /\ i < m
        BY <2>2
      <4> HIDE DEF G
      <4> QED
        BY <4>1, <4>2
    <3>4. \A i \in 0 .. m - 1 : g[i] = f[i]
      BY <3>3
    <3>5. \A i \in 0 .. m : g[i] = G(g, i)
      <4> SUFFICES ASSUME NEW i \in 0 .. m
                   PROVE  g[i] = G(g, i)
        OBVIOUS
      <4>1. i = 0 \/ i - 1 \in 0 .. m - 1
        BY <2>2
      <4>2. G(g, i) = G(f, i)
        BY <3>4, <4>1
      <4>3. i \in 0 .. m - 1 \/ i = m
        BY <2>2
      <4>4. g[i] = G(f, i)
        <5>1. ASSUME i \in 0 .. m - 1
              PROVE  g[i] = G(f, i)
          BY <3>3, <3>4, <5>1
        <5>2. ASSUME i = m
              PROVE  g[i] = G(f, i)
          BY <2>2, <5>2
        <5> QED
          BY <4>3, <5>1, <5>2
      <4> QED
        BY <4>2, <4>4
    <3>6. g = [i \in 0 .. m |-> G(g, i)]
      <4> HIDE DEF G
      <4> QED
        BY <3>5
    <3> QED
      BY <3>6
  <2> QED
    BY <2>3, <2>4
<1> DEFINE show == CHOOSE f : Shows(f, Len(q))
<1>2. Len(q) \in Nat
  OBVIOUS
<1>3. \E f : Shows(f, Len(q))
  BY <1>1, <1>2, Zenon
<1>4. Shows(show, Len(q))
  BY <1>3, Zenon
<1>5. \A m : Displays(q, m) = show[m]
  BY DEF Displays
<1>6. \A i \in 0 .. Len(q) : show[i] = G(show, i)
  <2> HIDE DEF G, show
  <2> QED
    BY <1>4
<1> HIDE DEF show
<1>7. 0 \in 0 .. Len(q) /\ \A m \in 1 .. Len(q) : m \in 0 .. Len(q) /\ m # 0
  BY <1>2
<1> QED
  BY <1>5, <1>6, <1>7

-----------------------------------------------------------------------------
(* The frames due.                                                          *)

LEMMA DueIs ==
  ASSUME TypeInv, JobsInv, NEW f \in Due
  PROVE  /\ f \in Frames /\ f.job \in DOMAIN jobs /\ f.job \in Nat
         /\ jobs[f.job] \in Requests /\ jobs[f.job].conn = conn
         /\ jobs[f.job].kind = "hello" => f = Frame(f.job, "hello-ack", 0)
         /\ jobs[f.job].kind = "eval" =>
               \/ /\ f.kind = "display" /\ f.n \in 1 .. jobs[f.job].displays
                  /\ f = Frame(f.job, "display", f.n)
               \/ f.kind = LastKind(jobs[f.job]) /\ f = Frame(f.job, f.kind, 0)
<1>1. PICK j \in DOMAIN jobs : jobs[j].conn = conn /\ f \in Range(Answer(jobs[j], j))
  BY DEF Due
<1>2. /\ f \in Frames /\ jobs[j] \in Requests /\ j \in 1 .. MaxJobs /\ j \in Nat
  BY <1>1, EmacsAssumption DEF Due, TypeInv, JobsInv
<1>3. f.job = j
  BY <1>1, <1>2, AnswerIs
<1>4. ASSUME jobs[j].kind = "hello"
      PROVE  f = Frame(j, "hello-ack", 0)
  BY <1>1, <1>2, <1>4, AnswerIs
<1>5. ASSUME jobs[j].kind = "eval"
      PROVE  \/ /\ f.kind = "display" /\ f.n \in 1 .. jobs[j].displays
                /\ f = Frame(j, "display", f.n)
             \/ f.kind = LastKind(jobs[j]) /\ f = Frame(j, f.kind, 0)
  <2>1. \/ \E n \in 1 .. jobs[j].displays : f = Frame(j, "display", n)
        \/ f = Frame(j, LastKind(jobs[j]), 0)
    BY <1>1, <1>2, <1>5, AnswerIs
  <2> QED
    BY <2>1 DEF Frame
<1> QED
  BY <1>1, <1>2, <1>3, <1>4, <1>5

LEMMA DueSame ==
  ASSUME jobs' = jobs, conn' = conn
  PROVE  Due' = Due
BY DEF Due

\* A request adds its answers to those due, behind them.
LEMMA DueSent ==
  ASSUME TypeInv, JobsInv, NEW r \in Requests, Len(jobs) + 1 <= MaxJobs,
         jobs' = Append(jobs, r), conn' = conn, r.conn = conn
  PROVE  LET a == Answer(r, Len(jobs) + 1) IN
         /\ a \in Seq(Frames) /\ InOrder(a)
         /\ \A f \in Range(a) : f.job = Len(jobs) + 1
         /\ Due' = Due \cup Range(a)
         /\ \A f \in Due, g \in Range(a) : Earlier(f, g)
<1> DEFINE l == Len(jobs) + 1
           a == Answer(r, l)
<1>1. /\ l \in 1 .. MaxJobs /\ l \in Nat /\ Len(jobs) \in Nat
      /\ DOMAIN jobs = 1 .. Len(jobs)
  BY EmacsAssumption DEF TypeInv
<1>2. a \in Seq(Frames) /\ InOrder(a) /\ \A f \in Range(a) : f.job = l
  BY <1>1, AnswerIs
<1>3. Range(a) \subseteq Frames
  <2> DEFINE S == Frames
  <2>1. a \in Seq(S)
    BY <1>2
  <2> HIDE DEF S, a
  <2>2. Range(a) \subseteq S
    BY <2>1, RangeIs
  <2> QED
    BY <2>2 DEF S
<1>4. /\ DOMAIN jobs' = 1 .. l /\ jobs'[l] = r
      /\ \A j \in 1 .. Len(jobs) : jobs'[j] = jobs[j]
  <2> DEFINE R == Requests
  <2>1. jobs \in Seq(R) /\ r \in R
    BY DEF TypeInv
  <2> HIDE DEF R
  <2> QED
    BY <2>1
<1>5. \A j : j \in 1 .. l <=> j \in 1 .. Len(jobs) \/ j = l
  BY <1>1
<1>6. Due' = Due \cup Range(a)
  <2>1. ASSUME NEW f \in Frames
        PROVE  (\E j \in 1 .. l : jobs'[j].conn = conn /\ f \in Range(Answer(jobs'[j], j)))
               <=> \/ \E j \in 1 .. Len(jobs) : /\ jobs[j].conn = conn
                                             /\ f \in Range(Answer(jobs[j], j))
                   \/ f \in Range(a)
    BY <1>4, <1>5
  <2> QED
    BY <1>1, <1>3, <1>4, <2>1 DEF Due
<1>7. ASSUME NEW f \in Due, NEW g \in Range(a)
      PROVE  Earlier(f, g)
  <2>1. f.job \in 1 .. Len(jobs)
    BY <1>1, DueIs
  <2>2. g.job = l /\ f.job < l
    BY <1>1, <1>2, <2>1
  <2> QED
    BY <2>2 DEF Earlier
<1> QED
  BY <1>2, <1>6, <1>7

LEMMA StreamSent ==
  ASSUME TypeInv, JobsInv, NEW r \in Requests, Len(jobs) + 1 <= MaxJobs,
         jobs' = Append(jobs, r), conn' = conn, r.conn = conn,
         buffer' = buffer, wire' = wire \o Parts(Answer(r, Len(jobs) + 1)),
         NEW q \in Seq(Frames), NEW returned, \A f \in returned : f.job \in DOMAIN jobs,
         Streamed(buffer \o wire, q, Due \ returned)
  PROVE  /\ Streamed(buffer' \o wire', q, Due' \ returned)
         /\ wire' \in Seq(Frames)
<1> DEFINE a == Answer(r, Len(jobs) + 1)
           b == buffer \o wire
<1>1. /\ a \in Seq(Frames) /\ InOrder(a)
      /\ \A f \in Range(a) : f.job = Len(jobs) + 1
      /\ Due' = Due \cup Range(a)
      /\ \A f \in Due, g \in Range(a) : Earlier(f, g)
  BY DueSent
<1>2. \A f \in Range(a) : f \notin returned
  <2>1. Len(jobs) \in Nat /\ ~ (Len(jobs) + 1 \in 1 .. Len(jobs)) /\ DOMAIN jobs = 1 .. Len(jobs)
    BY DEF TypeInv
  <2> QED
    BY <1>1, <2>1
<1>3. Due' \ returned = (Due \ returned) \cup Range(a)
  BY <1>1, <1>2
<1>4. wire \in Seq(Frames) /\ buffer \in Seq(Frames)
  BY DEF TypeInv
<1> DEFINE p == Parts(a)
<1>5. p \in Seq(Frames)
  BY <1>1, PartsIs
<1>6. b \in Seq(Frames) /\ wire \o p \in Seq(Frames) /\ buffer \o (wire \o p) = b \o p
  <2> DEFINE S == Frames
  <2>1. wire \in Seq(S) /\ buffer \in Seq(S) /\ p \in Seq(S)
    BY <1>4, <1>5
  <2> HIDE DEF S, p
  <2>2. (buffer \o wire) \o p = buffer \o (wire \o p)
    <3>1. Cat(Cat(buffer, wire), p) = Cat(buffer, Cat(wire, p))
      BY <2>1, CatAssoc
    <3> QED
      BY <3>1 DEF Cat
  <2>3. b \in Seq(S) /\ wire \o p \in Seq(S)
    BY <2>1, ConcatProperties
  <2> QED
    BY <2>2, <2>3 DEF S
<1>7. Streamed(b \o p, q, (Due \ returned) \cup Range(a))
  <2> HIDE DEF a, b
  <2> QED
    BY <1>1, <1>6, StreamedSent DEF b
<1> QED
  BY <1>3, <1>6, <1>7

-----------------------------------------------------------------------------
(* What the waiting evaluation finds.                                       *)

\* The running command's own frames are told by the id.
LEMMA OwnFrames ==
  ASSUME TypeInv, JobsInv, call \in DOMAIN jobs, jobs[call].kind = "eval", NEW f \in Due
  PROVE  /\ Mine(f) <=> f.job = call /\ f.kind = "display"
         /\ Wanted(f) => f.job = call /\ f.kind = "eval-result"
<1>1. /\ f.job \in DOMAIN jobs /\ jobs[f.job] \in Requests
      /\ jobs[f.job].kind = "hello" => f = Frame(f.job, "hello-ack", 0)
  BY DueIs
<1>2. ASSUME f.kind \in {"display", "eval-result"}
      PROVE  jobs[f.job].kind = "eval"
  <2>1. f # Frame(f.job, "hello-ack", 0)
    BY <1>2 DEF Frame
  <2> QED
    BY <1>1, <2>1, RequestIs
<1>3. ASSUME f.kind \in {"display", "eval-result"}
      PROVE  Id(f) = jobs[call].id <=> f.job = call
  BY <1>1, <1>2, <1>3 DEF Id, JobsInv
<1>4. Mine(f) <=> f.job = call /\ f.kind = "display"
  BY <1>3 DEF Mine
<1>5. Wanted(f) => f.job = call /\ f.kind = "eval-result"
  BY <1>3 DEF Wanted
<1> QED
  BY <1>4, <1>5

\* What a pass shows is display numbers.
LEMMA DisplaysType ==
  ASSUME TypeInv, JobsInv, NEW q \in Seq(Frames), Range(q) \subseteq Due,
         NEW k \in 0 .. Len(q), call \in DOMAIN jobs
  PROVE  Displays(q, k) \in Seq(1 .. MaxDisplays)
<1> DEFINE N == 1 .. MaxDisplays
           T == {m \in Nat : m <= Len(q) /\ Displays(q, m) \notin Seq(N)}
<1>1. Len(q) \in Nat /\ DOMAIN q = 1 .. Len(q)
  OBVIOUS
<1>2. ASSUME T # {}
      PROVE  FALSE
  <2>1. PICK m \in T : \A y \in T : m <= y
    BY <1>2, LeastNumber
  <2>2. m \in Nat /\ m <= Len(q) /\ Displays(q, m) \notin Seq(N)
    OBVIOUS
  <2>3. m # 0
    <3>1. <<>> \in Seq(N)
      OBVIOUS
    <3> QED
      BY <2>2, <3>1, DisplaysIs
  <2>4. /\ m \in 1 .. Len(q) /\ m - 1 \in Nat /\ m - 1 <= Len(q) /\ ~ (m <= m - 1)
    BY <1>1, <2>2, <2>3
  <2>5. Displays(q, m - 1) \in Seq(N)
    BY <2>1, <2>4
  <2>6. q[m] \in Due
    BY <1>1, <2>4 DEF Range
  <2>7. ASSUME Mine(q[m])
        PROVE  q[m].n \in N
    <3>1. q[m].kind = "display" /\ q[m].job = call /\ jobs[call].kind = "eval"
      BY <2>6, <2>7, OwnFrames DEF Mine
    <3>2. jobs[call] \in Requests
      BY DEF TypeInv
    <3>3. LastKind(jobs[call]) # "display"
      BY DEF LastKind
    <3>4. q[m].n \in 1 .. jobs[call].displays
      BY <2>6, <3>1, <3>3, DueIs
    <3>5. jobs[call].displays \in Nat /\ jobs[call].displays <= MaxDisplays
      BY <3>2, RequestIs, EmacsAssumption
    <3> QED
      BY <3>4, <3>5, EmacsAssumption
  <2>8. ASSUME Mine(q[m])
        PROVE  Displays(q, m) \in Seq(N)
    <3>1. Displays(q, m) = Append(Displays(q, m - 1), q[m].n)
      BY <2>4, <2>8, DisplaysIs
    <3> HIDE DEF N
    <3> QED
      BY <2>5, <2>7, <2>8, <3>1
  <2>9. ASSUME ~ Mine(q[m])
        PROVE  Displays(q, m) \in Seq(N)
    BY <2>4, <2>5, <2>9, DisplaysIs
  <2> QED
    BY <2>2, <2>8, <2>9
<1>3. k \in Nat /\ k <= Len(q)
  BY <1>1
<1> QED
  BY <1>2, <1>3

\* Before the result of the waiting evaluation stands all it displayed.
LEMMA DisplaysAll ==
  ASSUME TypeInv, JobsInv, NEW q \in Seq(Frames), Oldest(q, Due \ taken),
         call \in DOMAIN jobs, jobs[call].kind = "eval", jobs[call].conn = conn,
         \A f \in taken : f.job < call,
         NEW k \in 1 .. Len(q), Wanted(q[k])
  PROVE  Displays(q, k - 1) = [n \in 1 .. jobs[call].displays |-> n]
<1> DEFINE d == jobs[call].displays
           D(n) == Frame(call, "display", n)
           Seen(m, n) == \E i \in 1 .. m : q[i] = D(n)
           P(m) == \E c \in 0 .. d :
                      /\ Displays(q, m) = [n \in 1 .. c |-> n]
                      /\ \A n \in 1 .. d : Seen(m, n) <=> n <= c
           T == {m \in Nat : m <= k - 1 /\ ~ P(m)}
<1>1. /\ Len(q) \in Nat /\ DOMAIN q = 1 .. Len(q) /\ k \in Nat
      /\ jobs[call] \in Requests /\ d \in Nat /\ d <= MaxDisplays
      /\ call \in 1 .. MaxJobs /\ call \in Nat
  <2>1. jobs[call] \in Requests
    BY DEF TypeInv
  <2>2. call \in 1 .. MaxJobs
    BY EmacsAssumption DEF TypeInv, JobsInv
  <2> QED
    BY <2>1, <2>2, RequestIs, EmacsAssumption
<1>2. /\ \A i \in 1 .. Len(q) : q[i] \in Due /\ q[i] \in Frames /\ q[i] \in Range(q)
      /\ \A i, j \in 1 .. Len(q) : i < j => Earlier(q[i], q[j])
  <2>1. \A i \in 1 .. Len(q) : q[i] \in Range(q)
    BY <1>1 DEF Range
  <2> QED
    BY <1>1, <2>1 DEF Oldest, InOrder
<1>3. \A n \in 1 .. d : /\ D(n) \in Frames /\ D(n).job = call
                        /\ D(n).kind = "display" /\ D(n).n = n
                        /\ D(n) \in Due \ taken
  <2> SUFFICES ASSUME NEW n \in 1 .. d
               PROVE  /\ D(n) \in Frames /\ D(n).job = call
                      /\ D(n).kind = "display" /\ D(n).n = n
                      /\ D(n) \in Due \ taken
    OBVIOUS
  <2>1. /\ D(n) \in Frames /\ D(n).job = call
        /\ D(n).kind = "display" /\ D(n).n = n
    <3>1. n \in 0 .. MaxDisplays
      BY <1>1, EmacsAssumption
    <3> QED
      BY <1>1, <3>1, FrameIs DEF Kinds
  <2>2. D(n) \in Range(Answer(jobs[call], call))
    BY <1>1, AnswerIs
  <2>3. D(n) \in Due
    BY <2>1, <2>2 DEF Due
  <2>4. D(n) \notin taken
    BY <1>1, <2>1
  <2> QED
    BY <2>1, <2>3, <2>4
<1>4. \A i \in 1 .. Len(q) : Mine(q[i]) <=> \E n \in 1 .. d : q[i] = D(n)
  <2> SUFFICES ASSUME NEW i \in 1 .. Len(q)
               PROVE  Mine(q[i]) <=> \E n \in 1 .. d : q[i] = D(n)
    OBVIOUS
  <2>1. Mine(q[i]) <=> q[i].job = call /\ q[i].kind = "display"
    BY <1>2, OwnFrames
  <2>2. ASSUME q[i].job = call, q[i].kind = "display"
        PROVE  \E n \in 1 .. d : q[i] = D(n)
    <3>1. LastKind(jobs[call]) # "display"
      BY DEF LastKind
    <3> QED
      BY <1>2, <2>2, <3>1, DueIs
  <2> QED
    BY <1>3, <2>1, <2>2
\* A display that stands before some frame of the list is in the list before it.
<1>5. ASSUME NEW i \in 1 .. Len(q), NEW n \in 1 .. d, Earlier(D(n), q[i])
      PROVE  \E j \in 1 .. Len(q) : j < i /\ q[j] = D(n)
  <2>1. D(n) \in Range(q)
    BY <1>2, <1>3, <1>5 DEF Oldest
  <2>2. PICK j \in 1 .. Len(q) : q[j] = D(n)
    BY <1>1, <2>1 DEF Range
  <2>3. ~ Earlier(q[i], q[j]) /\ i # j
    BY <1>2, <1>3, <1>5, <2>2, EarlierIsStrict
  <2>4. j < i
    BY <1>2, <2>3
  <2> QED
    BY <2>2, <2>4
<1>6. ASSUME T # {}
      PROVE  FALSE
  <2>1. PICK m \in T : \A y \in T : m <= y
    BY <1>6, LeastNumber
  <2>2. m \in Nat /\ m <= k - 1 /\ ~ P(m)
    OBVIOUS
  <2>3. m # 0
    <3>1. ASSUME m = 0
          PROVE  P(m)
      <4>1. 0 \in 0 .. d /\ Displays(q, m) = [n \in 1 .. 0 |-> n]
        BY <1>1, <3>1, DisplaysIs
      <4>2. \A n \in 1 .. d : ~ Seen(m, n) /\ ~ (n <= 0)
        BY <1>1, <3>1
      <4> QED
        BY <4>1, <4>2
    <3> QED
      BY <2>2, <3>1
  <2>4. /\ m \in 1 .. Len(q) /\ m - 1 \in Nat /\ m - 1 <= k - 1 /\ ~ (m <= m - 1)
        /\ \A i : i \in 1 .. m <=> i \in 1 .. m - 1 \/ i = m
    BY <1>1, <2>2, <2>3
  <2>5. P(m - 1)
    BY <2>1, <2>4
  <2>6. PICK c \in 0 .. d : /\ Displays(q, m - 1) = [n \in 1 .. c |-> n]
                           /\ \A n \in 1 .. d : Seen(m - 1, n) <=> n <= c
    BY <2>5
  <2>7. \A n : Seen(m, n) <=> Seen(m - 1, n) \/ q[m] = D(n)
    BY <2>4
  <2>8. ASSUME ~ Mine(q[m])
        PROVE  P(m)
    <3>1. Displays(q, m) = [n \in 1 .. c |-> n]
      BY <2>4, <2>6, <2>8, DisplaysIs
    <3>2. \A n \in 1 .. d : q[m] # D(n)
      BY <1>4, <2>4, <2>8
    <3> HIDE DEF D, Seen
    <3>3. \A n \in 1 .. d : Seen(m, n) <=> n <= c
      BY <2>6, <2>7, <3>2
    <3> QED
      BY <3>1, <3>3
  <2>9. ASSUME Mine(q[m])
        PROVE  P(m)
    <3>1. PICK o \in 1 .. d : q[m] = D(o)
      BY <1>4, <2>4, <2>9
    <3>2. ~ Seen(m - 1, o)
      <4> SUFFICES ASSUME NEW i \in 1 .. m - 1, q[i] = D(o)
                   PROVE  FALSE
        OBVIOUS
      <4>1. i \in 1 .. Len(q) /\ i < m
        BY <1>1, <2>4
      <4>2. Earlier(q[i], q[m])
        BY <1>2, <2>4, <4>1
      <4> QED
        BY <1>3, <3>1, <4>2, EarlierIsStrict
    <3>3. c < o
      BY <2>6, <3>2
    <3>4. o = c + 1
      <4> SUFFICES ASSUME o # c + 1
                   PROVE  FALSE
        OBVIOUS
      <4>1. c + 1 \in 1 .. d /\ c + 1 < o /\ ~ (c + 1 <= c)
        BY <1>1, <3>3
      <4>2. Earlier(D(c + 1), q[m])
        BY <1>3, <3>1, <4>1 DEF Earlier
      <4>3. PICK j \in 1 .. Len(q) : j < m /\ q[j] = D(c + 1)
        BY <1>5, <2>4, <4>1, <4>2
      <4>4. j \in 1 .. m - 1
        BY <2>4, <4>3
      <4>5. Seen(m - 1, c + 1)
        BY <4>3, <4>4
      <4> QED
        BY <2>6, <4>1, <4>5
    <3>5. Displays(q, m) = Append([n \in 1 .. c |-> n], o)
      <4>1. Displays(q, m) = Append(Displays(q, m - 1), q[m].n)
        BY <2>4, <2>9, DisplaysIs
      <4>2. q[m].n = o
        BY <1>3, <3>1
      <4> QED
        BY <2>6, <4>1, <4>2, Zenon
    <3>6. Displays(q, m) = [n \in 1 .. c + 1 |-> n]
      <4>1. c \in Nat
        BY <1>1
      <4>2. Append([n \in 1 .. c |-> n], c + 1) = [n \in 1 .. c + 1 |-> n]
        BY <4>1
      <4> QED
        BY <3>4, <3>5, <4>2
    <3>7. \A n \in 1 .. d : q[m] = D(n) <=> n = c + 1
      BY <1>3, <3>1, <3>4
    <3>8. c + 1 \in 0 .. d /\ \A n \in 1 .. d : n <= c + 1 <=> n <= c \/ n = c + 1
      BY <1>1, <3>4
    <3> HIDE DEF D, Seen
    <3>9. \A n \in 1 .. d : Seen(m, n) <=> n <= c + 1
      BY <2>6, <2>7, <3>7, <3>8
    <3> QED
      BY <3>6, <3>8, <3>9
  <2> QED
    BY <2>2, <2>8, <2>9
<1>7. P(k - 1)
  <2>1. k - 1 \in Nat /\ k - 1 <= k - 1
    BY <1>1
  <2> QED
    BY <1>6, <2>1
<1>8. PICK c \in 0 .. d : /\ Displays(q, k - 1) = [n \in 1 .. c |-> n]
                         /\ \A n \in 1 .. d : Seen(k - 1, n) <=> n <= c
  BY <1>7
<1>9. ASSUME c # d
      PROVE  FALSE
  <2>1. d \in 1 .. d /\ ~ (d <= c)
    BY <1>1, <1>9
  <2>2. q[k].job = call /\ q[k].kind = "eval-result"
    BY <1>2, OwnFrames
  <2>3. Earlier(D(d), q[k])
    BY <1>3, <2>1, <2>2 DEF Earlier
  <2>4. PICK j \in 1 .. Len(q) : j < k /\ q[j] = D(d)
    BY <1>5, <2>1, <2>3
  <2>5. j \in 1 .. k - 1
    BY <1>1, <2>4
  <2> QED
    BY <1>8, <2>1, <2>4, <2>5
<1> QED
  BY <1>8, <1>9

-----------------------------------------------------------------------------
(* The steps.                                                               *)

\* A new request, with an id of its own, is the last one.
LEMMA JobsAdded ==
  ASSUME TypeInv, JobsInv, NEW r \in Requests, jobs' = Append(jobs, r),
         Len(jobs) + 1 <= MaxJobs, conn <= conn', conn' \in Nat, r.conn = conn',
         next_id' \in Nat, next_id <= next_id', pending' \in {0, pending},
         r.kind = "eval" =>
            /\ pending' = 0 /\ r.id >= 1 /\ r.id < next_id'
            /\ \A j \in DOMAIN jobs : jobs[j].kind = "eval" => jobs[j].id # r.id
  PROVE  /\ JobsInv' /\ jobs' \in Seq(Requests) /\ Len(jobs') = Len(jobs) + 1
         /\ jobs'[Len(jobs) + 1] = r
         /\ \A j \in DOMAIN jobs : j \in DOMAIN jobs' /\ jobs'[j] = jobs[j]
<1> DEFINE R == Requests
           l == Len(jobs) + 1
<1>1. /\ jobs \in Seq(R) /\ r \in R /\ next_id \in Nat /\ pending \in Nat /\ conn \in Nat
      /\ \A j \in DOMAIN jobs : jobs[j].conn \in Nat /\ jobs[j].id \in Nat
      /\ r.id \in Nat
  <2>1. jobs \in Seq(R) /\ next_id \in Nat /\ pending \in Nat /\ conn \in Nat
    BY EmacsAssumption DEF TypeInv
  <2>2. \A q \in R : q.conn \in Nat /\ q.id \in Nat
    BY RequestIs, EmacsAssumption
  <2> HIDE DEF R
  <2>3. \A j \in DOMAIN jobs : jobs[j] \in R
    BY <2>1
  <2>4. r \in R
    BY DEF R
  <2> QED
    BY <2>1, <2>2, <2>3, <2>4
<1> HIDE DEF R
<1>2. /\ jobs' \in Seq(R) /\ Len(jobs') = l /\ jobs'[l] = r
      /\ DOMAIN jobs = 1 .. Len(jobs) /\ DOMAIN jobs' = 1 .. l /\ Len(jobs) \in Nat
      /\ \A j \in 1 .. Len(jobs) : jobs'[j] = jobs[j]
  BY <1>1
<1>3. \A j \in 1 .. l : j \in 1 .. Len(jobs) \/ j = l
  BY <1>2
<1>4. \A j \in 1 .. Len(jobs) : j \in 1 .. l /\ j < l
  BY <1>2
<1>5. \A i, j \in 1 .. l : i <= j => jobs'[i].conn <= jobs'[j].conn
  <2> SUFFICES ASSUME NEW i \in 1 .. l, NEW j \in 1 .. l, i <= j
               PROVE  jobs'[i].conn <= jobs'[j].conn
    OBVIOUS
  <2>1. ASSUME j \in 1 .. Len(jobs)
        PROVE  jobs'[i].conn <= jobs'[j].conn
    <3>1. i \in 1 .. Len(jobs)
      BY <1>2, <2>1
    <3> QED
      BY <1>2, <2>1, <3>1 DEF JobsInv
  <2>2. ASSUME j = l
        PROVE  jobs'[i].conn <= jobs'[j].conn
    <3>1. jobs'[j].conn = conn'
      BY <1>2, <2>2
    <3>2. ASSUME i \in 1 .. Len(jobs)
          PROVE  jobs'[i].conn <= conn'
      <4>1. jobs'[i].conn = jobs[i].conn /\ jobs[i].conn <= conn /\ jobs[i].conn \in Nat
        BY <1>1, <1>2, <3>2 DEF JobsInv
      <4> QED
        BY <1>1, <4>1
    <3>3. ASSUME i = l
          PROVE  jobs'[i].conn <= conn'
      BY <1>2, <3>3
    <3> QED
      BY <1>3, <3>1, <3>2, <3>3
  <2> QED
    BY <1>3, <2>1, <2>2
<1>6. \A j \in 1 .. l : jobs'[j].conn <= conn'
  <2> SUFFICES ASSUME NEW j \in 1 .. l
               PROVE  jobs'[j].conn <= conn'
    OBVIOUS
  <2>1. j <= l /\ l \in 1 .. l /\ jobs'[l].conn = conn'
    BY <1>2
  <2> QED
    BY <1>5, <2>1
<1>7. \A j \in 1 .. l : jobs'[j].kind = "eval" =>
         jobs'[j].id < next_id' /\ jobs'[j].id # pending' /\ jobs'[j].id >= 1
  <2> SUFFICES ASSUME NEW j \in 1 .. l, jobs'[j].kind = "eval"
               PROVE  jobs'[j].id < next_id' /\ jobs'[j].id # pending' /\ jobs'[j].id >= 1
    OBVIOUS
  <2>1. ASSUME j \in 1 .. Len(jobs)
        PROVE  jobs'[j].id < next_id' /\ jobs'[j].id # pending' /\ jobs'[j].id >= 1
    <3>1. /\ jobs'[j].id = jobs[j].id /\ jobs[j].id \in Nat
          /\ jobs[j].id < next_id /\ jobs[j].id # pending /\ jobs[j].id >= 1
      BY <1>1, <1>2, <2>1 DEF JobsInv
    <3> QED
      BY <1>1, <3>1
  <2>2. ASSUME j = l
        PROVE  jobs'[j].id < next_id' /\ jobs'[j].id # pending' /\ jobs'[j].id >= 1
    BY <1>1, <1>2, <2>2
  <2> QED
    BY <1>3, <2>1, <2>2
<1>8. \A i, j \in 1 .. l :
         jobs'[i].kind = "eval" /\ jobs'[j].kind = "eval" /\ jobs'[i].id = jobs'[j].id
            => i = j
  BY <1>2, <1>3 DEF JobsInv
<1>9. pending' < next_id'
  BY <1>1 DEF JobsInv
<1>10. JobsInv'
  BY <1>2, <1>5, <1>6, <1>7, <1>8, <1>9 DEF JobsInv
<1> QED
  BY <1>2, <1>4, <1>10 DEF R

\* What was returned stays what it was.
LEMMA ReturnKept ==
  ASSUME ReturnInv, last' = last,
         \A j \in DOMAIN jobs : j \in DOMAIN jobs' /\ jobs'[j] = jobs[j],
         DOMAIN jobs = 1 .. Len(jobs), Len(jobs) \in Nat
  PROVE  ReturnInv'
<1> SUFFICES ASSUME last # None
             PROVE  ReturnInv'
  BY DEF ReturnInv, AnswersItsOwn, OutputComplete
<1>1. last.job \in DOMAIN jobs
  BY DEF ReturnInv
<1>2. last.job > 1 => last.job - 1 \in DOMAIN jobs
  BY <1>1
<1>3. AnswersItsOwn'
  <2>1. \/ last.frame.job = last.job
        \/ /\ jobs[last.job].kind = "hello" /\ last.job > 1
           /\ jobs[last.job - 1].conn = jobs[last.job].conn
    BY DEF ReturnInv, AnswersItsOwn
  <2> QED
    BY <1>1, <1>2, <2>1 DEF AnswersItsOwn
<1>4. OutputComplete'
  BY <1>1 DEF ReturnInv, OutputComplete
<1> QED
  BY <1>1, <1>3, <1>4 DEF ReturnInv

LEMMA SendIs ==
  ASSUME TypeInv, NEW kind \in {"hello", "eval"}, NEW id \in 0 .. MaxEvals,
         conn' \in 1 .. MaxConns, Send(kind, id)
  PROVE  \E r \in Requests :
            /\ r.kind = kind /\ r.id = id /\ r.conn = conn'
            /\ jobs' = Append(jobs, r)
            /\ wire' = wire \o Parts(Answer(r, Len(jobs) + 1))
            /\ call' = Len(jobs) + 1
            /\ phase' = "scan" /\ shown' = <<>> /\ pending' = 0
<1>1. PICK d \in 0 .. MaxDisplays, big \in BOOLEAN :
         LET r == [kind |-> kind, id |-> id, displays |-> d, big |-> big, conn |-> conn'] IN
         /\ jobs' = Append(jobs, r)
         /\ wire' = wire \o Parts(Answer(r, Len(jobs) + 1))
         /\ call' = Len(jobs) + 1
         /\ phase' = "scan" /\ shown' = <<>> /\ pending' = 0
  BY DEF Send
<1> DEFINE r == [kind |-> kind, id |-> id, displays |-> d, big |-> big, conn |-> conn']
<1>2. r \in Requests /\ r.kind = kind /\ r.id = id /\ r.conn = conn'
  BY DEF Requests
<1> HIDE DEF r
<1>3. /\ jobs' = Append(jobs, r)
      /\ wire' = wire \o Parts(Answer(r, Len(jobs) + 1))
      /\ call' = Len(jobs) + 1
      /\ phase' = "scan" /\ shown' = <<>> /\ pending' = 0
  BY <1>1 DEF r
<1> QED
  BY <1>2, <1>3

\* A request is sent: what is common to the commands that send one.  The list
\* is q afterwards, and returned what has left it.
LEMMA SendStep ==
  ASSUME TypeInv, PhaseInv, JobsInv, live, Len(jobs) + 1 <= MaxJobs,
         NEW kind \in {"hello", "eval"}, NEW id \in 0 .. MaxEvals,
         conn' = conn, live' = live, buffer' = buffer, Send(kind, id),
         next_id' \in 1 .. MaxEvals + 1, next_id <= next_id',
         kind = "eval" => /\ id >= 1 /\ id < next_id'
                          /\ \A j \in DOMAIN jobs : jobs[j].kind = "eval" => jobs[j].id # id,
         frames' \in Seq(Frames), taken' \subseteq Frames,
         \A f \in taken' : f.job \in DOMAIN jobs,
         Streamed(buffer \o wire, Reverse(frames'), Due \ taken')
  PROVE  /\ last' \in Returns \cup {None} => TypeInv'
         /\ PhaseInv' /\ JobsInv' /\ TakenInv' /\ ListInv' /\ StreamInv'
         /\ \A j \in DOMAIN jobs : j \in DOMAIN jobs' /\ jobs'[j] = jobs[j]
<1> DEFINE S == Frames
           l == Len(jobs) + 1
<1>0. /\ conn \in 1 .. MaxConns /\ conn \in Nat /\ MaxEvals \in Nat
      /\ DOMAIN jobs = 1 .. Len(jobs) /\ Len(jobs) \in Nat /\ l \in Nat
      /\ next_id \in Nat /\ next_id' \in Nat
  <2>1. /\ DOMAIN jobs = 1 .. Len(jobs) /\ Len(jobs) \in Nat
    BY DEF TypeInv
  <2>2. conn \in 0 .. MaxConns /\ next_id \in 1 .. MaxEvals + 1
    BY DEF TypeInv
  <2> QED
    BY <2>1, <2>2, EmacsAssumption DEF PhaseInv
<1>1. PICK r \in Requests :
         /\ r.kind = kind /\ r.id = id /\ r.conn = conn
         /\ jobs' = Append(jobs, r)
         /\ wire' = wire \o Parts(Answer(r, l))
         /\ call' = l
         /\ phase' = "scan" /\ shown' = <<>> /\ pending' = 0
  BY <1>0, SendIs
<1>2. /\ JobsInv' /\ jobs' \in Seq(Requests) /\ Len(jobs') = l /\ jobs'[l] = r
      /\ \A j \in DOMAIN jobs : j \in DOMAIN jobs' /\ jobs'[j] = jobs[j]
  BY <1>0, <1>1, JobsAdded
<1>3. Reverse(frames') \in Seq(Frames)
  BY ReverseIs
<1>4. /\ Streamed(buffer' \o wire', Reverse(frames'), Due' \ taken')
      /\ wire' \in Seq(Frames)
  BY <1>1, <1>3, StreamSent
<1>5. buffer' \o wire' \in Seq(Frames)
  <2> HIDE DEF S
  <2>1. buffer' \in Seq(S) /\ wire' \in Seq(S)
    BY <1>4 DEF TypeInv, S
  <2> QED
    BY <2>1, ConcatProperties DEF S
<1>6. ListInv' /\ StreamInv'
  BY <1>3, <1>4, <1>5, StreamedOldest DEF ListInv, StreamInv
<1>7. PhaseInv'
  BY <1>0, <1>1, <1>2 DEF PhaseInv
<1>8. TakenInv'
  BY <1>0, <1>1, <1>2 DEF TakenInv
<1>9. ASSUME last' \in Returns \cup {None}
      PROVE  TypeInv'
  <2>1. call' \in 0 .. Len(jobs') /\ pending' \in 0 .. MaxEvals
    BY <1>0, <1>1, <1>2
  <2>2. phase' \in Phases /\ shown' \in Seq(1 .. MaxDisplays)
    BY <1>1 DEF Phases
  <2> QED
    BY <1>2, <1>4, <1>9, <2>1, <2>2 DEF TypeInv
<1> QED
  BY <1>2, <1>6, <1>7, <1>8, <1>9

LEMMA InitHolds ==
  ASSUME Init
  PROVE  EInv
<1> USE DEF Init
<1>1. TypeInv
  <2>1. /\ conn \in 0 .. MaxConns /\ next_id \in 1 .. MaxEvals + 1
        /\ pending \in 0 .. MaxEvals /\ call \in 0 .. 0 /\ Len(jobs) = 0
    BY EmacsAssumption
  <2>2. /\ wire \in Seq(Frames) /\ buffer \in Seq(Frames) /\ frames \in Seq(Frames)
        /\ jobs \in Seq(Requests) /\ shown \in Seq(1 .. MaxDisplays)
    OBVIOUS
  <2>3. last \in Returns \cup {None} /\ taken \subseteq Frames
    OBVIOUS
  <2> QED
    BY <2>1, <2>2, <2>3 DEF TypeInv, Phases
<1>2. PhaseInv /\ TakenInv /\ StreamInv
  BY DEF PhaseInv, TakenInv, StreamInv
<1>3. JobsInv
  BY EmacsAssumption DEF JobsInv
<1>4. ListInv
  <2>1. Reverse(frames) = <<>>
    BY DEF Reverse
  <2> QED
    BY <2>1 DEF ListInv, Oldest, InOrder, Range
<1>5. ReturnInv
  BY DEF ReturnInv, AnswersItsOwn, OutputComplete
<1> QED
  BY <1>1, <1>2, <1>3, <1>4, <1>5 DEF EInv

\* Steps that add no request and touch neither the list nor the connection.
LEMMA Quiet ==
  ASSUME EInv, conn' = conn, live' = live, wire' = wire, buffer' = buffer,
         frames' = frames, jobs' = jobs, last' = last, taken' = taken
  PROVE  ListInv' /\ StreamInv' /\ ReturnInv'
<1>1. Due' = Due
  BY DueSame
<1>2. ReturnInv'
  <2>1. DOMAIN jobs = 1 .. Len(jobs) /\ Len(jobs) \in Nat
    BY DEF EInv, TypeInv
  <2> QED
    BY <2>1, ReturnKept DEF EInv
<1> QED
  BY <1>1, <1>2 DEF EInv, ListInv, StreamInv

LEMMA StutterStep ==
  ASSUME EInv, UNCHANGED vars
  PROVE  EInv'
<1> USE DEF vars, client, command, history
<1>1. ListInv' /\ StreamInv' /\ ReturnInv'
  BY Quiet
<1>2. TypeInv' /\ PhaseInv' /\ JobsInv' /\ TakenInv'
  BY DEF EInv, TypeInv, PhaseInv, JobsInv, TakenInv
<1> QED
  BY <1>1, <1>2 DEF EInv

LEMMA CommandFacts ==
  ASSUME EInv
  PROVE  /\ DOMAIN jobs = 1 .. Len(jobs) /\ Len(jobs) \in Nat
         /\ MaxJobs \in Nat /\ MaxEvals \in Nat
         /\ next_id \in Nat /\ next_id >= 1 /\ conn \in Nat
         /\ taken \subseteq Frames /\ frames \in Seq(Frames)
         /\ \A f \in taken : f.job \in DOMAIN jobs
         /\ last \in Returns \cup {None}
BY EmacsAssumption DEF EInv, TypeInv, TakenInv

LEMMA EvalStep ==
  ASSUME EInv, Eval
  PROVE  EInv'
<1>1. ASSUME live
      PROVE  EInv'
  <2>1. /\ phase = "idle" /\ Bounded /\ next_id <= MaxEvals /\ next_id' = next_id + 1
        /\ conn' = conn /\ Send("eval", next_id)
        /\ live' = live /\ buffer' = buffer /\ frames' = frames
        /\ last' = last /\ taken' = taken
    BY <1>1 DEF Eval, history
  <2>2. /\ next_id \in 0 .. MaxEvals /\ next_id' \in 1 .. MaxEvals + 1
        /\ next_id <= next_id' /\ next_id >= 1 /\ next_id < next_id'
        /\ Len(jobs) + 1 <= MaxJobs
    BY <2>1, CommandFacts DEF Bounded
  <2>3. \A j \in DOMAIN jobs : jobs[j].kind = "eval" => jobs[j].id # next_id
    <3>1. ASSUME NEW j \in DOMAIN jobs, jobs[j].kind = "eval"
          PROVE  jobs[j].id # next_id
      <4>1. jobs[j].id < next_id
        BY <3>1 DEF EInv, JobsInv
      <4> QED
        BY <4>1, CommandFacts
    <3> QED
      BY <3>1
  <2>4. /\ TypeInv /\ PhaseInv /\ JobsInv /\ ReturnInv
        /\ Streamed(buffer \o wire, Reverse(frames'), Due \ taken')
    BY <1>1, <2>1 DEF EInv, StreamInv
  <2>5. /\ taken' \subseteq Frames /\ frames' \in Seq(Frames)
        /\ \A f \in taken' : f.job \in DOMAIN jobs
    BY <2>1, CommandFacts
  <2>6. /\ last' \in Returns \cup {None} => TypeInv'
        /\ PhaseInv' /\ JobsInv' /\ TakenInv' /\ ListInv' /\ StreamInv'
        /\ \A j \in DOMAIN jobs : j \in DOMAIN jobs' /\ jobs'[j] = jobs[j]
    BY <1>1, <2>1, <2>2, <2>3, <2>4, <2>5, SendStep
  <2>7. ReturnInv'
    BY <2>1, <2>4, <2>6, CommandFacts, ReturnKept
  <2>8. last' \in Returns \cup {None}
    BY <2>1, CommandFacts
  <2> QED
    BY <2>6, <2>7, <2>8 DEF EInv
<1>2. ASSUME ~ live
      PROVE  EInv'
  <2>1. /\ phase = "idle" /\ Bounded /\ next_id <= MaxEvals /\ next_id' = next_id + 1
        /\ phase' = "connect" /\ pending' = next_id
        /\ conn' = conn /\ wire' = wire /\ jobs' = jobs /\ call' = call /\ shown' = shown
        /\ live' = live /\ buffer' = buffer /\ frames' = frames
        /\ last' = last /\ taken' = taken
    BY <1>2 DEF Eval, history
  <2>2. ListInv' /\ StreamInv' /\ ReturnInv'
    BY <2>1, Quiet
  <2>3. TypeInv'
    <3>1. next_id' \in 1 .. MaxEvals + 1 /\ pending' \in 0 .. MaxEvals
      BY <2>1, CommandFacts
    <3> QED
      BY <2>1, <3>1 DEF EInv, TypeInv, Phases
  <2>4. PhaseInv'
    BY <1>2, <2>1 DEF EInv, PhaseInv, Bounded
  <2>5. JobsInv'
    <3>1. ASSUME NEW j \in DOMAIN jobs, jobs[j].kind = "eval"
          PROVE  /\ jobs[j].id < next_id + 1 /\ jobs[j].id # next_id
                 /\ jobs[j].id >= 1
      <4>1. jobs[j].id < next_id /\ jobs[j].id >= 1 /\ jobs[j] \in Requests
        BY <3>1 DEF EInv, JobsInv, TypeInv
      <4>2. jobs[j].id \in Nat
        BY <4>1, RequestIs, EmacsAssumption
      <4> QED
        BY <4>1, <4>2, CommandFacts
    <3>2. next_id < next_id + 1
      BY CommandFacts
    <3> QED
      BY <2>1, <3>1, <3>2 DEF EInv, JobsInv
  <2>6. TakenInv'
    BY <2>1 DEF EInv, TakenInv
  <2> QED
    BY <2>2, <2>3, <2>4, <2>5, <2>6 DEF EInv
<1> QED
  BY <1>1, <1>2

LEMMA ConnectStep ==
  ASSUME EInv, Connect
  PROVE  EInv'
<1>1. ASSUME live
      PROVE  EInv'
  <2>1. /\ phase = "idle" /\ Bounded /\ next_id' = next_id
        /\ conn' = conn /\ Send("hello", 0)
        /\ live' = live /\ buffer' = buffer /\ frames' = frames
        /\ last' = last /\ taken' = taken
    BY <1>1 DEF Connect, history
  <2>2. /\ 0 \in 0 .. MaxEvals /\ next_id' \in 1 .. MaxEvals + 1
        /\ next_id <= next_id' /\ Len(jobs) + 1 <= MaxJobs
    <3>1. next_id \in 1 .. MaxEvals + 1
      BY DEF EInv, TypeInv
    <3> QED
      BY <2>1, <3>1, CommandFacts DEF Bounded
  <2>4. /\ TypeInv /\ PhaseInv /\ JobsInv /\ ReturnInv
        /\ Streamed(buffer \o wire, Reverse(frames'), Due \ taken')
    BY <1>1, <2>1 DEF EInv, StreamInv
  <2>5. /\ taken' \subseteq Frames /\ frames' \in Seq(Frames)
        /\ \A f \in taken' : f.job \in DOMAIN jobs
    BY <2>1, CommandFacts
  <2>6. /\ last' \in Returns \cup {None} => TypeInv'
        /\ PhaseInv' /\ JobsInv' /\ TakenInv' /\ ListInv' /\ StreamInv'
        /\ \A j \in DOMAIN jobs : j \in DOMAIN jobs' /\ jobs'[j] = jobs[j]
    BY <1>1, <2>1, <2>2, <2>4, <2>5, SendStep
  <2>7. ReturnInv'
    BY <2>1, <2>4, <2>6, CommandFacts, ReturnKept
  <2>8. last' \in Returns \cup {None}
    BY <2>1, CommandFacts
  <2> QED
    BY <2>6, <2>7, <2>8 DEF EInv
<1>2. ASSUME ~ live
      PROVE  EInv'
  <2>1. /\ phase = "idle" /\ Bounded /\ next_id' = next_id
        /\ phase' = "connect" /\ pending' = pending
        /\ conn' = conn /\ wire' = wire /\ jobs' = jobs /\ call' = call /\ shown' = shown
        /\ live' = live /\ buffer' = buffer /\ frames' = frames
        /\ last' = last /\ taken' = taken
    BY <1>2 DEF Connect, history
  <2>2. ListInv' /\ StreamInv' /\ ReturnInv'
    BY <2>1, Quiet
  <2>3. TypeInv'
    BY <2>1 DEF EInv, TypeInv, Phases
  <2>4. PhaseInv'
    BY <1>2, <2>1 DEF EInv, PhaseInv, Bounded
  <2>5. JobsInv' /\ TakenInv'
    BY <2>1 DEF EInv, JobsInv, TakenInv
  <2> QED
    BY <2>2, <2>3, <2>4, <2>5 DEF EInv
<1> QED
  BY <1>1, <1>2

LEMMA EmptyList == \A D : Oldest(<<>>, D)
BY DEF Oldest, InOrder, Range

LEMMA ReverseEmpty == Reverse(<<>>) = <<>>
BY DEF Reverse

LEMMA DisconnectStep ==
  ASSUME EInv, Disconnect
  PROVE  EInv'
<1>1. /\ phase = "idle" /\ live' = FALSE /\ wire' = <<>> /\ buffer' = <<>> /\ frames' = <<>>
      /\ conn' = conn /\ next_id' = next_id /\ phase' = phase /\ pending' = pending
      /\ call' = call /\ jobs' = jobs /\ shown' = shown /\ last' = last /\ taken' = taken
  BY DEF Disconnect, command, history
<1>2. TypeInv' /\ PhaseInv' /\ JobsInv' /\ TakenInv'
  <2>1. TypeInv'
    <3>1. <<>> \in Seq(Frames) /\ FALSE \in BOOLEAN
      OBVIOUS
    <3> QED
      BY <1>1, <3>1 DEF EInv, TypeInv
  <2>2. PhaseInv'
    BY <1>1 DEF EInv, PhaseInv
  <2>3. JobsInv' /\ TakenInv'
    BY <1>1 DEF EInv, JobsInv, TakenInv
  <2> QED
    BY <2>1, <2>2, <2>3
<1>3. ListInv' /\ StreamInv'
  BY <1>1, EmptyList, ReverseEmpty DEF ListInv, StreamInv
<1>4. ReturnInv'
  BY <1>1, CommandFacts, ReturnKept DEF EInv
<1> QED
  BY <1>2, <1>3, <1>4 DEF EInv

LEMMA AbandonStep ==
  ASSUME EInv, Abandon
  PROVE  EInv'
<1>1. /\ phase' = "idle" /\ pending' = 0
      /\ conn' = conn /\ live' = live /\ wire' = wire /\ buffer' = buffer
      /\ frames' = frames /\ next_id' = next_id /\ call' = call /\ jobs' = jobs
      /\ shown' = shown /\ last' = last /\ taken' = taken
  BY DEF Abandon, Idle, client, history
<1>2. ListInv' /\ StreamInv' /\ ReturnInv'
  BY <1>1, Quiet
<1>3. TypeInv'
  BY <1>1, EmacsAssumption DEF EInv, TypeInv, Phases
<1>4. PhaseInv' /\ TakenInv'
  BY <1>1 DEF EInv, PhaseInv, TakenInv
<1>5. JobsInv'
  <2>1. ASSUME NEW j \in DOMAIN jobs, jobs[j].kind = "eval"
        PROVE  jobs[j].id # 0
    <3>1. jobs[j].id >= 1
      BY <2>1 DEF EInv, JobsInv
    <3> QED
      BY <3>1
  <2> QED
    BY <1>1, <2>1, CommandFacts DEF EInv, JobsInv
<1> QED
  BY <1>2, <1>3, <1>4, <1>5 DEF EInv

LEMMA ClosedStep ==
  ASSUME EInv, Closed
  PROVE  EInv'
<1>1. /\ live' = FALSE /\ wire' = <<>> /\ phase \in {"idle", "wait"}
      /\ conn' = conn /\ buffer' = buffer
      /\ frames' = frames /\ next_id' = next_id /\ call' = call /\ jobs' = jobs
      /\ phase' = phase /\ pending' = pending
      /\ shown' = shown /\ last' = last /\ taken' = taken
  BY DEF Closed, command, history
<1>2. TypeInv' /\ PhaseInv' /\ JobsInv' /\ TakenInv'
  <2>1. TypeInv'
    <3>1. <<>> \in Seq(Frames) /\ FALSE \in BOOLEAN
      OBVIOUS
    <3> QED
      BY <1>1, <3>1 DEF EInv, TypeInv
  <2>2. PhaseInv'
    BY <1>1 DEF EInv, PhaseInv
  <2>3. JobsInv' /\ TakenInv'
    BY <1>1 DEF EInv, JobsInv, TakenInv
  <2> QED
    BY <2>1, <2>2, <2>3
<1>3. ListInv' /\ StreamInv'
  BY <1>1, DueSame DEF EInv, ListInv, StreamInv
<1>4. ReturnInv'
  BY <1>1, CommandFacts, ReturnKept DEF EInv
<1> QED
  BY <1>2, <1>3, <1>4 DEF EInv

\* A new connection carries the answer to its hello, and nothing else.
LEMMA OpenProcessStep ==
  ASSUME EInv, OpenProcess
  PROVE  EInv'
<1>0. /\ phase = "connect" /\ conn < MaxConns /\ buffer' = <<>> /\ frames' = <<>>
      /\ next_id' = next_id /\ last' = last /\ taken' = taken
  BY DEF OpenProcess, Fresh, history
<1>a. ~ live /\ Len(jobs) + 2 <= MaxJobs /\ live \in BOOLEAN
  BY <1>0 DEF EInv, PhaseInv, TypeInv
<1>1. ASSUME conn' = conn + 1, live' = TRUE,
             jobs' = Append(jobs, [kind |-> "hello", id |-> 0, displays |-> 0,
                                   big |-> FALSE, conn |-> conn']),
             wire' = Parts(<<Frame(Len(jobs'), "hello-ack", 0)>>),
             call' = Len(jobs'), phase' = "scan", shown' = <<>>, pending' = pending
      PROVE  EInv'
  <2> DEFINE r == [kind |-> "hello", id |-> 0, displays |-> 0,
                   big |-> FALSE, conn |-> conn']
             l == Len(jobs) + 1
             a == Answer(r, l)
  <2>1. r \in Requests /\ r.kind = "hello" /\ r.id = 0 /\ r.conn = conn'
        /\ conn' \in 1 .. MaxConns /\ conn' \in Nat /\ conn <= conn' /\ conn < conn'
    BY <1>0, <1>1, EmacsAssumption DEF EInv, TypeInv, Requests
  <2>2. jobs' = Append(jobs, r)
    BY <1>1
  <2> HIDE DEF r
  <2>3. l \in 1 .. MaxJobs /\ l \in Nat /\ l <= MaxJobs /\ l \notin DOMAIN jobs
    BY <1>a, CommandFacts
  <2>4. /\ JobsInv' /\ jobs' \in Seq(Requests) /\ Len(jobs') = l
        /\ jobs'[l] = r
        /\ \A j \in DOMAIN jobs : j \in DOMAIN jobs' /\ jobs'[j] = jobs[j]
    BY <1>0, <1>1, <2>1, <2>2, <2>3, CommandFacts, JobsAdded DEF EInv
  <2>5. /\ a \in Seq(Frames) /\ InOrder(a) /\ \A f \in Range(a) : f.job = l
        /\ wire' = Parts(a)
    <3>1. a = <<Frame(l, "hello-ack", 0)>>
      BY <2>1 DEF Answer
    <3> QED
      BY <1>1, <2>1, <2>3, <2>4, <3>1, AnswerIs
  <2>6. Range(a) \subseteq Frames /\ wire' \in Seq(Frames)
        /\ Paired(wire') /\ Whole(wire') = a
    <3> DEFINE S == Frames
    <3>1. a \in Seq(S)
      BY <2>5
    <3> HIDE DEF S, a
    <3>2. Range(a) \subseteq S
      BY <3>1, RangeIs
    <3>3. Parts(a) \in Seq(S) /\ Paired(Parts(a)) /\ Whole(Parts(a)) = a
      BY <3>1, PartsIs, PairedParts
    <3> QED
      BY <2>5, <3>2, <3>3 DEF S
  <2>7. Due' = Range(a)
    <3>1. \A j \in DOMAIN jobs' : j \in DOMAIN jobs \/ j = l
      BY <2>3, <2>4, CommandFacts
    <3>2. ASSUME NEW j \in DOMAIN jobs
          PROVE  jobs'[j].conn # conn'
      <4>1. jobs'[j].conn <= conn /\ jobs[j] \in Requests /\ jobs'[j].conn = jobs[j].conn
        BY <2>4 DEF EInv, JobsInv, TypeInv
      <4>2. jobs'[j].conn \in Nat
        BY <4>1, RequestIs, EmacsAssumption
      <4> QED
        BY <2>1, <4>1, <4>2, CommandFacts
    <3>3. l \in DOMAIN jobs' /\ jobs'[l].conn = conn'
      BY <2>1, <2>3, <2>4
    <3> HIDE DEF l
    <3>4. ASSUME NEW f \in Frames
          PROVE  (\E j \in DOMAIN jobs' : jobs'[j].conn = conn' /\ f \in Range(Answer(jobs'[j], j)))
                 <=> f \in Range(a)
      BY <2>4, <3>1, <3>2, <3>3
    <3> HIDE DEF a
    <3> QED
      BY <2>6, <3>4 DEF Due
  <2>8. Due' \ taken' = Range(a)
    BY <1>0, <2>3, <2>5, <2>7, CommandFacts
  <2>9. ListInv'
    BY <1>0, EmptyList, ReverseEmpty DEF ListInv
  <2>10. StreamInv'
    <3> DEFINE S == Frames
    <3>1. a \in Seq(S) /\ wire' \in Seq(S)
      BY <2>5, <2>6
    <3>2. Reverse(frames') = <<>> /\ buffer' = <<>>
      BY <1>0, ReverseEmpty
    <3> HIDE DEF S, a
    <3>3. <<>> \o wire' = wire' /\ <<>> \o a = a
      BY <3>1, ConcatEmptySeq
    <3> QED
      BY <2>5, <2>6, <2>8, <3>2, <3>3 DEF StreamInv, Streamed
  <2>11. TypeInv'
    <3>1. <<>> \in Seq(Frames) /\ <<>> \in Seq(1 .. MaxDisplays)
      OBVIOUS
    <3>2. call' \in 0 .. Len(jobs') /\ conn' \in 0 .. MaxConns
      BY <1>1, <2>1, <2>3, <2>4
    <3> QED
      BY <1>0, <1>1, <2>4, <2>6, <3>1, <3>2 DEF EInv, TypeInv, Phases
  <2>12. PhaseInv'
    BY <1>1, <1>a, <2>1, <2>3, <2>4, CommandFacts DEF PhaseInv
  <2>13. TakenInv'
    BY <1>0, <1>1, <2>3, <2>4, CommandFacts DEF TakenInv
  <2>14. ReturnInv'
    BY <1>0, <2>4, CommandFacts, ReturnKept DEF EInv
  <2> QED
    BY <2>4, <2>9, <2>10, <2>11, <2>12, <2>13, <2>14 DEF EInv
<1>2. ASSUME Idle, UNCHANGED <<conn, live, wire, jobs, call, shown>>
      PROVE  EInv'
  <2>1. /\ phase' = "idle" /\ pending' = 0 /\ conn' = conn /\ live' = live
        /\ wire' = wire /\ jobs' = jobs /\ call' = call /\ shown' = shown
    BY <1>2 DEF Idle
  <2>2. ListInv' /\ StreamInv'
    BY <1>0, <1>a, <2>1, EmptyList, ReverseEmpty DEF ListInv, StreamInv
  <2>3. TypeInv'
    <3>1. <<>> \in Seq(Frames) /\ 0 \in 0 .. MaxEvals
      BY EmacsAssumption
    <3> QED
      BY <1>0, <2>1, <3>1 DEF EInv, TypeInv, Phases
  <2>4. PhaseInv' /\ TakenInv'
    BY <1>0, <1>a, <2>1 DEF EInv, PhaseInv, TakenInv
  <2>5. JobsInv'
    <3>1. ASSUME NEW j \in DOMAIN jobs, jobs[j].kind = "eval"
          PROVE  jobs[j].id # 0
      <4>1. jobs[j].id >= 1
        BY <3>1 DEF EInv, JobsInv
      <4> QED
        BY <4>1
    <3> QED
      BY <1>0, <2>1, <3>1, CommandFacts DEF EInv, JobsInv
  <2>6. ReturnInv'
    BY <1>0, <2>1, CommandFacts, ReturnKept DEF EInv
  <2> QED
    BY <2>2, <2>3, <2>4, <2>5, <2>6 DEF EInv
<1> QED
  BY <1>1, <1>2 DEF OpenProcess

\* The filter finds a whole number of frames in bytes that fall into pairs.
LEMMA DecodableIs ==
  ASSUME NEW b \in Seq(Frames),
         \A k \in 1 .. Len(b) \div 2 : b[2 * k - 1] = b[2 * k]
  PROVE  Decodable(b) \in 0 .. Len(b) \div 2
<1> DEFINE L == Len(b) \div 2
           T == {m \in Nat : m <= L /\ (m = L \/ b[2 * m + 1].kind = "oversized")}
<1>1. L \in Nat /\ L \in T
  OBVIOUS
<1>2. PICK n \in T : \A y \in T : n <= y
  BY <1>1, LeastNumber
<1>3. n \in 0 .. L /\ (n = L \/ b[2 * n + 1].kind = "oversized")
  BY <1>1
<1>4. ASSUME NEW k \in 1 .. n
      PROVE  b[2 * k].kind # "oversized"
  <2>1. k - 1 \in Nat /\ k - 1 <= L /\ ~ (n <= k - 1) /\ k \in 1 .. L
        /\ 2 * (k - 1) + 1 = 2 * k - 1
    BY <1>1, <1>3
  <2>2. k - 1 \notin T
    BY <1>2, <2>1
  <2>3. b[2 * k - 1].kind # "oversized"
    BY <2>1, <2>2
  <2> QED
    BY <2>1, <2>3
<1> QED
  BY <1>3, <1>4 DEF Decodable

LEMMA CutConcat ==
  ASSUME NEW S, NEW w \in Seq(S), NEW c \in 1 .. Len(w)
  PROVE  /\ SubSeq(w, 1, c) \in Seq(S) /\ SubSeq(w, c + 1, Len(w)) \in Seq(S)
         /\ SubSeq(w, 1, c) \o SubSeq(w, c + 1, Len(w)) = w
<1>1. c \in 0 .. Len(w) /\ 1 \in 1 .. Len(w) + 1 /\ Len(w) \in c .. Len(w)
  OBVIOUS
<1>2. \A i \in 1 .. c : w[i] \in S
  OBVIOUS
<1>3. \A i \in c + 1 .. Len(w) : w[i] \in S
  OBVIOUS
<1>4. SubSeq(w, 1, c) \in Seq(S) /\ SubSeq(w, c + 1, Len(w)) \in Seq(S)
  BY <1>2, <1>3, SubSeqProperties
<1>5. SubSeq(w, 1, c) \o SubSeq(w, c + 1, Len(w)) = SubSeq(w, 1, Len(w))
  BY <1>1, ConcatAdjacentSubSeq
<1> QED
  BY <1>4, <1>5, SubSeqFull

LEMMA RestConcat ==
  ASSUME NEW S, NEW s \in Seq(S), NEW t \in Seq(S), NEW m \in 0 .. Len(s)
  PROVE  /\ SubSeq(s, m + 1, Len(s)) \in Seq(S)
         /\ SubSeq(s, m + 1, Len(s)) \o t = SubSeq(s \o t, m + 1, Len(s \o t))
<1> DEFINE u == s \o t
           a == SubSeq(s, m + 1, Len(s))
           b == SubSeq(u, m + 1, Len(u))
<1>0. Len(s) \in Nat /\ Len(t) \in Nat /\ m \in Nat /\ m <= Len(s)
  OBVIOUS
<1>1. /\ u \in Seq(S) /\ Len(u) = Len(s) + Len(t)
      /\ \A i \in 1 .. Len(s) + Len(t) : u[i] = IF i <= Len(s) THEN s[i] ELSE t[i - Len(s)]
  BY ConcatProperties
<1>2. /\ a \in Seq(S) /\ Len(a) = Len(s) - m
      /\ \A i \in 1 .. Len(s) - m : a[i] = s[m + i]
  <2>1. \A i \in 1 .. Len(s) - m : m + i \in 1 .. Len(s) /\ (m + 1) + i - 1 = m + i
    BY <1>0
  <2> QED
    BY <1>0, <2>1
<1> HIDE DEF u, a
<1>3. /\ b \in Seq(S) /\ Len(b) = Len(u) - m
      /\ \A i \in 1 .. Len(u) - m : b[i] = u[m + i]
  <2>0. Len(u) \in Nat /\ m <= Len(u)
    BY <1>0, <1>1
  <2>1. \A i \in 1 .. Len(u) - m : m + i \in 1 .. Len(u) /\ (m + 1) + i - 1 = m + i
    BY <1>0, <2>0
  <2> QED
    BY <1>0, <1>1, <2>0, <2>1
<1> HIDE DEF b
<1>4. /\ a \o t \in Seq(S) /\ Len(a \o t) = Len(a) + Len(t)
      /\ \A i \in 1 .. Len(a) + Len(t) : (a \o t)[i] = IF i <= Len(a) THEN a[i] ELSE t[i - Len(a)]
  BY <1>2, ConcatProperties
<1>5. Len(a \o t) = Len(b) /\ Len(b) = Len(s) + Len(t) - m
  BY <1>0, <1>1, <1>2, <1>3, <1>4
<1>6. \A i \in 1 .. Len(b) : (a \o t)[i] = b[i]
  <2> SUFFICES ASSUME NEW i \in 1 .. Len(b)
               PROVE  (a \o t)[i] = b[i]
    OBVIOUS
  <2>1. i \in Nat /\ i \in 1 .. Len(a) + Len(t) /\ i \in 1 .. Len(u) - m
        /\ m + i \in 1 .. Len(s) + Len(t)
    BY <1>0, <1>1, <1>2, <1>5
  <2>2. b[i] = u[m + i]
    BY <1>3, <2>1
  <2>3. ASSUME i <= Len(a)
        PROVE  (a \o t)[i] = b[i]
    <3>1. m + i <= Len(s) /\ i \in 1 .. Len(s) - m
      BY <1>0, <1>2, <2>1, <2>3
    <3> QED
      BY <1>1, <1>2, <1>4, <2>1, <2>2, <2>3, <3>1
  <2>4. ASSUME ~ (i <= Len(a))
        PROVE  (a \o t)[i] = b[i]
    <3>1. ~ (m + i <= Len(s)) /\ m + i - Len(s) = i - Len(a)
      BY <1>0, <1>2, <2>1, <2>4
    <3> QED
      <4>1. (a \o t)[i] = t[i - Len(a)]
        BY <1>4, <2>1, <2>4
      <4>2. u[m + i] = t[m + i - Len(s)]
        BY <1>1, <2>1, <3>1
      <4> QED
        BY <2>2, <3>1, <4>1, <4>2
  <2> QED
    BY <2>3, <2>4
<1>7. a \o t = b
  BY <1>3, <1>4, <1>5, <1>6, SeqEqual
<1> QED
  BY <1>2, <1>7 DEF a, b, u

\* The same under names that the provers leave unexpanded.
Rest(s, m) == SubSeq(s, m + 1, Len(s))

LEMMA RestCat ==
  ASSUME NEW S, NEW s \in Seq(S), NEW t \in Seq(S), NEW m \in 0 .. Len(s)
  PROVE  Rest(s, m) \in Seq(S) /\ Cat(Rest(s, m), t) = Rest(Cat(s, t), m)
BY RestConcat DEF Rest, Cat

\* Decoding moves whole frames from the bytes to the list, and loses none.
LEMMA FilterStep ==
  ASSUME EInv, NEW chunk \in 1 .. Len(wire), Filter(chunk)
  PROVE  EInv'
<1> DEFINE S == Frames
           taking == SubSeq(wire, 1, chunk)
           rest == SubSeq(wire, chunk + 1, Len(wire))
           bytes == buffer \o taking
           all == buffer \o wire
           n == Decodable(bytes)
           x == [i \in 1 .. n |-> bytes[2 * i]]
           q == Reverse(frames)
<1>1. /\ live /\ phase \in {"idle", "wait"}
      /\ wire' = rest /\ frames' = Reverse(x) \o frames
      /\ buffer' = SubSeq(bytes, 2 * n + 1, Len(bytes))
      /\ conn' = conn /\ live' = live /\ next_id' = next_id /\ phase' = phase
      /\ pending' = pending /\ call' = call /\ jobs' = jobs /\ shown' = shown
      /\ last' = last /\ taken' = taken
  BY DEF Filter, command, history
<1>2. buffer \in Seq(S) /\ wire \in Seq(S) /\ frames \in Seq(S)
  BY DEF EInv, TypeInv
<1>3. Streamed(all, q, Due \ taken)
  BY <1>1 DEF EInv, StreamInv
<1>d. \A b \in Seq(S) : (\A k \in 1 .. Len(b) \div 2 : b[2 * k - 1] = b[2 * k])
                           => Decodable(b) \in 0 .. Len(b) \div 2
  BY DecodableIs
<1> HIDE DEF S
<1>4. taking \in Seq(S) /\ rest \in Seq(S) /\ taking \o rest = wire
  BY <1>2, CutConcat
<1> HIDE DEF taking, rest
<1>5. bytes \in Seq(S) /\ all \in Seq(S) /\ bytes \o rest = all
  <2>1. buffer \in Seq(S) /\ taking \in Seq(S) /\ rest \in Seq(S)
    BY <1>2, <1>4
  <2>2. (buffer \o taking) \o rest = buffer \o (taking \o rest)
    <3>1. Cat(Cat(buffer, taking), rest) = Cat(buffer, Cat(taking, rest))
      BY <2>1, CatAssoc
    <3> QED
      BY <3>1 DEF Cat
  <2>3. buffer \o taking \in Seq(S) /\ buffer \o wire \in Seq(S)
    BY <1>2, <2>1, ConcatProperties
  <2> QED
    BY <1>4, <2>2, <2>3
<1> HIDE DEF bytes, all
<1>6. /\ Len(all) = Len(bytes) + Len(rest) /\ Len(bytes) \in Nat /\ Len(rest) \in Nat
      /\ \A i \in 1 .. Len(bytes) : all[i] = bytes[i]
  <2>1. /\ Len(bytes \o rest) = Len(bytes) + Len(rest)
        /\ \A i \in 1 .. Len(bytes) + Len(rest) :
              (bytes \o rest)[i] = IF i <= Len(bytes) THEN bytes[i] ELSE rest[i - Len(bytes)]
    BY <1>4, <1>5, ConcatProperties
  <2>2. Len(bytes) \in Nat /\ Len(rest) \in Nat
    BY <1>4, <1>5
  <2>3. \A i \in 1 .. Len(bytes) : i \in 1 .. Len(bytes) + Len(rest) /\ i <= Len(bytes)
    BY <2>2
  <2> QED
    BY <1>5, <2>1, <2>2, <2>3
<1>7. n \in 0 .. Len(bytes) \div 2 /\ n \in 0 .. Len(all) \div 2
  <2>1. ASSUME NEW k \in 1 .. Len(bytes) \div 2
        PROVE  bytes[2 * k - 1] = bytes[2 * k]
    <3>1. /\ 2 * k - 1 \in 1 .. Len(bytes) /\ 2 * k \in 1 .. Len(bytes)
          /\ k \in 1 .. Len(all) \div 2
      BY <1>6
    <3>2. all[2 * k - 1] = all[2 * k]
      BY <1>3, <3>1 DEF Streamed, Paired
    <3> QED
      BY <1>6, <3>1, <3>2
  <2>2. n \in 0 .. Len(bytes) \div 2
    BY <1>5, <1>d, <2>1
  <2> QED
    BY <1>6, <2>2
<1> HIDE DEF n
<1>8. n \in Nat /\ \A i \in 1 .. n : 2 * i \in 1 .. Len(bytes) /\ bytes[2 * i] = all[2 * i]
  BY <1>6, <1>7
<1>9. x \in Seq(S) /\ x = [i \in 1 .. n |-> all[2 * i]]
  <2>1. \A i \in 1 .. n : bytes[2 * i] \in S
    BY <1>5, <1>8
  <2> QED
    BY <1>8, <2>1
<1> HIDE DEF x
<1>10. /\ buffer' \in Seq(S)
       /\ buffer' \o wire' = SubSeq(all, 2 * n + 1, Len(all))
  <2>1. 2 * n \in 0 .. Len(bytes)
    BY <1>6, <1>7
  <2> QED
    <3>1. /\ SubSeq(bytes, 2 * n + 1, Len(bytes)) \in Seq(S)
          /\ SubSeq(bytes, 2 * n + 1, Len(bytes)) \o rest
                = SubSeq(bytes \o rest, 2 * n + 1, Len(bytes \o rest))
      <4>1. bytes \in Seq(S) /\ rest \in Seq(S)
        BY <1>4, <1>5
      <4>2. Rest(bytes, 2 * n) \in Seq(S)
            /\ Cat(Rest(bytes, 2 * n), rest) = Rest(Cat(bytes, rest), 2 * n)
        BY <2>1, <4>1, RestCat
      <4> QED
        BY <4>2 DEF Rest, Cat
    <3> QED
      BY <1>1, <1>5, <3>1, Zenon
<1>11. /\ frames' \in Seq(S) /\ Reverse(frames') = q \o x /\ q \in Seq(S)
       /\ Reverse(frames') \in Seq(S)
  <2>1. Reverse(x) \in Seq(S) /\ q \in Seq(S)
    BY <1>2, <1>9, ReverseIs
  <2>2. frames' \in Seq(S)
    BY <1>1, <1>2, <2>1, ConcatProperties
  <2>3. Reverse(frames') = q \o x
    BY <1>1, <1>2, <1>9, ReverseConcat
  <2> QED
    BY <2>1, <2>2, <2>3, ReverseIs
<1> HIDE DEF q
<1>12. Streamed(buffer' \o wire', Reverse(frames'), Due \ taken)
  <2>1. Streamed(SubSeq(all, 2 * n + 1, Len(all)),
                 q \o [i \in 1 .. n |-> all[2 * i]], Due \ taken)
    BY <1>3, <1>5, <1>7, <1>11, StreamedDecoded DEF S
  <2> QED
    BY <1>9, <1>10, <1>11, <2>1
<1>13. ListInv' /\ StreamInv'
  <2>1. Due' = Due
    BY <1>1, DueSame
  <2>2. buffer' \o wire' \in Seq(S)
    BY <1>1, <1>4, <1>10, ConcatProperties
  <2>3. Oldest(Reverse(frames'), Due \ taken)
    BY <1>11, <1>12, <2>2, StreamedOldest DEF S
  <2> QED
    BY <1>1, <1>12, <2>1, <2>3 DEF ListInv, StreamInv
<1>14. TypeInv'
  <2>1. wire' \in Seq(Frames) /\ buffer' \in Seq(Frames) /\ frames' \in Seq(Frames)
    BY <1>1, <1>4, <1>10, <1>11 DEF S
  <2> QED
    BY <1>1, <2>1 DEF EInv, TypeInv
<1>15. PhaseInv'
  BY <1>1 DEF EInv, PhaseInv
<1>16. JobsInv' /\ TakenInv'
  BY <1>1 DEF EInv, JobsInv, TakenInv
<1>17. ReturnInv'
  BY <1>1, CommandFacts, ReturnKept DEF EInv
<1> QED
  BY <1>13, <1>14, <1>15, <1>16, <1>17 DEF EInv

\* The frame a pass returns: the command's own, or any other for a hello on a
\* connection in use; and what it has shown by then.
LEMMA Found ==
  ASSUME EInv, phase \in {"scan", "wait"}, NEW q, q = Reverse(frames),
         NEW k \in 1 .. Len(q), Wanted(q[k])
  PROVE  /\ [job |-> call, frame |-> q[k], shown |-> Displays(q, k - 1)] \in Returns
         /\ q[k] \in Due \ taken /\ call \in DOMAIN jobs
         /\ \/ q[k].job = call
            \/ /\ jobs[call].kind = "hello" /\ call > 1
               /\ jobs[call - 1].conn = jobs[call].conn
         /\ jobs[call].kind = "eval" =>
               Displays(q, k - 1) = [n \in 1 .. jobs[call].displays |-> n]
<1> DEFINE f == q[k]
<1>1. /\ TypeInv /\ PhaseInv /\ JobsInv /\ Oldest(q, Due \ taken)
      /\ \A g \in taken : g.job < call
      /\ call = Len(jobs) /\ call >= 1 /\ jobs[call].conn = conn
  BY DEF EInv, ListInv, PhaseInv, TakenInv
<1>2. q \in Seq(Frames)
  BY CommandFacts, ReverseIs
<1>3. f \in Due \ taken /\ Range(q) \subseteq Due
  <2>1. f \in Range(q)
    BY <1>2 DEF Range
  <2> QED
    BY <1>1, <2>1 DEF Oldest
<1>4. call \in DOMAIN jobs /\ call \in 1 .. MaxJobs /\ jobs[call] \in Requests
  <2>1. call \in DOMAIN jobs
    BY <1>1, CommandFacts
  <2>2. call \in 1 .. MaxJobs
    BY <1>1, CommandFacts DEF JobsInv
  <2> QED
    BY <1>1, <2>1, <2>2 DEF TypeInv
<1>5. /\ f \in Frames /\ f.job \in DOMAIN jobs /\ jobs[f.job].conn = conn /\ f.job \in Nat
  BY <1>1, <1>3, DueIs
<1>6. ASSUME jobs[call].kind = "hello", f.job # call
      PROVE  call > 1 /\ jobs[call - 1].conn = jobs[call].conn
  <2>1. f.job <= call - 1 /\ call > 1 /\ call - 1 \in DOMAIN jobs /\ call - 1 <= call
    BY <1>1, <1>5, <1>6, CommandFacts, SMTT(30)
  <2>2. jobs[call - 1].conn >= conn /\ jobs[call - 1].conn <= conn
    <3>1. conn <= jobs[call - 1].conn
      <4>1. jobs[f.job].conn <= jobs[call - 1].conn
        BY <1>1, <1>5, <2>1 DEF JobsInv
      <4> QED
        BY <1>5, <4>1, Zenon
    <3>2. jobs[call - 1].conn <= conn
      BY <1>1, <2>1 DEF JobsInv
    <3>3. jobs[call - 1].conn \in Nat /\ conn \in Nat
      <4>1. jobs[call - 1] \in Requests
        BY <1>1, <2>1 DEF TypeInv
      <4> QED
        BY <1>1, <4>1, RequestIs, EmacsAssumption, SMTT(30) DEF TypeInv
    <3> QED
      BY <3>1, <3>2, <3>3
  <2>3. jobs[call - 1].conn \in Nat
    <3>1. jobs[call - 1] \in Requests
      BY <1>1, <2>1 DEF TypeInv
    <3> QED
      BY <3>1, RequestIs, EmacsAssumption
  <2> QED
    BY <1>1, <2>1, <2>2, <2>3, CommandFacts
<1>7. ASSUME jobs[call].kind = "eval"
      PROVE  /\ f.job = call
             /\ Displays(q, k - 1) = [n \in 1 .. jobs[call].displays |-> n]
  <2>1. f.job = call
    BY <1>1, <1>3, <1>4, <1>7, OwnFrames
  <2>2. Displays(q, k - 1) = [n \in 1 .. jobs[call].displays |-> n]
    BY <1>1, <1>2, <1>4, <1>7, DisplaysAll
  <2> QED
    BY <2>1, <2>2
<1>8. Displays(q, k - 1) \in Seq(1 .. MaxDisplays)
  <2>1. k - 1 \in 0 .. Len(q)
    BY <1>2
  <2> QED
    BY <1>1, <1>2, <1>3, <1>4, <2>1, DisplaysType
<1>9. [job |-> call, frame |-> f, shown |-> Displays(q, k - 1)] \in Returns
  BY <1>4, <1>5, <1>8 DEF Returns
<1>10. \/ f.job = call
       \/ /\ jobs[call].kind = "hello" /\ call > 1
          /\ jobs[call - 1].conn = jobs[call].conn
  <2>1. jobs[call].kind \in {"hello", "eval"}
    BY <1>4, RequestIs
  <2> QED
    BY <1>6, <1>7, <2>1
<1>11. jobs[call].kind = "eval" =>
          Displays(q, k - 1) = [n \in 1 .. jobs[call].displays |-> n]
  BY <1>7
<1>12. call \in DOMAIN jobs /\ f \in Due \ taken
  BY <1>3, <1>4
<1> QED
  BY <1>9, <1>10, <1>11, <1>12

LEMMA ReturnNew ==
  ASSUME EInv, phase \in {"scan", "wait"}, NEW q, q = Reverse(frames),
         NEW k \in 1 .. Len(q), Wanted(q[k]),
         last' = [job |-> call, frame |-> q[k], shown |-> Displays(q, k - 1)],
         \A j \in DOMAIN jobs : j \in DOMAIN jobs' /\ jobs'[j] = jobs[j]
  PROVE  ReturnInv' /\ last' \in Returns
<1>1. /\ last' \in Returns /\ call \in DOMAIN jobs
      /\ \/ q[k].job = call
         \/ /\ jobs[call].kind = "hello" /\ call > 1
            /\ jobs[call - 1].conn = jobs[call].conn
      /\ jobs[call].kind = "eval" =>
            Displays(q, k - 1) = [n \in 1 .. jobs[call].displays |-> n]
  BY Found
<1>2. /\ last'.job = call /\ last'.frame = q[k] /\ last'.shown = Displays(q, k - 1)
      /\ call \in DOMAIN jobs' /\ jobs'[call] = jobs[call]
      /\ call > 1 => jobs'[call - 1] = jobs[call - 1]
  <2>1. call > 1 => call - 1 \in DOMAIN jobs
    BY <1>1, CommandFacts
  <2> QED
    BY <1>1, <2>1
<1>3. AnswersItsOwn'
  BY <1>1, <1>2 DEF AnswersItsOwn
<1>4. OutputComplete'
  BY <1>1, <1>2 DEF OutputComplete
<1> QED
  BY <1>1, <1>2, <1>3, <1>4 DEF ReturnInv

LEMMA ScanStep ==
  ASSUME EInv, Scan
  PROVE  EInv'
<1> DEFINE q == Reverse(frames)
           hits == {i \in DOMAIN q : Wanted(q[i])}
           k == Min(hits)
<1>1. /\ phase \in {"scan", "wait"} /\ live' = live /\ buffer' = buffer
      /\ next_id' = next_id
  BY DEF Scan
<1>2. /\ TypeInv /\ PhaseInv /\ JobsInv /\ TakenInv /\ q \in Seq(Frames)
      /\ Oldest(q, Due \ taken) /\ DOMAIN q = 1 .. Len(q) /\ Len(q) \in Nat
      /\ call = Len(jobs) /\ call >= 1 /\ call \in DOMAIN jobs
  <2>1. q \in Seq(Frames)
    BY CommandFacts, ReverseIs
  <2>2. call = Len(jobs) /\ call >= 1
    BY <1>1 DEF EInv, PhaseInv
  <2>3. DOMAIN q = 1 .. Len(q) /\ Len(q) \in Nat
    BY <2>1
  <2>4. Oldest(q, Due \ taken)
    BY DEF EInv, ListInv
  <2> HIDE DEF q
  <2> QED
    BY <2>1, <2>2, <2>3, <2>4, CommandFacts DEF EInv
<1>3. ASSUME hits = {}
      PROVE  EInv'
  <2>1. /\ phase' = "wait" /\ shown' = Displays(q, Len(q))
        /\ conn' = conn /\ wire' = wire /\ frames' = frames /\ jobs' = jobs
        /\ pending' = pending /\ call' = call /\ last' = last /\ taken' = taken
    BY <1>3 DEF Scan, OldestFirst
  <2>2. ListInv' /\ StreamInv' /\ ReturnInv'
    BY <1>1, <2>1, Quiet
  <2>3. shown' \in Seq(1 .. MaxDisplays)
    <3>1. Range(q) \subseteq Due /\ Len(q) \in 0 .. Len(q)
      BY <1>2 DEF Oldest
    <3> HIDE DEF q
    <3> QED
      BY <1>2, <2>1, <3>1, DisplaysType
  <2>4. TypeInv'
    BY <1>1, <2>1, <2>3 DEF EInv, TypeInv, Phases
  <2>5. PhaseInv'
    BY <1>1, <2>1 DEF EInv, PhaseInv
  <2>6. JobsInv' /\ TakenInv'
    BY <1>1, <2>1 DEF EInv, JobsInv, TakenInv
  <2> QED
    BY <2>2, <2>4, <2>5, <2>6 DEF EInv
<1>4. ASSUME hits # {}
      PROVE  EInv'
  <2>1. /\ frames' = Reverse(RemoveAt(q, k)) /\ taken' = taken \cup {q[k]}
        /\ last' = [job |-> call, frame |-> q[k], shown |-> Displays(q, k - 1)]
        /\ conn' = conn
        /\ IF pending # 0 /\ q[k].kind = "hello-ack" /\ live
           THEN Send("eval", pending)
           ELSE Idle /\ UNCHANGED <<wire, jobs, call, shown>>
    BY <1>4 DEF Scan, OldestFirst
  <2>2. k \in 1 .. Len(q) /\ Wanted(q[k])
    <3>1. hits \in SUBSET Nat
      BY <1>2
    <3> HIDE DEF q
    <3>2. k \in hits
      BY <1>4, <3>1, MinIs
    <3> QED
      BY <1>2, <3>2
  <2> HIDE DEF k
  <2>3. /\ q[k] \in Due \ taken /\ q[k] \in Frames /\ q[k].job \in DOMAIN jobs
    <3>1. q[k] \in Due \ taken
      BY <1>1, <2>2, Found
    <3> QED
      BY <1>2, <3>1, DueIs
  <2>4. /\ frames' \in Seq(Frames) /\ Reverse(frames') = RemoveAt(q, k)
    <3> DEFINE S == Frames
    <3>1. q \in Seq(S)
      BY <1>2
    <3> HIDE DEF S, q
    <3>2. RemoveAt(q, k) \in Seq(S)
      BY <2>2, <3>1, RemoveIs
    <3> QED
      BY <2>1, <3>2, ReverseIs, ReverseReverse DEF S
  <2>5. /\ taken' \subseteq Frames /\ \A f \in taken' : f.job \in DOMAIN jobs
        /\ Due \ taken' = (Due \ taken) \ {q[k]}
    <3> HIDE DEF q
    <3> QED
      BY <2>1, <2>3, CommandFacts
  <2>6. Oldest(Reverse(frames'), Due \ taken')
    <3> HIDE DEF q
    <3> QED
      BY <1>2, <2>2, <2>4, <2>5, OldestReturned
  <2>7. live => Streamed(buffer \o wire, Reverse(frames'), Due \ taken')
    <3>1. live => Streamed(buffer \o wire, q, Due \ taken)
      BY DEF EInv, StreamInv
    <3>2. buffer \o wire \in Seq(Frames)
      <4> DEFINE S == Frames
      <4>1. buffer \in Seq(S) /\ wire \in Seq(S)
        BY DEF EInv, TypeInv
      <4> HIDE DEF S
      <4> QED
        BY <4>1, ConcatProperties DEF S
    <3> HIDE DEF q
    <3>3. ASSUME live
          PROVE  Streamed(buffer \o wire, RemoveAt(q, k), (Due \ taken) \ {q[k]})
      BY <1>2, <2>2, <3>1, <3>2, <3>3, StreamedReturned
    <3> QED
      BY <2>4, <2>5, <3>3
  <2>8. ASSUME pending # 0, q[k].kind = "hello-ack", live
        PROVE  EInv'
    <3>1. Send("eval", pending)
      BY <2>1, <2>8
    <3>2. /\ pending \in 0 .. MaxEvals /\ pending >= 1 /\ pending < next_id'
          /\ next_id' \in 1 .. MaxEvals + 1 /\ next_id <= next_id'
          /\ Len(jobs) + 1 <= MaxJobs
      <4>1. pending \in 0 .. MaxEvals /\ next_id \in 1 .. MaxEvals + 1
        BY <1>2 DEF TypeInv
      <4>2. pending < next_id /\ Len(jobs) + 1 <= MaxJobs
        BY <1>1, <1>2, <2>8 DEF JobsInv, PhaseInv
      <4> QED
        BY <1>1, <2>8, <4>1, <4>2, CommandFacts
    <3>3. \A j \in DOMAIN jobs : jobs[j].kind = "eval" => jobs[j].id # pending
      BY <1>2 DEF JobsInv
    <3>4. /\ last' \in Returns \cup {None} => TypeInv'
          /\ PhaseInv' /\ JobsInv' /\ TakenInv' /\ ListInv' /\ StreamInv'
          /\ \A j \in DOMAIN jobs : j \in DOMAIN jobs' /\ jobs'[j] = jobs[j]
      BY <1>1, <1>2, <2>1, <2>4, <2>5, <2>7, <2>8, <3>1, <3>2, <3>3, SendStep
    <3>5. ReturnInv' /\ last' \in Returns
      BY <1>1, <2>1, <2>2, <3>4, ReturnNew
    <3> QED
      BY <3>4, <3>5 DEF EInv
  <2>9. ASSUME ~ (pending # 0 /\ q[k].kind = "hello-ack" /\ live)
        PROVE  EInv'
    <3>1. /\ phase' = "idle" /\ pending' = 0 /\ wire' = wire /\ jobs' = jobs
          /\ call' = call /\ shown' = shown
      BY <2>1, <2>9 DEF Idle
    <3>2. ReturnInv' /\ last' \in Returns
      BY <1>1, <2>1, <2>2, <3>1, ReturnNew
    <3>3. Due' = Due
      BY <2>1, <3>1, DueSame
    <3>4. ListInv' /\ StreamInv'
      BY <1>1, <2>6, <2>7, <3>1, <3>3 DEF ListInv, StreamInv
    <3>5. TypeInv'
      <4>1. 0 \in 0 .. MaxEvals
        BY EmacsAssumption
      <4> QED
        BY <1>1, <1>2, <2>1, <2>4, <2>5, <3>1, <3>2, <4>1 DEF TypeInv, Phases
    <3>6. PhaseInv' /\ TakenInv'
      BY <1>1, <1>2, <2>1, <2>5, <3>1 DEF PhaseInv, TakenInv
    <3>7. JobsInv'
      <4>1. ASSUME NEW j \in DOMAIN jobs, jobs[j].kind = "eval"
            PROVE  jobs[j].id # 0
        <5>1. jobs[j].id >= 1
          BY <1>2, <4>1 DEF JobsInv
        <5> QED
          BY <5>1
      <4> QED
        BY <1>1, <1>2, <2>1, <3>1, <4>1, CommandFacts DEF JobsInv
    <3> QED
      BY <3>2, <3>4, <3>5, <3>6, <3>7 DEF EInv
  <2> QED
    BY <2>8, <2>9
<1> QED
  BY <1>3, <1>4

-----------------------------------------------------------------------------
(* The theorems.                                                            *)

\* The client keeps its invariant: what the list and the connection hold is
\* what the daemon answers this connection's requests with, in order, less
\* what was returned.  (ma-ipc.el)
THEOREM EmacsInvariant == Spec => []EInv
<1>1. Init => EInv
  BY InitHolds
<1>2. ASSUME EInv, [Next]_vars
      PROVE  EInv'
  <2>1. CASE Eval
    BY <1>2, <2>1, EvalStep
  <2>2. CASE Connect
    BY <1>2, <2>2, ConnectStep
  <2>3. CASE Disconnect
    BY <1>2, <2>3, DisconnectStep
  <2>4. CASE OpenProcess
    BY <1>2, <2>4, OpenProcessStep
  <2>5. CASE Scan
    BY <1>2, <2>5, ScanStep
  <2>6. CASE Abandon
    BY <1>2, <2>6, AbandonStep
  <2>7. ASSUME NEW chunk \in 1 .. Len(wire), Filter(chunk)
        PROVE  EInv'
    BY <1>2, <2>7, FilterStep
  <2>8. CASE Closed
    BY <1>2, <2>8, ClosedStep
  <2>9. CASE UNCHANGED vars
    BY <1>2, <2>9, StutterStep
  <2> QED
    BY <1>2, <2>1, <2>2, <2>3, <2>4, <2>5, <2>6, <2>7, <2>8, <2>9 DEF Next
<1> QED
  BY <1>1, <1>2, PTL DEF Spec

\* Every variable keeps its type.  (ma-ipc.el)
THEOREM TypeCorrect == Spec => []TypeOK
<1>1. EInv => TypeOK
  BY DEF EInv, TypeInv, PhaseInv, TypeOK
<1> QED
  BY <1>1, EmacsInvariant, PTL

\* An evaluation returns its own result, and a hello that opens a connection
\* its acknowledgment.  (ma-ipc-eval, ma-ipc-connect)
THEOREM AnswersItsOwnHolds == Spec => []AnswersItsOwn
<1>1. EInv => AnswersItsOwn
  BY DEF EInv, ReturnInv
<1> QED
  BY <1>1, EmacsInvariant, PTL

\* An evaluation that returns has shown all it displayed, in order.
\* (ma-ipc-eval)
THEOREM OutputCompleteHolds == Spec => []OutputComplete
<1>1. EInv => OutputComplete
  BY DEF EInv, ReturnInv
<1> QED
  BY <1>1, EmacsInvariant, PTL

\* However the bytes are cut, no frame of a live connection is lost, doubled or
\* out of order.  (ma-ipc--process-filter, ma-ipc--pop-response)
THEOREM NothingLostHolds == Spec => []NothingLost
<1>1. ASSUME EInv
      PROVE  NothingLost
  <2> SUFFICES ASSUME live
               PROVE  NothingLost
    BY DEF NothingLost
  <2>1. Streamed(buffer \o wire, Reverse(frames), Due \ taken)
    BY <1>1 DEF EInv, StreamInv
  <2>2. buffer \o wire \in Seq(Frames)
    <3> DEFINE S == Frames
    <3>1. buffer \in Seq(S) /\ wire \in Seq(S)
      BY <1>1 DEF EInv, TypeInv
    <3> HIDE DEF S
    <3> QED
      BY <3>1, ConcatProperties DEF S
  <2>3. buffer \o wire = Parts(Whole(buffer \o wire))
    BY <2>1, <2>2, PairedIs DEF Streamed
  <2> QED
    BY <2>1, <2>3 DEF NothingLost, Arrived, Streamed
<1> QED
  BY <1>1, EmacsInvariant, PTL

=============================================================================
