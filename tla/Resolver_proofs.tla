-------------------------- MODULE Resolver_proofs ---------------------------
(***************************************************************************)
(* Proofs about Resolver: a command is cut at its first keyword, and what a *)
(* reference resolves to, for any words, entries and pools.                 *)
(*                                                                          *)
(* The functions of a list call themselves on the rest of it.  That such a  *)
(* function exists and what it is at each position is one lemma (Descent)   *)
(* and one more per function (BeforeFrom ... CandidatesFrom); what it       *)
(* computes then follows from the end of the list backwards (Backwards).    *)
(* The properties follow from what each resolver answers, because a request *)
(* does not change and is answered by the function of its verb (AnswerInv). *)
(***************************************************************************)
EXTENDS Resolver, WellFoundedInduction, TLAPS

-----------------------------------------------------------------------------
(* Functions of the position where the rest of a list begins.               *)

LEMMA LeastNumber ==
  ASSUME NEW T, T \subseteq Nat, T # {}
  PROVE  \E m \in T : \A y \in T : m <= y
<1>1. IsWellFoundedOn(OpToRel(<, Nat), Nat)
  BY NatLessThanWellFounded
<1>2. PICK m \in T : \A y \in T : ~ (<<y, m>> \in OpToRel(<, Nat))
  BY <1>1, WFMin
<1>3. \A y \in T : ~ (y < m)
  BY <1>2 DEF OpToRel
<1> QED
  BY <1>3

\* What holds at the end, and at a position if it holds at the next one, holds
\* at every position.
LEMMA Backwards ==
  ASSUME NEW n \in Nat, NEW P, n + 1 \in P,
         \A i \in 1 .. n : i + 1 \in P => i \in P
  PROVE  \A i \in 1 .. n + 1 : i \in P
<1> DEFINE T == {k \in 0 .. n : n + 1 - k \notin P}
<1>1. T = {}
  <2> SUFFICES ASSUME T # {}
               PROVE  FALSE
    OBVIOUS
  <2>1. T \subseteq Nat
    OBVIOUS
  <2>2. PICK m \in T : \A y \in T : m <= y
    BY <2>1, LeastNumber
  <2>3. m \in 1 .. n
    OBVIOUS
  <2>4. m - 1 \in 0 .. n /\ ~ (m <= m - 1) /\ n + 1 - m \in 1 .. n
    BY <2>3
  <2>5. n + 1 - (m - 1) \in P
    BY <2>2, <2>4
  <2>6. n + 1 - (m - 1) = (n + 1 - m) + 1
    BY <2>3
  <2> QED
    BY <2>4, <2>5, <2>6
<1> SUFFICES ASSUME NEW i \in 1 .. n + 1
             PROVE  i \in P
  OBVIOUS
<1>2. n + 1 - i \in 0 .. n /\ n + 1 - (n + 1 - i) = i
  OBVIOUS
<1>3. n + 1 - i \notin T
  BY <1>1
<1> QED
  BY <1>2, <1>3

\* A value for the end and, for each position, a value from the next one's
\* make up a function of the position.
Descends(f, n, R, end, step) ==
    /\ f \in [1 .. n + 1 -> R] /\ f[n + 1] = end
    /\ \A i \in 1 .. n : f[i] = step[i][f[i + 1]]

LEMMA Descent ==
  ASSUME NEW n \in Nat, NEW R, NEW end \in R, NEW step \in [1 .. n -> [R -> R]]
  PROVE  \E f : Descends(f, n, R, end, step)
<1> DEFINE Upto(f, k) ==
             f[n + 1] = end /\ \A i \in k .. n : f[i] = step[i][f[i + 1]]
           P == {k \in 1 .. n + 1 : \E f \in [1 .. n + 1 -> R] : Upto(f, k)}
<1>1. n + 1 \in P
  <2>1. [i \in 1 .. n + 1 |-> end] \in [1 .. n + 1 -> R]
        /\ [i \in 1 .. n + 1 |-> end][n + 1] = end
    OBVIOUS
  <2>2. \A i : i \notin n + 1 .. n
    OBVIOUS
  <2> QED
    BY <2>1, <2>2
<1>2. ASSUME NEW k \in 1 .. n, k + 1 \in P
      PROVE  k \in P
  <2>1. PICK f \in [1 .. n + 1 -> R] : Upto(f, k + 1)
    BY <1>2
  <2> DEFINE g == [f EXCEPT ![k] = step[k][f[k + 1]]]
  <2>2. k \in 1 .. n + 1 /\ k + 1 \in 1 .. n + 1 /\ k # k + 1 /\ n + 1 # k
    OBVIOUS
  <2>3. step[k][f[k + 1]] \in R
    BY <2>2
  <2>4. /\ g \in [1 .. n + 1 -> R] /\ g[k] = step[k][f[k + 1]]
        /\ \A i \in 1 .. n + 1 : i # k => g[i] = f[i]
    BY <2>2, <2>3
  <2>5. \A i \in k + 1 .. n : i \in 1 .. n + 1 /\ i + 1 \in 1 .. n + 1
                              /\ i # k /\ i + 1 # k
    OBVIOUS
  <2>6. \A i \in k .. n : i = k \/ i \in k + 1 .. n
    OBVIOUS
  <2> HIDE DEF g
  <2>7. Upto(g, k)
    BY <2>1, <2>2, <2>4, <2>5, <2>6
  <2> HIDE DEF Upto
  <2> QED
    BY <2>2, <2>4, <2>7
<1> HIDE DEF P
<1>3. \A k \in 1 .. n + 1 : k \in P
  BY <1>1, <1>2, Backwards
<1>4. 1 \in P
  BY <1>3
<1>5. PICK f \in [1 .. n + 1 -> R] : Upto(f, 1)
  BY <1>4 DEF P
<1> QED
  BY <1>5 DEF Descends

-----------------------------------------------------------------------------
(* Lists with a member in front, and the ends of a list.                    *)

LEMMA ConsIs ==
  ASSUME NEW S, NEW x \in S, NEW s \in Seq(S)
  PROVE  /\ <<x>> \o s \in Seq(S) /\ <<x>> \o s # <<>>
         /\ ToSet(<<x>> \o s) = {x} \cup ToSet(s)
         /\ x \notin ToSet(s) /\ IsInjective(s) => IsInjective(<<x>> \o s)
<1> DEFINE t == <<x>> \o s
<1>1. /\ t \in Seq(S) /\ Len(t) = Len(s) + 1 /\ Len(s) \in Nat
      /\ t[1] = x /\ \A i \in 1 .. Len(s) : t[i + 1] = s[i]
  OBVIOUS
<1>2. DOMAIN t = 1 .. Len(s) + 1 /\ DOMAIN s = 1 .. Len(s)
  BY <1>1
<1>3. \A i \in 1 .. Len(s) + 1 : i = 1 \/ (i - 1 \in 1 .. Len(s) /\ t[i] = s[i - 1])
  BY <1>1
<1>4. \A i \in 1 .. Len(s) : i + 1 \in 1 .. Len(s) + 1
  BY <1>1
<1>5. 1 \in 1 .. Len(s) + 1 /\ t # <<>>
  BY <1>1
<1> HIDE DEF t
<1>6. ToSet(t) = {x} \cup ToSet(s)
  <2>1. ASSUME NEW y \in ToSet(t)
        PROVE  y = x \/ y \in ToSet(s)
    <3>1. PICK i \in 1 .. Len(s) + 1 : t[i] = y
      BY <1>2 DEF ToSet
    <3>2. i = 1 \/ (i - 1 \in DOMAIN s /\ y = s[i - 1])
      BY <1>2, <1>3, <3>1
    <3> QED
      BY <1>1, <3>1, <3>2 DEF ToSet
  <2>2. x \in ToSet(t)
    BY <1>1, <1>2, <1>5 DEF ToSet
  <2>3. ASSUME NEW y \in ToSet(s)
        PROVE  y \in ToSet(t)
    BY <1>1, <1>2, <1>4 DEF ToSet
  <2> QED
    BY <2>1, <2>2, <2>3
<1>7. ASSUME x \notin ToSet(s), IsInjective(s)
      PROVE  IsInjective(t)
  <2> SUFFICES ASSUME NEW i \in 1 .. Len(s) + 1, NEW j \in 1 .. Len(s) + 1, t[i] = t[j]
               PROVE  i = j
    BY <1>2 DEF IsInjective
  <2>1. \A k \in 1 .. Len(s) : s[k] # x
    BY <1>2, <1>7 DEF ToSet
  <2>2. ASSUME i # 1, j # 1
        PROVE  i = j
    <3>1. s[i - 1] = s[j - 1] /\ i - 1 \in DOMAIN s /\ j - 1 \in DOMAIN s
      BY <1>2, <1>3, <2>2
    <3>2. i - 1 = j - 1
      BY <1>7, <3>1 DEF IsInjective
    <3> QED
      BY <1>1, <3>2
  <2> QED
    BY <1>1, <1>3, <2>1, <2>2
<1> QED
  BY <1>1, <1>5, <1>6, <1>7 DEF t

LEMMA CutIs ==
  ASSUME NEW S, NEW s \in Seq(S), NEW m \in 0 .. Len(s)
  PROVE  /\ SubSeq(s, m + 1, m) = <<>>
         /\ SubSeq(s, 1, Len(s)) = s
         /\ \A i \in 1 .. m : SubSeq(s, i, m) = <<s[i]>> \o SubSeq(s, i + 1, m)
<1>1. SubSeq(s, m + 1, m) = <<>>
  OBVIOUS
<1>2. SubSeq(s, 1, Len(s)) = s
  OBVIOUS
<1>3. ASSUME NEW i \in 1 .. m
      PROVE  SubSeq(s, i, m) = <<s[i]>> \o SubSeq(s, i + 1, m)
  OBVIOUS
<1> QED
  BY <1>1, <1>2, <1>3

-----------------------------------------------------------------------------
(* Each of the functions of a list, by what it is at every position.         *)

IsBefore(f, words, keyword) ==
    /\ words_before_keyword(words, keyword) = f[1]
    /\ f[Len(words) + 1] = <<>>
    /\ \A i \in 1 .. Len(words) :
          f[i] = IF words[i] = keyword THEN <<>>
                 ELSE <<words[i]>> \o f[i + 1]

LEMMA BeforeFrom ==
  ASSUME NEW S, NEW words \in Seq(S), NEW keyword
  PROVE  \E f : IsBefore(f, words, keyword)
<1> DEFINE n == Len(words)
           R == Seq(S)
           end == <<>>
           G(f, i) == IF i > n THEN end
                      ELSE IF words[i] = keyword THEN <<>>
                           ELSE <<words[i]>> \o f[i + 1]
           step == [i \in 1 .. n |-> [r \in R |->
                      IF words[i] = keyword THEN <<>>
                      ELSE <<words[i]>> \o r]]
           from == CHOOSE f : f = [i \in 1 .. n + 1 |-> G(f, i)]
<1>1. n \in Nat /\ end \in R
  OBVIOUS
<1>2. step \in [1 .. n -> [R -> R]]
  BY ConsIs
<1>3. words_before_keyword(words, keyword) = from[1]
  BY DEF words_before_keyword
<1> HIDE DEF n, R, end
<1>4. PICK f : Descends(f, n, R, end, step)
  <2> HIDE DEF step
  <2> QED
    BY <1>1, <1>2, Descent
<1>5. \A i \in 1 .. n + 1 : i = n + 1 \/ (i \in 1 .. n /\ ~ (i > n) /\ f[i + 1] \in R)
  BY <1>1, <1>4 DEF Descends
<1>6. n + 1 > n /\ n + 1 \in 1 .. n + 1
      /\ \A i \in 1 .. n : ~ (i > n) /\ i \in 1 .. n + 1
  BY <1>1
<1>7. ASSUME NEW i \in 1 .. n + 1
      PROVE  f[i] = G(f, i)
  <2>1. ASSUME i = n + 1
        PROVE  f[i] = G(f, i)
    BY <1>4, <1>6, <2>1 DEF Descends
  <2>2. ASSUME i \in 1 .. n, ~ (i > n), f[i + 1] \in R
        PROVE  f[i] = G(f, i)
    <3>1. f[i] = step[i][f[i + 1]]
      BY <1>4, <2>2 DEF Descends
    <3>2. step[i][f[i + 1]] =
             IF words[i] = keyword THEN <<>>
             ELSE <<words[i]>> \o f[i + 1]
      BY <2>2
    <3> QED
      BY <2>2, <3>1, <3>2
  <2> QED
    BY <1>5, <2>1, <2>2
<1>8. f = [i \in 1 .. n + 1 |-> G(f, i)]
  <2>1. f \in [1 .. n + 1 -> R]
    BY <1>4 DEF Descends
  <2> HIDE DEF G
  <2> QED
    BY <1>7, <2>1
<1>9. from = [i \in 1 .. n + 1 |-> G(from, i)]
  <2> HIDE DEF G
  <2> QED
    BY <1>8, Zenon
<1> HIDE DEF from
<1>10. from[n + 1] = end /\ \A i \in 1 .. n : from[i] = G(from, i) /\ ~ (i > n)
  BY <1>6, <1>9
<1>11. IsBefore(from, words, keyword)
  BY <1>3, <1>10 DEF n, end, IsBefore
<1> QED
  BY <1>11

IsAfter(f, words, keyword) ==
    /\ words_after_keyword(words, keyword) = f[1]
    /\ f[Len(words) + 1] = None
    /\ \A i \in 1 .. Len(words) :
          f[i] = IF words[i] = keyword THEN SubSeq(words, i + 1, Len(words))
                 ELSE f[i + 1]

LEMMA AfterFrom ==
  ASSUME NEW S, NEW words \in Seq(S), NEW keyword
  PROVE  \E f : IsAfter(f, words, keyword)
<1> DEFINE n == Len(words)
           R == Seq(S) \cup {None}
           end == None
           G(f, i) == IF i > n THEN end
                      ELSE IF words[i] = keyword THEN SubSeq(words, i + 1, Len(words))
                           ELSE f[i + 1]
           step == [i \in 1 .. n |-> [r \in R |->
                      IF words[i] = keyword THEN SubSeq(words, i + 1, Len(words))
                      ELSE r]]
           from == CHOOSE f : f = [i \in 1 .. n + 1 |-> G(f, i)]
<1>1. n \in Nat /\ end \in R
  OBVIOUS
<1>2. step \in [1 .. n -> [R -> R]]
  OBVIOUS
<1>3. words_after_keyword(words, keyword) = from[1]
  BY DEF words_after_keyword
<1> HIDE DEF n, R, end
<1>4. PICK f : Descends(f, n, R, end, step)
  <2> HIDE DEF step
  <2> QED
    BY <1>1, <1>2, Descent
<1>5. \A i \in 1 .. n + 1 : i = n + 1 \/ (i \in 1 .. n /\ ~ (i > n) /\ f[i + 1] \in R)
  BY <1>1, <1>4 DEF Descends
<1>6. n + 1 > n /\ n + 1 \in 1 .. n + 1
      /\ \A i \in 1 .. n : ~ (i > n) /\ i \in 1 .. n + 1
  BY <1>1
<1>7. ASSUME NEW i \in 1 .. n + 1
      PROVE  f[i] = G(f, i)
  <2>1. ASSUME i = n + 1
        PROVE  f[i] = G(f, i)
    BY <1>4, <1>6, <2>1 DEF Descends
  <2>2. ASSUME i \in 1 .. n, ~ (i > n), f[i + 1] \in R
        PROVE  f[i] = G(f, i)
    <3>1. f[i] = step[i][f[i + 1]]
      BY <1>4, <2>2 DEF Descends
    <3>2. step[i][f[i + 1]] =
             IF words[i] = keyword THEN SubSeq(words, i + 1, Len(words))
             ELSE f[i + 1]
      BY <2>2
    <3> QED
      BY <2>2, <3>1, <3>2
  <2> QED
    BY <1>5, <2>1, <2>2
<1>8. f = [i \in 1 .. n + 1 |-> G(f, i)]
  <2>1. f \in [1 .. n + 1 -> R]
    BY <1>4 DEF Descends
  <2> HIDE DEF G
  <2> QED
    BY <1>7, <2>1
<1>9. from = [i \in 1 .. n + 1 |-> G(from, i)]
  <2> HIDE DEF G
  <2> QED
    BY <1>8, Zenon
<1> HIDE DEF from
<1>10. from[n + 1] = end /\ \A i \in 1 .. n : from[i] = G(from, i) /\ ~ (i > n)
  BY <1>6, <1>9
<1>11. IsAfter(from, words, keyword)
  BY <1>3, <1>10 DEF n, end, IsAfter
<1> QED
  BY <1>11

IsFilter(f, T, lst) ==
    /\ filter(T, lst) = f[1]
    /\ f[Len(lst) + 1] = <<>>
    /\ \A i \in 1 .. Len(lst) :
          f[i] = IF lst[i] \in T THEN <<lst[i]>> \o f[i + 1] ELSE f[i + 1]

LEMMA FilterFrom ==
  ASSUME NEW S, NEW lst \in Seq(S), NEW T
  PROVE  \E f : IsFilter(f, T, lst)
<1> DEFINE n == Len(lst)
           R == Seq(S)
           end == <<>>
           G(f, i) == IF i > n THEN end
                      ELSE IF lst[i] \in T THEN <<lst[i]>> \o f[i + 1] ELSE f[i + 1]
           step == [i \in 1 .. n |-> [r \in R |->
                      IF lst[i] \in T THEN <<lst[i]>> \o r ELSE r]]
           from == CHOOSE f : f = [i \in 1 .. n + 1 |-> G(f, i)]
<1>1. n \in Nat /\ end \in R
  OBVIOUS
<1>2. step \in [1 .. n -> [R -> R]]
  BY ConsIs
<1>3. filter(T, lst) = from[1]
  BY DEF filter
<1> HIDE DEF n, R, end
<1>4. PICK f : Descends(f, n, R, end, step)
  <2> HIDE DEF step
  <2> QED
    BY <1>1, <1>2, Descent
<1>5. \A i \in 1 .. n + 1 : i = n + 1 \/ (i \in 1 .. n /\ ~ (i > n) /\ f[i + 1] \in R)
  BY <1>1, <1>4 DEF Descends
<1>6. n + 1 > n /\ n + 1 \in 1 .. n + 1
      /\ \A i \in 1 .. n : ~ (i > n) /\ i \in 1 .. n + 1
  BY <1>1
<1>7. ASSUME NEW i \in 1 .. n + 1
      PROVE  f[i] = G(f, i)
  <2>1. ASSUME i = n + 1
        PROVE  f[i] = G(f, i)
    BY <1>4, <1>6, <2>1 DEF Descends
  <2>2. ASSUME i \in 1 .. n, ~ (i > n), f[i + 1] \in R
        PROVE  f[i] = G(f, i)
    <3>1. f[i] = step[i][f[i + 1]]
      BY <1>4, <2>2 DEF Descends
    <3>2. step[i][f[i + 1]] =
             IF lst[i] \in T THEN <<lst[i]>> \o f[i + 1] ELSE f[i + 1]
      BY <2>2
    <3> QED
      BY <2>2, <3>1, <3>2
  <2> QED
    BY <1>5, <2>1, <2>2
<1>8. f = [i \in 1 .. n + 1 |-> G(f, i)]
  <2>1. f \in [1 .. n + 1 -> R]
    BY <1>4 DEF Descends
  <2> HIDE DEF G
  <2> QED
    BY <1>7, <2>1
<1>9. from = [i \in 1 .. n + 1 |-> G(from, i)]
  <2> HIDE DEF G
  <2> QED
    BY <1>8, Zenon
<1> HIDE DEF from
<1>10. from[n + 1] = end /\ \A i \in 1 .. n : from[i] = G(from, i) /\ ~ (i > n)
  BY <1>6, <1>9
<1>11. IsFilter(from, T, lst)
  BY <1>3, <1>10 DEF n, end, IsFilter
<1> QED
  BY <1>11

IsUnique(f, lst) ==
    /\ unique_list(lst) = f[1]
    /\ f[Len(lst) + 1] = <<>>
    /\ \A i \in 1 .. Len(lst) :
          f[i] = IF \E j \in i + 1 .. Len(lst) : lst[j] = lst[i]
                 THEN f[i + 1] ELSE <<lst[i]>> \o f[i + 1]

LEMMA UniqueFrom ==
  ASSUME NEW S, NEW lst \in Seq(S)
  PROVE  \E f : IsUnique(f, lst)
<1> DEFINE n == Len(lst)
           R == Seq(S)
           end == <<>>
           G(f, i) == IF i > n THEN end
                      ELSE IF \E j \in i + 1 .. Len(lst) : lst[j] = lst[i]
                           THEN f[i + 1] ELSE <<lst[i]>> \o f[i + 1]
           step == [i \in 1 .. n |-> [r \in R |->
                      IF \E j \in i + 1 .. Len(lst) : lst[j] = lst[i]
                      THEN r ELSE <<lst[i]>> \o r]]
           from == CHOOSE f : f = [i \in 1 .. n + 1 |-> G(f, i)]
<1>1. n \in Nat /\ end \in R
  OBVIOUS
<1>2. step \in [1 .. n -> [R -> R]]
  BY ConsIs
<1>3. unique_list(lst) = from[1]
  BY DEF unique_list
<1> HIDE DEF n, R, end
<1>4. PICK f : Descends(f, n, R, end, step)
  <2> HIDE DEF step
  <2> QED
    BY <1>1, <1>2, Descent
<1>5. \A i \in 1 .. n + 1 : i = n + 1 \/ (i \in 1 .. n /\ ~ (i > n) /\ f[i + 1] \in R)
  BY <1>1, <1>4 DEF Descends
<1>6. n + 1 > n /\ n + 1 \in 1 .. n + 1
      /\ \A i \in 1 .. n : ~ (i > n) /\ i \in 1 .. n + 1
  BY <1>1
<1>7. ASSUME NEW i \in 1 .. n + 1
      PROVE  f[i] = G(f, i)
  <2>1. ASSUME i = n + 1
        PROVE  f[i] = G(f, i)
    BY <1>4, <1>6, <2>1 DEF Descends
  <2>2. ASSUME i \in 1 .. n, ~ (i > n), f[i + 1] \in R
        PROVE  f[i] = G(f, i)
    <3>1. f[i] = step[i][f[i + 1]]
      BY <1>4, <2>2 DEF Descends
    <3>2. step[i][f[i + 1]] =
             IF \E j \in i + 1 .. Len(lst) : lst[j] = lst[i]
             THEN f[i + 1] ELSE <<lst[i]>> \o f[i + 1]
      BY <2>2
    <3> QED
      BY <2>2, <3>1, <3>2
  <2> QED
    BY <1>5, <2>1, <2>2
<1>8. f = [i \in 1 .. n + 1 |-> G(f, i)]
  <2>1. f \in [1 .. n + 1 -> R]
    BY <1>4 DEF Descends
  <2> HIDE DEF G
  <2> QED
    BY <1>7, <2>1
<1>9. from = [i \in 1 .. n + 1 |-> G(from, i)]
  <2> HIDE DEF G
  <2> QED
    BY <1>8, Zenon
<1> HIDE DEF from
<1>10. from[n + 1] = end /\ \A i \in 1 .. n : from[i] = G(from, i) /\ ~ (i > n)
  BY <1>6, <1>9
<1>11. IsUnique(from, lst)
  BY <1>3, <1>10 DEF n, end, IsUnique
<1> QED
  BY <1>11

AreCandidates(f, word, pool, keys) ==
    /\ candidates_by_keys(word, pool, keys) = f[1]
    /\ f[Len(keys) + 1] = <<>>
    /\ \A i \in 1 .. Len(keys) :
          f[i] = IF hits(word, pool, keys[i]) = <<>> THEN f[i + 1]
                 ELSE hits(word, pool, keys[i])

LEMMA CandidatesFrom ==
  ASSUME NEW K, NEW keys \in Seq(K), NEW word, NEW pool
  PROVE  \E f : AreCandidates(f, word, pool, keys)
<1> DEFINE n == Len(keys)
           R == {<<>>} \cup {hits(word, pool, k) : k \in K}
           end == <<>>
           G(f, i) == IF i > n THEN end
                      ELSE IF hits(word, pool, keys[i]) = <<>> THEN f[i + 1]
                           ELSE hits(word, pool, keys[i])
           step == [i \in 1 .. n |-> [r \in R |->
                      IF hits(word, pool, keys[i]) = <<>> THEN r
                      ELSE hits(word, pool, keys[i])]]
           from == CHOOSE f : f = [i \in 1 .. n + 1 |-> G(f, i)]
<1>1. n \in Nat /\ end \in R
  OBVIOUS
<1>2. step \in [1 .. n -> [R -> R]]
  OBVIOUS
<1>3. candidates_by_keys(word, pool, keys) = from[1]
  BY DEF candidates_by_keys
<1> HIDE DEF n, R, end
<1>4. PICK f : Descends(f, n, R, end, step)
  <2> HIDE DEF step
  <2> QED
    BY <1>1, <1>2, Descent
<1>5. \A i \in 1 .. n + 1 : i = n + 1 \/ (i \in 1 .. n /\ ~ (i > n) /\ f[i + 1] \in R)
  BY <1>1, <1>4 DEF Descends
<1>6. n + 1 > n /\ n + 1 \in 1 .. n + 1
      /\ \A i \in 1 .. n : ~ (i > n) /\ i \in 1 .. n + 1
  BY <1>1
<1>7. ASSUME NEW i \in 1 .. n + 1
      PROVE  f[i] = G(f, i)
  <2>1. ASSUME i = n + 1
        PROVE  f[i] = G(f, i)
    BY <1>4, <1>6, <2>1 DEF Descends
  <2>2. ASSUME i \in 1 .. n, ~ (i > n), f[i + 1] \in R
        PROVE  f[i] = G(f, i)
    <3>1. f[i] = step[i][f[i + 1]]
      BY <1>4, <2>2 DEF Descends
    <3>2. step[i][f[i + 1]] =
             IF hits(word, pool, keys[i]) = <<>> THEN f[i + 1]
             ELSE hits(word, pool, keys[i])
      BY <2>2
    <3> QED
      BY <2>2, <3>1, <3>2
  <2> QED
    BY <1>5, <2>1, <2>2
<1>8. f = [i \in 1 .. n + 1 |-> G(f, i)]
  <2>1. f \in [1 .. n + 1 -> R]
    BY <1>4 DEF Descends
  <2> HIDE DEF G
  <2> QED
    BY <1>7, <2>1
<1>9. from = [i \in 1 .. n + 1 |-> G(from, i)]
  <2> HIDE DEF G
  <2> QED
    BY <1>8, Zenon
<1> HIDE DEF from
<1>10. from[n + 1] = end /\ \A i \in 1 .. n : from[i] = G(from, i) /\ ~ (i > n)
  BY <1>6, <1>9
<1>11. AreCandidates(from, word, pool, keys)
  BY <1>3, <1>10 DEF n, end, AreCandidates
<1> QED
  BY <1>11

-----------------------------------------------------------------------------
(* The split at a keyword (words-before-keyword, words-after-keyword).       *)

\* Behind the m-th word stands the first keyword, or nothing.
Stops(words, keyword, m) ==
    /\ m \in 0 .. Len(words) /\ \A j \in 1 .. m : words[j] # keyword
    /\ m < Len(words) => words[m + 1] = keyword

LEMMA CutAt ==
  ASSUME NEW S, NEW words \in Seq(S), NEW keyword, NEW m, Stops(words, keyword, m)
  PROVE  /\ words_before_keyword(words, keyword) = SubSeq(words, 1, m)
         /\ words_after_keyword(words, keyword) =
               IF m = Len(words) THEN None ELSE SubSeq(words, m + 2, Len(words))
<1> DEFINE n == Len(words)
           tail == IF m = n THEN None ELSE SubSeq(words, m + 2, n)
<1>1. /\ n \in Nat /\ m \in Nat /\ 1 \in 1 .. m + 1
      /\ \A i \in 1 .. m : i \in 1 .. n
      /\ m # n => m + 1 \in 1 .. n /\ words[m + 1] = keyword /\ m + 1 + 1 = m + 2
      /\ \A j \in 1 .. m : words[j] # keyword
      /\ m \in 0 .. n
  BY DEF Stops
<1>2. PICK f : /\ words_before_keyword(words, keyword) = f[1]
               /\ f[n + 1] = <<>>
               /\ \A i \in 1 .. n : f[i] = IF words[i] = keyword THEN <<>>
                                           ELSE <<words[i]>> \o f[i + 1]
  <2>1. PICK h : IsBefore(h, words, keyword)
    BY BeforeFrom
  <2> QED
    BY <2>1 DEF IsBefore
<1>3. PICK g : /\ words_after_keyword(words, keyword) = g[1]
               /\ g[n + 1] = None
               /\ \A i \in 1 .. n : g[i] = IF words[i] = keyword
                                           THEN SubSeq(words, i + 1, n)
                                           ELSE g[i + 1]
  <2>1. PICK h : IsAfter(h, words, keyword)
    BY AfterFrom
  <2> QED
    BY <2>1 DEF IsAfter
<1> DEFINE P == {i \in 1 .. m + 1 : f[i] = SubSeq(words, i, m)}
           Q == {i \in 1 .. m + 1 : g[i] = tail}
<1> HIDE DEF n
<1>4. \A i \in 1 .. m + 1 : i \in P
  <2>1. m + 1 \in P
    <3>1. f[m + 1] = <<>>
      BY <1>1, <1>2
    <3>2. SubSeq(words, m + 1, m) = <<>> /\ m + 1 \in 1 .. m + 1
      BY <1>1, CutIs
    <3> QED
      BY <3>1, <3>2
  <2>2. ASSUME NEW i \in 1 .. m, i + 1 \in P
        PROVE  i \in P
    <3>1. f[i] = <<words[i]>> \o f[i + 1]
      BY <1>1, <1>2
    <3>2. SubSeq(words, i, m) = <<words[i]>> \o SubSeq(words, i + 1, m)
      BY <1>1, CutIs DEF n
    <3>3. i \in 1 .. m + 1
      BY <1>1
    <3> QED
      BY <2>2, <3>1, <3>2, <3>3
  <2> HIDE DEF P
  <2> QED
    BY <1>1, <2>1, <2>2, Backwards
<1>5. \A i \in 1 .. m + 1 : i \in Q
  <2>1. m + 1 \in Q
    <3>1. m + 1 \in 1 .. m + 1
      BY <1>1
    <3>2. g[m + 1] = tail
      BY <1>1, <1>3
    <3> QED
      BY <3>1, <3>2
  <2>2. ASSUME NEW i \in 1 .. m, i + 1 \in Q
        PROVE  i \in Q
    <3>1. g[i] = g[i + 1] /\ i \in 1 .. m + 1
      BY <1>1, <1>3
    <3> QED
      BY <2>2, <3>1
  <2> HIDE DEF Q
  <2> QED
    BY <1>1, <2>1, <2>2, Backwards
<1> QED
  BY <1>1, <1>2, <1>3, <1>4, <1>5 DEF n

-----------------------------------------------------------------------------
(* Lists of hits (filter, unique-list, candidates-by-keys).                  *)

LEMMA EmptyIs ==
  ASSUME NEW S, NEW s \in Seq(S)
  PROVE  s = <<>> <=> Len(s) = 0
OBVIOUS

LEMMA ToSetIs ==
  ASSUME NEW S, NEW s \in Seq(S)
  PROVE  /\ ToSet(s) = {s[i] : i \in 1 .. Len(s)} /\ ToSet(s) \subseteq S
         /\ s = <<>> <=> ToSet(s) = {}
         /\ ToSet(<<>>) = {}
<1>1. /\ DOMAIN s = 1 .. Len(s) /\ Len(s) \in Nat
      /\ \A i \in 1 .. Len(s) : s[i] \in S
      /\ DOMAIN <<>> = {}
  OBVIOUS
<1>2. s = <<>> <=> 1 .. Len(s) = {}
  <2>1. s = <<>> <=> Len(s) = 0
    BY EmptyIs
  <2> DEFINE n == Len(s)
  <2>2. n \in Nat
    OBVIOUS
  <2> HIDE DEF n
  <2>3. 1 .. n = {} <=> n = 0
    <3>1. n # 0 => 1 \in 1 .. n
      BY <2>2
    <3> QED
      BY <2>2, <3>1
  <2> QED
    BY <2>1, <2>3 DEF n
<1>3. /\ ToSet(s) = {s[i] : i \in 1 .. Len(s)} /\ ToSet(s) \subseteq S
      /\ ToSet(<<>>) = {}
  BY <1>1 DEF ToSet
<1> QED
  BY <1>2, <1>3

LEMMA FilterIs ==
  ASSUME NEW S, NEW lst \in Seq(S), NEW T
  PROVE  /\ filter(T, lst) \in Seq(S)
         /\ ToSet(filter(T, lst)) = ToSet(lst) \cap T
<1> DEFINE n == Len(lst)
           Rest(i) == {lst[j] : j \in i .. n}
<1>1. n \in Nat
  OBVIOUS
<1>2. PICK f : /\ filter(T, lst) = f[1] /\ f[n + 1] = <<>>
               /\ \A i \in 1 .. n : f[i] = IF lst[i] \in T THEN <<lst[i]>> \o f[i + 1]
                                           ELSE f[i + 1]
  <2>1. PICK h : IsFilter(h, T, lst)
    BY FilterFrom
  <2> QED
    BY <2>1 DEF IsFilter
<1> DEFINE P == {i \in 1 .. n + 1 : f[i] \in Seq(S) /\ ToSet(f[i]) = Rest(i) \cap T}
<1>3. n + 1 \in P
  <2>1. Rest(n + 1) = {}
    BY <1>1
  <2>2. ToSet(f[n + 1]) = {} /\ f[n + 1] \in Seq(S) /\ n + 1 \in 1 .. n + 1
    BY <1>1, <1>2, ToSetIs
  <2> QED
    BY <2>1, <2>2
<1>4. ASSUME NEW i \in 1 .. n, i + 1 \in P
      PROVE  i \in P
  <2>1. Rest(i) = {lst[i]} \cup Rest(i + 1)
    <3>1. \A j : j \in i .. n <=> j = i \/ j \in i + 1 .. n
      BY <1>1
    <3> QED
      BY <3>1
  <2>2. f[i + 1] \in Seq(S) /\ ToSet(f[i + 1]) = Rest(i + 1) \cap T
    BY <1>4
  <2>3. lst[i] \in S /\ i \in 1 .. n + 1
    BY <1>1
  <2> HIDE DEF Rest
  <2>4. ASSUME lst[i] \in T
        PROVE  f[i] \in Seq(S) /\ ToSet(f[i]) = {lst[i]} \cup ToSet(f[i + 1])
    <3>1. f[i] = <<lst[i]>> \o f[i + 1]
      BY <1>2, <2>4
    <3> QED
      BY <2>2, <2>3, <3>1, ConsIs
  <2>5. ASSUME lst[i] \notin T
        PROVE  f[i] = f[i + 1]
    BY <1>2, <2>5
  <2>6. f[i] \in Seq(S) /\ ToSet(f[i]) = Rest(i) \cap T
    BY <2>1, <2>2, <2>4, <2>5
  <2> QED
    BY <2>3, <2>6
<1> HIDE DEF P
<1>5. 1 \in P
  <2>1. \A i \in 1 .. n + 1 : i \in P
    BY <1>1, <1>3, <1>4, Backwards
  <2> QED
    BY <1>1, <2>1
<1>6. Rest(1) = ToSet(lst)
  BY ToSetIs
<1> QED
  BY <1>2, <1>5, <1>6 DEF P

LEMMA UniqueIs ==
  ASSUME NEW S, NEW lst \in Seq(S)
  PROVE  /\ unique_list(lst) \in Seq(S)
         /\ ToSet(unique_list(lst)) = ToSet(lst) /\ IsInjective(unique_list(lst))
<1> DEFINE n == Len(lst)
           Rest(i) == {lst[j] : j \in i .. n}
<1>1. n \in Nat
  OBVIOUS
<1>2. PICK f : /\ unique_list(lst) = f[1] /\ f[n + 1] = <<>>
               /\ \A i \in 1 .. n :
                     f[i] = IF \E j \in i + 1 .. n : lst[j] = lst[i]
                            THEN f[i + 1] ELSE <<lst[i]>> \o f[i + 1]
  <2>1. PICK h : IsUnique(h, lst)
    BY UniqueFrom
  <2> QED
    BY <2>1 DEF IsUnique
<1> DEFINE P == {i \in 1 .. n + 1 :
                    f[i] \in Seq(S) /\ ToSet(f[i]) = Rest(i) /\ IsInjective(f[i])}
<1>3. n + 1 \in P
  <2>1. Rest(n + 1) = {}
    BY <1>1
  <2>2. ToSet(f[n + 1]) = {} /\ f[n + 1] \in Seq(S) /\ n + 1 \in 1 .. n + 1
    BY <1>1, <1>2, ToSetIs
  <2>3. IsInjective(f[n + 1])
    BY <1>2 DEF IsInjective
  <2> QED
    BY <2>1, <2>2, <2>3
<1>4. ASSUME NEW i \in 1 .. n, i + 1 \in P
      PROVE  i \in P
  <2>1. Rest(i) = {lst[i]} \cup Rest(i + 1)
    <3>1. \A j : j \in i .. n <=> j = i \/ j \in i + 1 .. n
      BY <1>1
    <3> QED
      BY <3>1
  <2>2. f[i + 1] \in Seq(S) /\ ToSet(f[i + 1]) = Rest(i + 1) /\ IsInjective(f[i + 1])
    BY <1>4
  <2>3. lst[i] \in S /\ i \in 1 .. n + 1
    BY <1>1
  <2>4. (\E j \in i + 1 .. n : lst[j] = lst[i]) <=> lst[i] \in Rest(i + 1)
    OBVIOUS
  <2> HIDE DEF Rest
  <2>5. ASSUME lst[i] \notin Rest(i + 1)
        PROVE  f[i] \in Seq(S) /\ ToSet(f[i]) = Rest(i) /\ IsInjective(f[i])
    <3>1. f[i] = <<lst[i]>> \o f[i + 1]
      BY <1>2, <2>4, <2>5
    <3> QED
      BY <2>1, <2>2, <2>3, <2>5, <3>1, ConsIs
  <2>6. ASSUME lst[i] \in Rest(i + 1)
        PROVE  f[i] = f[i + 1] /\ Rest(i) = Rest(i + 1)
    BY <1>2, <2>1, <2>4, <2>6
  <2>7. f[i] \in Seq(S) /\ ToSet(f[i]) = Rest(i) /\ IsInjective(f[i])
    BY <2>2, <2>5, <2>6
  <2> QED
    BY <2>3, <2>7
<1> HIDE DEF P
<1>5. 1 \in P
  <2>1. \A i \in 1 .. n + 1 : i \in P
    BY <1>1, <1>3, <1>4, Backwards
  <2> QED
    BY <1>1, <2>1
<1>6. Rest(1) = ToSet(lst)
  BY ToSetIs
<1> QED
  BY <1>2, <1>5, <1>6 DEF P

\* One key, and two.
LEMMA CandidatesIs ==
  ASSUME NEW word, NEW pool, NEW a, NEW b
  PROVE  /\ candidates_by_keys(word, pool, <<a>>) = hits(word, pool, a)
         /\ candidates_by_keys(word, pool, <<a, b>>) =
               IF hits(word, pool, a) = <<>> THEN hits(word, pool, b)
               ELSE hits(word, pool, a)
<1>1. candidates_by_keys(word, pool, <<a>>) = hits(word, pool, a)
  <2> DEFINE keys == <<a>>
  <2>1. keys \in Seq({a}) /\ Len(keys) = 1 /\ keys[1] = a
    OBVIOUS
  <2> HIDE DEF keys
  <2>2. PICK f : AreCandidates(f, word, pool, keys)
    BY <2>1, CandidatesFrom
  <2>3. f[2] = <<>> /\ f[1] = IF hits(word, pool, a) = <<>> THEN f[2]
                              ELSE hits(word, pool, a)
    BY <2>1, <2>2 DEF AreCandidates
  <2> QED
    BY <2>2, <2>3 DEF keys, AreCandidates
<1>2. candidates_by_keys(word, pool, <<a, b>>) =
         IF hits(word, pool, a) = <<>> THEN hits(word, pool, b)
         ELSE hits(word, pool, a)
  <2> DEFINE keys == <<a, b>>
  <2>1. keys \in Seq({a, b}) /\ Len(keys) = 2 /\ keys[1] = a /\ keys[2] = b
    OBVIOUS
  <2> HIDE DEF keys
  <2>2. PICK f : AreCandidates(f, word, pool, keys)
    BY <2>1, CandidatesFrom
  <2>3. /\ f[3] = <<>>
        /\ f[1] = IF hits(word, pool, a) = <<>> THEN f[2] ELSE hits(word, pool, a)
        /\ f[2] = IF hits(word, pool, b) = <<>> THEN f[3] ELSE hits(word, pool, b)
    BY <2>1, <2>2 DEF AreCandidates
  <2> QED
    BY <2>2, <2>3 DEF keys, AreCandidates
<1> QED
  BY <1>1, <1>2

-----------------------------------------------------------------------------
(* What a word finds in a pool (resolve-ref, candidate-for-did).             *)

\* The actors that entries offer for a word, by some of the keys.
Hitting(word, pool, keys) ==
    {e.actor : e \in {d \in ToSet(pool) : \E k \in keys : name_matches(word, d, k)}}

LEMMA MatchingIs ==
  ASSUME NEW S, NEW pool \in Seq(S), NEW keys
  PROVE  Matching(pool, keys) = Hitting(request.word, pool, keys)
<1>1. \A e, k : name_matches(request.word, e, k) <=>
         e[k] # None /\ request.word # {} /\ \A w \in request.word : w \in e[k]
  BY DEF name_matches
<1>2. ToSet(pool) = {pool[i] : i \in DOMAIN pool}
  BY DEF ToSet
<1> QED
  BY <1>1, <1>2 DEF Matching, Hitting

LEMMA HitsAre ==
  ASSUME NEW S, NEW pool \in Seq(S), NEW word, NEW key
  PROVE  /\ hits(word, pool, key) \in Seq(S)
         /\ ToSet(hits(word, pool, key)) = {e \in ToSet(pool) : name_matches(word, e, key)}
BY FilterIs DEF hits

ActorsOf(entries) == {e.actor : e \in entries}

LEMMA AddressesAre ==
  ASSUME NEW S, NEW s \in Seq(S)
  PROVE  /\ Addresses(s) \in Seq(ActorsOf(S)) /\ Len(Addresses(s)) = Len(s)
         /\ ToSet(Addresses(s)) = ActorsOf(ToSet(s))
<1>1. Addresses(s) = [i \in 1 .. Len(s) |-> s[i].actor]
  BY DEF Addresses
<1>2. Addresses(s) \in Seq({e.actor : e \in S}) /\ Len(Addresses(s)) = Len(s)
  BY <1>1
<1>3. ToSet(Addresses(s)) = {s[i].actor : i \in 1 .. Len(s)}
  BY <1>1 DEF ToSet
<1>4. ToSet(s) = {s[i] : i \in 1 .. Len(s)}
  BY ToSetIs
<1> QED
  BY <1>2, <1>3, <1>4 DEF ActorsOf

LEMMA AttrIs ==
  ASSUME NEW S, NEW pool \in Seq(S), NEW word, NEW key
  PROVE  /\ resolve_attr(word, pool, key) \in Seq(ActorsOf(S))
         /\ ToSet(resolve_attr(word, pool, key)) = Hitting(word, pool, {key})
<1>1. resolve_attr(word, pool, key) = Addresses(hits(word, pool, key))
  BY CandidatesIs DEF resolve_attr
<1>2. Hitting(word, pool, {key}) = ActorsOf(ToSet(hits(word, pool, key)))
  BY HitsAre DEF Hitting, ActorsOf
<1> QED
  BY <1>1, <1>2, HitsAre, AddressesAre

LEMMA JoinIs ==
  ASSUME NEW S, NEW s \in Seq(S), NEW t \in Seq(S)
  PROVE  s \o t \in Seq(S) /\ ToSet(s \o t) = ToSet(s) \cup ToSet(t)
<1> DEFINE u == s \o t
           n == Len(s)
           m == Len(t)
<1>1. /\ u \in Seq(S) /\ n \in Nat /\ m \in Nat /\ Len(u) = n + m
      /\ \A i \in 1 .. n : u[i] = s[i]
      /\ \A i \in 1 .. m : u[n + i] = t[i]
  OBVIOUS
<1>2. /\ ToSet(u) = {u[i] : i \in 1 .. n + m}
      /\ ToSet(s) = {s[i] : i \in 1 .. n} /\ ToSet(t) = {t[i] : i \in 1 .. m}
  <2> HIDE DEF u
  <2>1. ToSet(u) = {u[i] : i \in 1 .. Len(u)}
    BY <1>1, ToSetIs
  <2> QED
    BY <1>1, <2>1, ToSetIs
<1> HIDE DEF u, n, m
<1>3. /\ \A i \in 1 .. n + m : i \in 1 .. n \/ (i - n \in 1 .. m /\ i = n + (i - n))
      /\ \A i \in 1 .. n : i \in 1 .. n + m
      /\ \A i \in 1 .. m : n + i \in 1 .. n + m
  BY <1>1
<1>4. ASSUME NEW y \in ToSet(u)
      PROVE  y \in ToSet(s) \cup ToSet(t)
  <2>1. PICK i \in 1 .. n + m : y = u[i]
    BY <1>2
  <2>2. (i \in 1 .. n /\ y = s[i]) \/ (i - n \in 1 .. m /\ y = t[i - n])
    BY <1>1, <1>3, <2>1
  <2> QED
    BY <1>2, <2>2
<1>5. ASSUME NEW y \in ToSet(s) \cup ToSet(t)
      PROVE  y \in ToSet(u)
  BY <1>1, <1>2, <1>3
<1> QED
  BY <1>1, <1>4, <1>5 DEF u

\* By any of them.
Naming(word, pool) == Hitting(word, pool, {"name", "nick", "description"})

LEMMA RefIs ==
  ASSUME NEW S, NEW pool \in Seq(S), NEW word
  PROVE  LET found == resolve_ref(word, pool) IN
         /\ found \in Seq(ActorsOf(S)) /\ IsInjective(found)
         /\ ToSet(found) = Naming(word, pool)
<1> DEFINE A == ActorsOf(S)
           H(k) == Hitting(word, pool, {k})
           x == resolve_attr(word, pool, "name")
           y == resolve_attr(word, pool, "nick")
           z == resolve_attr(word, pool, "description")
<1>1. /\ x \in Seq(A) /\ ToSet(x) = H("name")
      /\ y \in Seq(A) /\ ToSet(y) = H("nick")
      /\ z \in Seq(A) /\ ToSet(z) = H("description")
  <2>1. ASSUME NEW k
        PROVE  /\ resolve_attr(word, pool, k) \in Seq(A)
               /\ ToSet(resolve_attr(word, pool, k)) = H(k)
    BY AttrIs
  <2> HIDE DEF A, H
  <2> QED
    BY <2>1
<1>2. Naming(word, pool) = H("name") \cup H("nick") \cup H("description")
  BY DEF Naming, Hitting
<1>3. resolve_ref(word, pool) = unique_list(x \o y \o z)
  BY DEF resolve_ref
<1> HIDE DEF A, H, x, y, z
<1>4. x \o y \in Seq(A) /\ ToSet(x \o y) = H("name") \cup H("nick")
  BY <1>1, JoinIs
<1>5. x \o y \o z \in Seq(A)
      /\ ToSet(x \o y \o z) = H("name") \cup H("nick") \cup H("description")
  <2> DEFINE xy == x \o y
  <2>1. xy \in Seq(A) /\ ToSet(xy) = H("name") \cup H("nick")
    BY <1>4
  <2> HIDE DEF xy
  <2>2. xy \o z \in Seq(A) /\ ToSet(xy \o z) = ToSet(xy) \cup H("description")
    BY <1>1, <2>1, JoinIs
  <2> QED
    BY <2>1, <2>2 DEF xy
<1> QED
  BY <1>2, <1>3, <1>5, UniqueIs DEF A

LEMMA CandidateIs ==
  ASSUME NEW S, NEW pool \in Seq(S), NEW did
  PROVE  LET e == candidate_for_did(pool, did) IN
         e.actor = did /\ (e \in ToSet(pool) \/ e.kind = None)
<1> DEFINE T == {e \in ToSet(pool) : e.actor = did}
           entry == candidate_for_did(pool, did)
<1>1. ASSUME \E i \in DOMAIN pool : pool[i].actor = did
      PROVE  entry \in T
  <2>1. T # {} /\ T \subseteq ToSet(pool)
    BY <1>1 DEF ToSet
  <2>2. filter(T, pool) \in Seq(S) /\ ToSet(filter(T, pool)) = T
    BY <2>1, FilterIs
  <2>3. entry = filter(T, pool)[1]
    BY <1>1 DEF candidate_for_did
  <2> DEFINE s == filter(T, pool)
  <2>4. s \in Seq(S) /\ ToSet(s) # {} /\ entry = s[1]
    BY <2>1, <2>2, <2>3
  <2> HIDE DEF s, entry, T
  <2>5. 1 \in 1 .. Len(s)
    BY <2>4, ToSetIs
  <2>6. s[1] \in ToSet(s)
    BY <2>4, <2>5, ToSetIs
  <2> QED
    BY <2>2, <2>4, <2>6 DEF s
<1>2. ASSUME ~ \E i \in DOMAIN pool : pool[i].actor = did
      PROVE  entry.actor = did /\ entry.kind = None
  BY <1>2 DEF candidate_for_did
<1> QED
  BY <1>1, <1>2

-----------------------------------------------------------------------------
(* What the resolvers answer (avatar.zscheme).                               *)

\* An entry an answer names is one of the pool's or made up.
LEMMA OneEntryFrom ==
  ASSUME NEW S, NEW pool \in Seq(S), NEW word,
         resolve_one_entry(word, pool).found = "one"
  PROVE  LET e == resolve_one_entry(word, pool).entry IN
         e \in ToSet(pool) \/ e.kind = None
<1> DEFINE r == resolve_one_entry(word, pool)
           From(e) == e \in ToSet(pool) \/ e.kind = None
<1>1. \A did : From(candidate_for_did(pool, did))
  BY CandidateIs
<1>2. \A e : One(e).entry = e
  BY DEF One
<1>3. \/ \E did : r = One(candidate_for_did(pool, did))
      \/ r = NoMatch
      \/ r = Many(resolve_ref(word, pool))
  BY DEF resolve_one_entry
<1>4. NoMatch.found # "one" /\ \A s : Many(s).found # "one"
  BY DEF NoMatch, Many
<1> HIDE DEF From, r
<1>5. From(r.entry)
  BY <1>1, <1>2, <1>3, <1>4 DEF r
<1> QED
  BY <1>5 DEF From, r

\* A list of distinct things, by its length.
LEMMA CountIs ==
  ASSUME NEW S, NEW s \in Seq(S)
  PROVE  /\ s # <<>> /\ Tail(s) = <<>> => ToSet(s) = {s[1]}
         /\ s # <<>> /\ Tail(s) # <<>> => Len(s) > 1
<1>1. ASSUME s # <<>>
      PROVE  (Tail(s) = <<>> <=> Len(s) = 1) /\ Len(s) \in Nat /\ Len(s) >= 1
  <2>1. Len(s) \in Nat /\ Len(s) >= 1
    BY <1>1
  <2>2. Tail(s) \in Seq(S) /\ Len(Tail(s)) = Len(s) - 1
    BY <1>1
  <2> DEFINE t == Tail(s)
             n == Len(s)
  <2>3. t = <<>> <=> Len(t) = 0
    BY <2>2, EmptyIs
  <2> HIDE DEF t
  <2>4. t = <<>> <=> n = 1
    BY <2>1, <2>2, <2>3 DEF t
  <2> QED
    BY <2>1, <2>4 DEF t
<1>2. ASSUME Len(s) = 1
      PROVE  ToSet(s) = {s[1]}
  <2>1. ToSet(s) = {s[i] : i \in 1 .. Len(s)}
    BY ToSetIs
  <2> QED
    BY <1>2, <2>1
<1> QED
  BY <1>1, <1>2

\* The answer to a word that some actors answer to: none, one or several.
Tells(r, actors) ==
    /\ r = NoMatch <=> actors = {}
    /\ r.found = "one" => actors = {r.entry.actor}
    /\ r.found = "many" =>
          ToSet(r.actors) = actors /\ IsInjective(r.actors) /\ Len(r.actors) > 1

LEMMA OneEntryIs ==
  ASSUME NEW S, NEW pool \in Seq(S), NEW word, word \notin Actors
  PROVE  Tells(resolve_one_entry(word, pool), Naming(word, pool))
<1> DEFINE r == resolve_one_entry(word, pool)
           H == Naming(word, pool)
           A == ActorsOf(S)
           found == resolve_ref(word, pool)
           entry == candidate_for_did(pool, found[1])
<1>1. found \in Seq(A) /\ IsInjective(found) /\ ToSet(found) = H
  BY RefIs
<1>2. r = IF found = <<>> THEN NoMatch
          ELSE IF Tail(found) = <<>> THEN One(entry) ELSE Many(found)
  BY DEF resolve_one_entry
<1>3. entry.actor = found[1]
  BY CandidateIs
<1> HIDE DEF r, H, A, found, entry
<1>4. found = <<>> <=> H = {}
  BY <1>1, ToSetIs
<1>5. /\ found # <<>> /\ Tail(found) = <<>> => H = {found[1]}
      /\ found # <<>> /\ Tail(found) # <<>> => Len(found) > 1
  BY <1>1, CountIs
<1>6. /\ NoMatch.found = "none" /\ One(entry).found = "one" /\ One(entry).entry = entry
      /\ Many(found).found = "many" /\ Many(found).actors = found
  BY DEF NoMatch, One, Many
<1>7. \/ found = <<>> /\ r = NoMatch
      \/ found # <<>> /\ Tail(found) = <<>> /\ r = One(entry)
      \/ found # <<>> /\ Tail(found) # <<>> /\ r = Many(found)
  BY <1>2
<1>8. Tells(r, H)
  BY <1>1, <1>3, <1>4, <1>5, <1>6, <1>7 DEF Tells
<1> QED
  BY <1>8 DEF r, H

LEMMA OnlyIs ==
  ASSUME NEW S, NEW s \in Seq(S)
  PROVE  /\ only(s) = NoMatch <=> s = <<>>
         /\ only(s).found = "one" => ToSet(s) = {only(s).entry}
<1>1. \/ s = <<>> /\ only(s) = NoMatch
      \/ s # <<>> /\ Tail(s) = <<>> /\ only(s) = One(s[1])
      \/ s # <<>> /\ Tail(s) # <<>> /\ only(s) = Many(Addresses(s))
  BY DEF only
<1>2. /\ NoMatch.found = "none" /\ One(s[1]).found = "one" /\ One(s[1]).entry = s[1]
      /\ Many(Addresses(s)).found = "many"
  BY DEF NoMatch, One, Many
<1>3. s # <<>> /\ Tail(s) = <<>> => ToSet(s) = {s[1]}
  BY CountIs
<1> QED
  BY <1>1, <1>2, <1>3

\* What matches by nick, or if nothing does, by name.
LEMMA NickOrName ==
  ASSUME NEW S, NEW pool \in Seq(S), NEW word
  PROVE  LET c == candidates_by_keys(word, pool, <<"nick", "name">>)
             H(keys) == Hitting(word, pool, keys) IN
         /\ c \in Seq(S)
         /\ {e.actor : e \in ToSet(c)} =
               IF H({"nick"}) # {} THEN H({"nick"}) ELSE H({"name"})
         /\ c = <<>> => H({"nick", "name"}) = {}
<1> DEFINE c == candidates_by_keys(word, pool, <<"nick", "name">>)
           H(keys) == Hitting(word, pool, keys)
           x == hits(word, pool, "nick")
           y == hits(word, pool, "name")
<1>1. c = IF x = <<>> THEN y ELSE x
  BY CandidatesIs
<1>2. x \in Seq(S) /\ y \in Seq(S)
  BY HitsAre
<1>3. \A k : Hitting(word, pool, {k}) = {e.actor : e \in ToSet(hits(word, pool, k))}
  BY HitsAre DEF Hitting
<1>4. /\ H({"nick"}) = {e.actor : e \in ToSet(x)}
      /\ H({"name"}) = {e.actor : e \in ToSet(y)}
  BY <1>3
<1>5. H({"nick", "name"}) = H({"nick"}) \cup H({"name"})
  BY DEF Hitting
<1> HIDE DEF c, H, x, y
<1>6. (x = <<>> <=> H({"nick"}) = {}) /\ (y = <<>> <=> H({"name"}) = {})
  <2>1. (x = <<>> <=> ToSet(x) = {}) /\ (y = <<>> <=> ToSet(y) = {})
    BY <1>2, ToSetIs
  <2> QED
    BY <1>4, <2>1
<1> QED
  BY <1>1, <1>2, <1>4, <1>5, <1>6 DEF c, H

-----------------------------------------------------------------------------
(* A request is answered once, by the function of its verb.                  *)

AnswerOf ==
    CASE request.verb = "object" ->
           resolve_one_entry_or_refresh(request.word, request.pool, request.fresh)
      [] request.verb = "exit" ->
           resolve_exit(request.word, request.pool, request.fresh)
      [] request.verb = "content" -> resolve_in_container(request.word, request.pool)
      [] request.verb = "person" ->
           resolve_person(request.word, request.pool, request.fresh)
      [] request.verb = "split" ->
           split_command(request.words, Keyword, request.required)

AnswerInv ==
    /\ request \in Lookups \cup Splits
    /\ answer # None => answer = AnswerOf

THEOREM Answers == Spec => []AnswerInv
<1>1. Init => AnswerInv
  BY DEF Init, AnswerInv
<1>2. AnswerInv /\ [Next]_vars => AnswerInv'
  <2> SUFFICES ASSUME AnswerInv, [Next]_vars
               PROVE  AnswerInv'
    OBVIOUS
  <2>1. request' = request
    BY DEF Next, Object, Exit, Content, Person, Split, Asked, vars
  <2>2. AnswerOf' = AnswerOf
    BY <2>1 DEF AnswerOf
  <2>3. answer' = answer \/ answer' = AnswerOf
    BY DEF Next, Object, Exit, Content, Person, Split, Asked, AnswerOf, vars
  <2> QED
    BY <2>1, <2>2, <2>3 DEF AnswerInv
<1> QED
  BY <1>1, <1>2, PTL DEF Spec

LEMMA PoolsAre ==
  ASSUME NEW pool \in Pools
  PROVE  pool \in Seq(Sample)
<1>1. PICK n \in 0 .. MaxPool : pool \in [1 .. n -> Sample]
  BY DEF Pools
<1>2. n \in Nat
  BY ResolverAssumption
<1> QED
  BY <1>1, <1>2

\* What a request asks.
LEMMA RequestIs ==
  ASSUME AnswerInv
  PROVE  /\ request.verb \in {"object", "exit", "content", "person"} =>
               request.pool \in Seq(Sample) /\ request.fresh \in Seq(Sample)
         /\ request.verb = "split" => request.words \in Seq(Words)
<1>1. ASSUME request \in Lookups
      PROVE  /\ request.verb \in {"object", "exit", "content", "person"}
             /\ request.pool \in Pools /\ request.fresh \in Pools
  BY <1>1 DEF Lookups
<1>2. ASSUME request \in Splits
      PROVE  request.verb = "split" /\ request.words \in Seq(Words)
  <2>1. /\ request.verb = "split"
        /\ request.words \in UNION {[1 .. n -> Words] : n \in 0 .. MaxWords}
    BY <1>2 DEF Splits
  <2>2. PICK n \in 0 .. MaxWords : request.words \in [1 .. n -> Words]
    BY <2>1
  <2>3. n \in Nat
    BY ResolverAssumption
  <2> QED
    BY <2>1, <2>2, <2>3
<1> QED
  BY <1>1, <1>2, PoolsAre DEF AnswerInv

-----------------------------------------------------------------------------
(* The theorems.                                                             *)

LEMMA RefreshIs ==
  ASSUME NEW S, NEW pool \in Seq(S), NEW fresh \in Seq(S), NEW word,
         word \notin Actors
  PROVE  Tells(resolve_one_entry_or_refresh(word, pool, fresh),
               IF Naming(word, pool) # {} THEN Naming(word, pool)
               ELSE Naming(word, fresh))
<1>1. /\ Tells(resolve_one_entry(word, pool), Naming(word, pool))
      /\ Tells(resolve_one_entry(word, fresh), Naming(word, fresh))
  BY OneEntryIs
<1>2. resolve_one_entry(word, pool) = NoMatch <=> Naming(word, pool) = {}
  BY <1>1 DEF Tells
<1> QED
  BY <1>1, <1>2 DEF resolve_one_entry_or_refresh

\* A command acts on an object only if no other actor it can see answers to
\* the same words, however many attributes and pools name it; otherwise it
\* lists each of them once.  (resolve-ref, resolve-one-entry)
THEOREM ObjectsAreTheOnlyOnes == Spec => []ObjectIsTheOnlyOne
<1>1. AnswerInv => ObjectIsTheOnlyOne
  <2> SUFFICES ASSUME AnswerInv, Answered("object"), Named
               PROVE  /\ answer.found = "one" => Anywhere(Used) = {answer.entry.actor}
                      /\ answer.found = "many" =>
                           /\ ToSet(answer.actors) = Anywhere(Used)
                           /\ IsInjective(answer.actors) /\ Len(answer.actors) > 1
    BY DEF ObjectIsTheOnlyOne
  <2> DEFINE H(p) == Naming(request.word, p)
  <2>1. /\ request.verb = "object" /\ request.word \notin Actors
        /\ request.pool \in Seq(Sample) /\ request.fresh \in Seq(Sample)
    BY RequestIs DEF Answered, Named
  <2>2. answer = resolve_one_entry_or_refresh(request.word, request.pool, request.fresh)
    BY <2>1 DEF AnswerInv, AnswerOf, Answered
  <2>3. Anywhere(request.pool) = H(request.pool) /\ Anywhere(request.fresh) = H(request.fresh)
    BY <2>1, MatchingIs DEF Anywhere, Naming
  <2>4. Anywhere(Used) = IF H(request.pool) # {} THEN H(request.pool) ELSE H(request.fresh)
    <3> HIDE DEF H
    <3> QED
      BY <2>3 DEF Used
  <2>5. Tells(answer, Anywhere(Used))
    BY <2>1, <2>2, <2>4, RefreshIs
  <2> QED
    BY <2>5 DEF Tells
<1> QED
  BY <1>1, Answers, PTL

\* Nothing is reported missing that a fresh look would have found.
\* (resolve-one-entry-or-refresh, resolve-against-or-false)
THEOREM NothingMissedIsThere == Spec => []MissingIsMissing
<1>1. AnswerInv => MissingIsMissing
  <2> SUFFICES ASSUME AnswerInv, Named, answer = NoMatch
               PROVE  /\ Answered("object") => Anywhere(request.fresh) = {}
                      /\ Answered("exit") => Matching(request.fresh, {"nick", "name"}) = {}
    BY DEF MissingIsMissing
  <2>1. ASSUME Answered("object")
        PROVE  Anywhere(request.fresh) = {}
    <3>1. /\ request.verb = "object" /\ request.word \notin Actors
          /\ request.pool \in Seq(Sample) /\ request.fresh \in Seq(Sample)
      BY <2>1, RequestIs DEF Answered, Named
    <3>2. answer = resolve_one_entry_or_refresh(request.word, request.pool, request.fresh)
      BY <2>1, <3>1 DEF AnswerInv, AnswerOf, Answered
    <3>3. Naming(request.word, request.fresh) = {}
      BY <3>1, <3>2, RefreshIs DEF Tells
    <3> QED
      BY <3>1, <3>3, MatchingIs DEF Anywhere, Naming
  <2>2. ASSUME Answered("exit")
        PROVE  Matching(request.fresh, {"nick", "name"}) = {}
    <3>1. /\ request.verb = "exit" /\ request.word \notin Actors
          /\ request.pool \in Seq(Sample) /\ request.fresh \in Seq(Sample)
      BY <2>2, RequestIs DEF Answered, Named
    <3> DEFINE C(p) == candidates_by_keys(request.word, p, <<"nick", "name">>)
    <3>2. answer = resolve_exit(request.word, request.pool, request.fresh)
      BY <2>2, <3>1 DEF AnswerInv, AnswerOf, Answered
    <3>3. answer = only(IF C(request.pool) # <<>> THEN C(request.pool)
                        ELSE C(request.fresh))
      BY <3>1, <3>2 DEF resolve_exit, resolve_against
    <3>4. C(request.pool) \in Seq(Sample) /\ C(request.fresh) \in Seq(Sample)
      BY <3>1, NickOrName
    <3> HIDE DEF C
    <3>5. C(request.fresh) = <<>>
      BY <3>3, <3>4, OnlyIs
    <3>6. Hitting(request.word, request.fresh, {"nick", "name"}) = {}
      BY <3>1, <3>5, NickOrName DEF C
    <3> QED
      BY <3>1, <3>6, MatchingIs
  <2> QED
    BY <2>1, <2>2
<1> QED
  BY <1>1, Answers, PTL

\* A nick hides names: what is found in a container matches by nick if
\* anything in it does.  (candidates-by-keys)
THEOREM NicksComeFirst == Spec => []NickFirst
<1>1. AnswerInv => NickFirst
  <2> SUFFICES ASSUME AnswerInv, Answered("content"), Named, answer.found = "one"
               PROVE  LET nicked == Matching(request.pool, {"nick"}) IN
                      {answer.entry.actor} =
                         IF nicked # {} THEN nicked ELSE Matching(request.pool, {"name"})
    BY DEF NickFirst
  <2> DEFINE c == candidates_by_keys(request.word, request.pool, <<"nick", "name">>)
             H(k) == Hitting(request.word, request.pool, {k})
  <2>1. /\ request.verb = "content" /\ request.word \notin Actors
        /\ request.pool \in Seq(Sample)
    BY RequestIs DEF Answered, Named
  <2>2. answer = only(c)
    BY <2>1 DEF AnswerInv, AnswerOf, Answered, resolve_in_container
  <2>3. /\ c \in Seq(Sample)
        /\ {e.actor : e \in ToSet(c)} = IF H("nick") # {} THEN H("nick") ELSE H("name")
    BY <2>1, NickOrName
  <2>4. /\ Matching(request.pool, {"nick"}) = H("nick")
        /\ Matching(request.pool, {"name"}) = H("name")
    BY <2>1, MatchingIs
  <2> HIDE DEF c, H
  <2>5. ToSet(c) = {answer.entry}
    BY <2>2, <2>3, OnlyIs
  <2>6. {e.actor : e \in ToSet(c)} = {answer.entry.actor}
    BY <2>5
  <2> QED
    BY <2>3, <2>4, <2>6
<1> QED
  BY <1>1, Answers, PTL

\* Whoever is given something is another person, in this room.
\* (resolve-person)
THEOREM RecipientsAreOthers == Spec => []RecipientIsAnother
<1>1. AnswerInv => RecipientIsAnother
  <2> DEFINE word == request.word
             people == person_pool(request.pool)
             anew == person_pool(request.fresh)
             r == resolve_one_entry_or_refresh(word, people, anew)
             both == request.pool \o request.fresh
  <2> SUFFICES ASSUME AnswerInv, Answered("person"), answer.found = "one"
               PROVE  /\ answer.entry.actor # Me
                      /\ \E i \in DOMAIN both :
                            /\ both[i].actor = answer.entry.actor
                            /\ both[i].kind = "h00man"
    BY DEF RecipientIsAnother
  <2>1. /\ request.verb = "person"
        /\ request.pool \in Seq(Sample) /\ request.fresh \in Seq(Sample)
    BY RequestIs DEF Answered
  <2>2. answer = IF r.found = "one" /\ (r.entry.kind # "h00man" \/ r.entry.actor = Me)
                 THEN NotAllowed ELSE r
    BY <2>1 DEF AnswerInv, AnswerOf, Answered, resolve_person
  <2>3. /\ people \in Seq(Sample) /\ ToSet(people) \subseteq ToSet(request.pool)
        /\ anew \in Seq(Sample) /\ ToSet(anew) \subseteq ToSet(request.fresh)
    BY <2>1, FilterIs DEF person_pool
  <2>4. ToSet(both) = ToSet(request.pool) \cup ToSet(request.fresh)
    BY <2>1, JoinIs
  <2>5. r = resolve_one_entry(word, people) \/ r = resolve_one_entry(word, anew)
    BY DEF resolve_one_entry_or_refresh
  <2>6. NotAllowed.found # "one"
    BY DEF NotAllowed
  <2> HIDE DEF people, anew, r, word
  <2>7. answer = r /\ r.entry.kind = "h00man" /\ r.entry.actor # Me /\ r.found = "one"
    BY <2>2, <2>6
  <2>8. r.entry.kind # None
    BY <2>7, ResolverAssumption
  <2>9. r.entry \in ToSet(people) \cup ToSet(anew)
    BY <2>3, <2>5, <2>7, <2>8, OneEntryFrom
  <2>10. r.entry \in ToSet(both)
    BY <2>3, <2>4, <2>9
  <2> HIDE DEF both
  <2>11. PICK i \in DOMAIN both : both[i] = r.entry
    BY <2>10 DEF ToSet
  <2> QED
    BY <2>7, <2>11
<1> QED
  BY <1>1, Answers, PTL

\* A command is cut at its first keyword, with words on both sides, or
\* refused.  (split-command!)
THEOREM SplitsAreExact == Spec => []SplitIsExact
<1>1. AnswerInv => SplitIsExact
  <2> DEFINE words == request.words
             n == Len(words)
             Key(i) == words[i] = Keyword
             before == words_before_keyword(words, Keyword)
             after == words_after_keyword(words, Keyword)
             whole == n > 0 /\ ~request.required /\ \A i \in DOMAIN words : words[i] # Keyword
             cuts == {i \in 2 .. n - 1 : words[i] = Keyword
                                        /\ \A j \in 1 .. i - 1 : words[j] # Keyword}
             cut(i) == <<SubSeq(words, 1, i - 1), SubSeq(words, i + 1, n)>>
  <2> SUFFICES ASSUME AnswerInv, Answered("split")
               PROVE  answer = IF whole THEN <<words, None>>
                               ELSE IF cuts = {} THEN Usage
                               ELSE LET i == CHOOSE i \in cuts : TRUE IN cut(i)
    BY DEF SplitIsExact
  <2>1. request.verb = "split" /\ words \in Seq(Words)
    BY RequestIs DEF Answered
  <2>2. answer = IF before = <<>> \/ (request.required /\ after = None) \/ after = <<>>
                 THEN Usage ELSE <<before, after>>
    BY <2>1 DEF AnswerInv, AnswerOf, Answered, split_command
  <2>3. n \in Nat /\ DOMAIN words = 1 .. n /\ None # <<>>
    <3>1. <<>> \in Seq(Words)
      OBVIOUS
    <3>2. None # <<>>
      BY <3>1, ResolverAssumption
    <3> HIDE DEF words
    <3> QED
      BY <2>1, <3>2
  <2>4. ASSUME \A i \in 1 .. n : words[i] # Keyword
        PROVE  /\ before = words /\ after = None
               /\ cuts = {} /\ (words = <<>> <=> n = 0)
    <3>1. n \in 0 .. n
      BY <2>3
    <3>2. before = SubSeq(words, 1, n) /\ after = None
      <4>1. Stops(words, Keyword, n)
        BY <2>3, <2>4, <3>1 DEF Stops
      <4> HIDE DEF words
      <4> QED
        BY <2>1, <4>1, CutAt
    <3>3. SubSeq(words, 1, n) = words
      BY <2>1, <3>1, CutIs
    <3>4. \A i \in 2 .. n - 1 : i \in 1 .. n
      BY <2>3
    <3> QED
      BY <2>1, <2>4, <3>2, <3>3, <3>4, EmptyIs
  <2>5. ASSUME NEW k \in 1 .. n, words[k] = Keyword, \A j \in 1 .. k - 1 : words[j] # Keyword
        PROVE  /\ <<before, after>> = cut(k) /\ after # None
               /\ before = <<>> <=> k = 1
               /\ after = <<>> <=> k = n
               /\ cuts = IF k \in 2 .. n - 1 THEN {k} ELSE {}
    <3>1. k - 1 \in 0 .. n /\ k - 1 < n /\ k - 1 + 1 = k /\ k - 1 # n /\ k - 1 + 2 = k + 1
      BY <2>3
    <3>2. before = SubSeq(words, 1, k - 1) /\ after = SubSeq(words, k + 1, n)
      <4>1. Stops(words, Keyword, k - 1)
        BY <2>3, <2>5, <3>1 DEF Stops
      <4> HIDE DEF words
      <4>2. /\ before = SubSeq(words, 1, k - 1)
            /\ after = IF k - 1 = n THEN None ELSE SubSeq(words, k - 1 + 2, n)
        BY <2>1, <4>1, CutAt
      <4> HIDE DEF n, before, after
      <4> QED
        BY <3>1, <4>2
    <3>3. /\ before \in Seq(Words) /\ Len(before) = k - 1
          /\ after \in Seq(Words) /\ Len(after) = n - k
      BY <2>1, <2>3, <3>2
    <3>4. after # None
      BY <3>3, ResolverAssumption
    <3>5. (before = <<>> <=> k = 1) /\ (after = <<>> <=> k = n)
      <4> HIDE DEF before, after, n
      <4> QED
        BY <2>3, <3>3, EmptyIs
    <3>6. ASSUME NEW i \in cuts
          PROVE  i = k
      <4>1. i \in 1 .. n /\ (i < k => i \in 1 .. k - 1) /\ (k < i => k \in 1 .. i - 1)
        BY <2>3
      <4> QED
        BY <2>5, <4>1
    <3>7. k \in 2 .. n - 1 => k \in cuts
      BY <2>5
    <3>8. \A i \in cuts : i \in 2 .. n - 1
      OBVIOUS
    <3> HIDE DEF cuts
    <3>9. cuts = IF k \in 2 .. n - 1 THEN {k} ELSE {}
      BY <3>6, <3>7, <3>8
    <3> QED
      BY <3>2, <3>4, <3>5, <3>9
  <2>6. ASSUME ~ \A i \in 1 .. n : words[i] # Keyword
        PROVE  \E k \in 1 .. n : words[k] = Keyword
                                  /\ \A j \in 1 .. k - 1 : words[j] # Keyword
    <3> DEFINE T == {i \in 1 .. n : words[i] = Keyword}
    <3>1. T # {} /\ T \subseteq Nat
      BY <2>6
    <3>2. PICK k \in T : \A y \in T : k <= y
      BY <3>1, LeastNumber
    <3>3. \A j \in 1 .. k - 1 : j \in 1 .. n /\ ~ (k <= j)
      BY <2>3
    <3> QED
      BY <3>2, <3>3
  <2>7. ASSUME \A i \in 1 .. n : words[i] # Keyword
        PROVE  answer = IF whole THEN <<words, None>> ELSE Usage
    <3> HIDE DEF before, after, words
    <3> QED
      BY <2>2, <2>3, <2>4, <2>7
  <2>8. ASSUME NEW k \in 1 .. n, words[k] = Keyword, \A j \in 1 .. k - 1 : words[j] # Keyword
        PROVE  answer = IF cuts = {} THEN Usage
                        ELSE LET i == CHOOSE i \in cuts : TRUE IN cut(i)
    <3>1. /\ <<before, after>> = cut(k) /\ after # None
          /\ before = <<>> <=> k = 1
          /\ after = <<>> <=> k = n
          /\ cuts = IF k \in 2 .. n - 1 THEN {k} ELSE {}
      BY <2>5, <2>8
    <3>2. k \in 2 .. n - 1 <=> k # 1 /\ k # n
      BY <2>3
    <3> HIDE DEF before, after, cuts, cut, n
    <3>3. cuts # {} => (CHOOSE i \in cuts : TRUE) = k
      BY <3>1
    <3> QED
      BY <2>2, <3>1, <3>2, <3>3
  <2> HIDE DEF cut, cuts
  <2>9. ASSUME NEW k \in 1 .. n, words[k] = Keyword
        PROVE  ~ whole
    BY <2>3, <2>9
  <2> QED
    <3>1. CASE \A i \in 1 .. n : words[i] # Keyword
      BY <2>4, <2>7, <3>1
    <3>2. CASE ~ \A i \in 1 .. n : words[i] # Keyword
      BY <2>6, <2>8, <2>9, <3>2
    <3> QED
      BY <3>1, <3>2
<1> QED
  BY <1>1, Answers, PTL
=============================================================================
