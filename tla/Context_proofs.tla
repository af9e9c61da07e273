-------------------------- MODULE Context_proofs ---------------------------
(***************************************************************************)
(* Proofs about what the host context answers: actor calls (Codec) and dot  *)
(* lines (Registry).                                                        *)
(*                                                                          *)
(* The conversions call themselves on the parts of a value.  That such a    *)
(* function exists is shown for the values up to each depth, from the least *)
(* depth at which there is none (Converts); that data comes back as it was  *)
(* sent, from the least deep value that does not (RoundTrip).  A reply is   *)
(* then read by its form (DecodeIs, ReplyIs), with an invariant that says   *)
(* what was sent, what may be replied and what is answered (CodecInv).      *)
(*                                                                          *)
(* Of a session of dot lines the invariant says of every path, read or not, *)
(* that it holds the text of a line that set it and was not undone, and     *)
(* nothing if there is none (RegistryInv).                                  *)
(*                                                                          *)
(* Lists are filtered as in the library: the lemmas about that, and about   *)
(* the least of some numbers, are those of Resolver_proofs.                 *)
(***************************************************************************)
EXTENDS Codec, Registry, Resolver_proofs

-----------------------------------------------------------------------------
(* Values, terms and their parts.                                           *)

LEMMA ValueIs ==
  ASSUME NEW v \in Values
  PROVE  \/ /\ v[1] \in {"str", "bytes", "float", "lambda"}
            /\ v = <<v[1], v[2]>> /\ v[2] \in STRING
         \/ v[1] = "int" /\ v = <<"int", v[2]>> /\ v[2] \in Ints
         \/ v[1] = "bool" /\ v = <<"bool", v[2]>> /\ v[2] \in BOOLEAN
         \/ v[1] = "nil" /\ v = <<"nil">>
         \/ v[1] = "list" /\ v = <<"list", v[2]>> /\ v[2] \in Seq(Values)
         \/ /\ v[1] = "map" /\ v = <<"map", v[2]>>
            /\ v[2] \in UNION {[keys -> Values] : keys \in SUBSET ToSet(Keys)}
<1>1. v \in SchemeVals(Values)
  BY CodecAssumption
<1> QED
  BY <1>1 DEF SchemeVals

LEMMA TermIs ==
  ASSUME NEW c \in Terms
  PROVE  \/ /\ c[1] \in {"text", "bytes", "float"}
            /\ c = <<c[1], c[2]>> /\ c[2] \in STRING
         \/ c[1] = "integer" /\ c = <<"integer", c[2]>> /\ c[2] \in CborInts
         \/ c[1] = "boolean" /\ c = <<"boolean", c[2]>> /\ c[2] \in BOOLEAN
         \/ c[1] \in {"null", "simple"} /\ c = <<c[1]>>
         \/ c[1] = "array" /\ c = <<"array", c[2]>> /\ c[2] \in Seq(Terms)
         \/ c[1] = "pairs" /\ c = <<"pairs", c[2]>> /\ c[2] \in Seq(Terms \X Terms)
         \/ c[1] = "tag" /\ c = <<"tag", c[2]>> /\ c[2] \in Terms
<1>1. c \in CborVals(Terms)
  BY CodecAssumption
<1> QED
  BY <1>1 DEF CborVals

LEMMA PartsAre ==
  ASSUME NEW v
  PROVE  /\ v[1] \in {"list", "array", "map"} =>
              Parts(v) = {v[2][i] : i \in DOMAIN v[2]}
         /\ v[1] = "pairs" =>
              Parts(v) = UNION {Range(pair) : pair \in Range(v[2])}
         /\ v[1] = "tag" => Parts(v) = {v[2]}
         /\ v[1] \notin {"list", "array", "map", "pairs", "tag"} => Parts(v) = {}
BY DEF Parts, Range

LEMMA PairsParts ==
  ASSUME NEW c \in Terms, c[1] = "pairs", NEW i \in DOMAIN c[2]
  PROVE  /\ c[2][i] \in Terms \X Terms
         /\ c[2][i][1] \in Parts(c) /\ c[2][i][2] \in Parts(c)
<1>1. c[2] \in Seq(Terms \X Terms)
  BY TermIs
<1>2. c[2][i] \in Terms \X Terms
  BY <1>1
<1>3. c[2][i] = <<c[2][i][1], c[2][i][2]>>
  BY <1>2
<1>4. DOMAIN c[2][i] = {1, 2}
  BY <1>3
<1>5. c[2][i][1] \in Range(c[2][i]) /\ c[2][i][2] \in Range(c[2][i])
  BY <1>4 DEF Range
<1>6. c[2][i] \in Range(c[2])
  BY DEF Range
<1> QED
  BY <1>2, <1>5, <1>6, PartsAre

\* A map is sent with its keys and no other.
LEMMA MapIs ==
  ASSUME NEW v \in Values, v[1] = "map"
  PROVE  /\ v[2] = [k \in DOMAIN v[2] |-> v[2][k]]
         /\ InOrder(v[2]) \in Seq(STRING)
         /\ ToSet(InOrder(v[2])) = DOMAIN v[2]
<1>1. PICK keys \in SUBSET ToSet(Keys) : v[2] \in [keys -> Values]
  BY ValueIs
<1>2. DOMAIN v[2] = keys /\ v[2] = [k \in keys |-> v[2][k]]
  BY <1>1
<1>3. Keys \in Seq(STRING)
  BY CodecAssumption
<1>4. /\ InOrder(v[2]) \in Seq(STRING)
      /\ ToSet(InOrder(v[2])) = ToSet(Keys) \cap DOMAIN v[2]
  BY <1>3, FilterIs DEF InOrder
<1> QED
  BY <1>1, <1>2, <1>4

-----------------------------------------------------------------------------
(* The conversions are what their definitions say, at every depth.          *)

Step(way, f, x) == IF way = "to" THEN AsTerm(f, x) ELSE AsValue(f, x)
Whole(way) == IF way = "to" THEN Values ELSE Terms

\* The last pair with a key is there.
LEMMA LastIs ==
  ASSUME NEW c \in Terms, c[1] = "pairs", NEW key \in KeysOf(c[2])
  PROVE  /\ LastOf(c[2], key) \in DOMAIN c[2]
         /\ c[2][LastOf(c[2], key)][1][2] = key
         /\ \A j \in LastOf(c[2], key) + 1 .. Len(c[2]) : c[2][j][1][2] # key
<1> DEFINE ps == c[2]
           n == Len(ps)
           T == {k \in 0 .. n : n - k \in 1 .. n /\ ps[n - k][1][2] = key}
<1>1. ps \in Seq(Terms \X Terms) /\ n \in Nat /\ DOMAIN ps = 1 .. n
  BY TermIs
<1>2. PICK i \in 1 .. n : ps[i][1][2] = key
  BY <1>1 DEF KeysOf
<1>3. n - i \in T
  <2>1. n - i \in 0 .. n /\ n - (n - i) = i
    BY <1>1, <1>2
  <2> QED
    BY <1>2, <2>1
<1>4. T \subseteq Nat /\ T # {}
  <2>1. \A k \in T : k \in 0 .. n
    OBVIOUS
  <2> HIDE DEF T, n
  <2> QED
    BY <1>1, <1>3, <2>1
<1>5. PICK m \in T : \A y \in T : m <= y
  <2> HIDE DEF T
  <2> QED
    BY <1>4, LeastNumber
<1>6. n - m \in 1 .. n /\ ps[n - m][1][2] = key
  BY <1>5
<1>7. ASSUME NEW j \in n - m + 1 .. n, ps[j][1][2] = key
      PROVE  FALSE
  <2>1. n - j \in 0 .. n /\ n - (n - j) = j /\ j \in 1 .. n /\ ~ (m <= n - j)
    <3>1. m \in 0 .. n
      BY <1>5
    <3> HIDE DEF n, T
    <3> QED
      BY <1>1, <1>7, <3>1
  <2>2. n - j \in T
    BY <1>7, <2>1
  <2> QED
    BY <1>5, <2>1, <2>2
<1>8. \E k \in DOMAIN ps :
         ps[k][1][2] = key /\ \A j \in k + 1 .. Len(ps) : ps[j][1][2] # key
  BY <1>1, <1>6, <1>7
<1> HIDE DEF ps
<1> QED
  BY <1>8 DEF LastOf, ps

\* A conversion looks at the parts of a value only.
LEMMA ToAgrees ==
  ASSUME NEW x \in Values, NEW f, NEW g, \A p \in Parts(x) : f[p] = g[p]
  PROVE  AsTerm(f, x) = AsTerm(g, x)
<1>1. CASE x[1] = "list"
  <2>1. \A i \in DOMAIN x[2] : f[x[2][i]] = g[x[2][i]]
    BY <1>1, PartsAre
  <2>2. [i \in DOMAIN x[2] |-> f[x[2][i]]] = [i \in DOMAIN x[2] |-> g[x[2][i]]]
    BY <2>1
  <2> QED
    BY <1>1, <2>2 DEF AsTerm
<1>2. CASE x[1] = "map"
  <2> DEFINE keys == InOrder(x[2])
             Entry(h, i) == <<<<"text", keys[i]>>, h[x[2][keys[i]]]>>
  <2>1. \A i \in DOMAIN keys : keys[i] \in DOMAIN x[2]
    <3>1. ToSet(keys) = DOMAIN x[2]
      BY <1>2, MapIs
    <3> HIDE DEF keys
    <3> QED
      BY <3>1 DEF ToSet
  <2>2. \A k \in DOMAIN x[2] : f[x[2][k]] = g[x[2][k]]
    BY <1>2, PartsAre
  <2> HIDE DEF keys
  <2>3. \A i \in DOMAIN keys : Entry(f, i) = Entry(g, i)
    BY <2>1, <2>2
  <2> HIDE DEF Entry
  <2>4. [i \in DOMAIN keys |-> Entry(f, i)] = [i \in DOMAIN keys |-> Entry(g, i)]
    BY <2>3
  <2>5. \A h : AsTerm(h, x) = AsPairs([i \in DOMAIN keys |-> Entry(h, i)])
    BY <1>2 DEF AsTerm, Entry, keys
  <2> QED
    BY <2>4, <2>5
<1>3. CASE x[1] \notin {"list", "map"}
  BY <1>3, ValueIs DEF AsTerm
<1> QED
  BY <1>1, <1>2, <1>3

LEMMA FromAgrees ==
  ASSUME NEW x \in Terms, NEW f, NEW g, \A p \in Parts(x) : f[p] = g[p]
  PROVE  AsValue(f, x) = AsValue(g, x)
<1>1. CASE x[1] = "array"
  <2>1. \A i \in DOMAIN x[2] : f[x[2][i]] = g[x[2][i]]
    BY <1>1, PartsAre
  <2>2. [i \in DOMAIN x[2] |-> f[x[2][i]]] = [i \in DOMAIN x[2] |-> g[x[2][i]]]
    BY <2>1
  <2> QED
    BY <1>1, <2>2 DEF AsValue
<1>2. CASE x[1] = "pairs"
  <2>1. \A i \in DOMAIN x[2] : f[x[2][i][1]] = g[x[2][i][1]]
                              /\ f[x[2][i][2]] = g[x[2][i][2]]
    BY <1>2, PairsParts
  <2>2. CASE TextKeyed(x[2])
    <3> DEFINE At(h, key) == h[x[2][LastOf(x[2], key)][2]]
    <3>1. \A key \in KeysOf(x[2]) : At(f, key) = At(g, key)
      BY <1>2, <2>1, LastIs
    <3>2. \A h : AsValue(h, x) = <<"map", [key \in KeysOf(x[2]) |-> At(h, key)]>>
      BY <1>2, <2>2 DEF AsValue
    <3> HIDE DEF At
    <3>3. [key \in KeysOf(x[2]) |-> At(f, key)] = [key \in KeysOf(x[2]) |-> At(g, key)]
      BY <3>1
    <3> QED
      BY <3>2, <3>3
  <2>3. CASE ~TextKeyed(x[2])
    <3> DEFINE At(h, i) == <<"list", <<h[x[2][i][1]], h[x[2][i][2]]>>>>
    <3>1. \A i \in DOMAIN x[2] : At(f, i) = At(g, i)
      BY <2>1
    <3>2. \A h : AsValue(h, x) = <<"list", [i \in DOMAIN x[2] |-> At(h, i)]>>
      BY <1>2, <2>3 DEF AsValue
    <3> HIDE DEF At
    <3>3. [i \in DOMAIN x[2] |-> At(f, i)] = [i \in DOMAIN x[2] |-> At(g, i)]
      BY <3>1
    <3> QED
      BY <3>2, <3>3
  <2> QED
    BY <2>2, <2>3
<1>3. CASE x[1] = "tag"
  BY <1>3, PartsAre DEF AsValue
<1>4. CASE x[1] \notin {"array", "pairs", "tag"}
  BY <1>4, TermIs DEF AsValue
<1> QED
  BY <1>1, <1>2, <1>3, <1>4

LEMMA Agrees ==
  ASSUME NEW way \in {"to", "from"}, NEW x \in Whole(way), NEW f, NEW g,
         \A p \in Parts(x) : f[p] = g[p]
  PROVE  Step(way, f, x) = Step(way, g, x)
BY ToAgrees, FromAgrees DEF Step, Whole

\* The parts of a value and of a term are values and terms, less deep.
LEMMA PartsInside ==
  ASSUME NEW way \in {"to", "from"}, NEW x \in Whole(way), NEW p \in Parts(x)
  PROVE  p \in Whole(way) /\ Depth[p] < Depth[x]
<1>1. Depth[p] < Depth[x]
  BY CodecAssumption DEF Whole
<1>2. ASSUME x \in Values
      PROVE  p \in Values
  <2>1. CASE x[1] = "list"
    BY <1>2, <2>1, PartsAre, ValueIs
  <2>2. CASE x[1] = "map"
    <3>1. PICK keys \in SUBSET ToSet(Keys) : x[2] \in [keys -> Values]
      BY <1>2, <2>2, ValueIs
    <3> QED
      BY <2>2, <3>1, PartsAre
  <2>3. CASE x[1] \notin {"list", "map"}
    BY <1>2, <2>3, PartsAre, ValueIs
  <2> QED
    BY <2>1, <2>2, <2>3
<1>3. ASSUME x \in Terms
      PROVE  p \in Terms
  <2>1. CASE x[1] = "array"
    BY <1>3, <2>1, PartsAre, TermIs
  <2>2. CASE x[1] = "pairs"
    <3>1. PICK pair \in Range(x[2]) : p \in Range(pair)
      BY <2>2, PartsAre
    <3>2. PICK i \in DOMAIN x[2] : pair = x[2][i]
      BY <3>1 DEF Range
    <3>3. pair \in Terms \X Terms
      BY <1>3, <2>2, <3>2, PairsParts
    <3>4. pair = <<pair[1], pair[2]>> /\ pair[1] \in Terms /\ pair[2] \in Terms
      BY <3>3
    <3>5. DOMAIN pair = {1, 2}
      BY <3>4
    <3> QED
      BY <3>1, <3>4, <3>5 DEF Range
  <2>3. CASE x[1] = "tag"
    BY <1>3, <2>3, PartsAre, TermIs
  <2>4. CASE x[1] \notin {"array", "pairs", "tag"}
    BY <1>3, <2>4, PartsAre, TermIs
  <2> QED
    BY <2>1, <2>2, <2>3, <2>4
<1> QED
  BY <1>1, <1>2, <1>3 DEF Whole

LEMMA Converts ==
  ASSUME NEW way \in {"to", "from"}
  PROVE  \E f : f = [x \in Whole(way) |-> Step(way, f, x)]
<1> DEFINE Upto(n) == {x \in Whole(way) : Depth[x] < n}
           Good(f, n) == f = [x \in Upto(n) |-> Step(way, f, x)]
           Bad == {n \in Nat : ~ \E f : Good(f, n)}
<1>1. /\ MaxDepth \in Nat
      /\ \A x \in Whole(way) : Depth[x] \in Nat /\ Depth[x] < MaxDepth + 1
  <2>1. MaxDepth \in Nat /\ Depth \in [Values \cup Terms -> 0 .. MaxDepth]
    BY CodecAssumption
  <2>2. \A x \in Whole(way) : Depth[x] \in 0 .. MaxDepth
    BY <2>1 DEF Whole
  <2> QED
    BY <2>1, <2>2
<1>2. Bad = {}
  <2> SUFFICES ASSUME Bad # {}
               PROVE  FALSE
    OBVIOUS
  <2>1. PICK m \in Bad : \A n \in Bad : m <= n
    <3>1. Bad \subseteq Nat
      OBVIOUS
    <3> HIDE DEF Bad
    <3> QED
      BY <3>1, LeastNumber
  <2>2. m # 0
    <3> SUFFICES ASSUME m = 0
                 PROVE  FALSE
      OBVIOUS
    <3> DEFINE f == [x \in Upto(0) |-> 0]
    <3>1. \A x : x \notin Upto(0)
      BY <1>1
    <3> HIDE DEF Upto
    <3>2. f = [x \in Upto(0) |-> Step(way, f, x)]
      BY <3>1
    <3> QED
      BY <3>2
  <2>3. PICK f : Good(f, m - 1)
    <3>1. m - 1 \in Nat /\ ~ (m <= m - 1)
      BY <2>2
    <3>2. m - 1 \notin Bad
      BY <2>1, <3>1
    <3> QED
      BY <3>1, <3>2
  <2> DEFINE g == [x \in Upto(m) |-> Step(way, f, x)]
  <2>4. ASSUME NEW x \in Upto(m)
        PROVE  Step(way, f, x) = Step(way, g, x)
    <3>1. ASSUME NEW p \in Parts(x)
          PROVE  f[p] = g[p]
      <4>1. p \in Whole(way) /\ Depth[p] < Depth[x] /\ Depth[x] < m
        BY PartsInside
      <4>2. Depth[p] \in Nat /\ Depth[x] \in Nat /\ m \in Nat
        BY <1>1, <4>1
      <4>3. Depth[p] < m - 1 /\ Depth[p] < m
        BY <4>1, <4>2
      <4>4. p \in Upto(m - 1) /\ p \in Upto(m)
        BY <4>1, <4>3
      <4> HIDE DEF Upto
      <4>5. f[p] = Step(way, f, p)
        BY <2>3, <4>4
      <4> QED
        BY <4>4, <4>5
    <3>2. x \in Whole(way)
      OBVIOUS
    <3> HIDE DEF g, Upto
    <3> QED
      BY <3>1, <3>2, Agrees
  <2>5. g = [x \in Upto(m) |-> Step(way, g, x)]
    BY <2>4
  <2>6. Good(g, m)
    BY <2>5
  <2> HIDE DEF Good
  <2> QED
    BY <2>1, <2>6
<1>3. Upto(MaxDepth + 1) = Whole(way)
  BY <1>1
<1>4. \A n \in Nat : \E f : Good(f, n)
  <2> HIDE DEF Good
  <2> QED
    BY <1>2
<1>5. PICK f : Good(f, MaxDepth + 1)
  <2> HIDE DEF Good
  <2> QED
    BY <1>1, <1>4
<1> HIDE DEF Upto
<1> QED
  BY <1>3, <1>5

LEMMA ToIs ==
  ASSUME NEW v \in Values
  PROVE  scheme_val_to_cbor[v] = AsTerm(scheme_val_to_cbor, v)
<1> DEFINE Fixed(f) == f = [x \in Values |-> AsTerm(f, x)]
<1>1. \E f : Fixed(f)
  <2>1. PICK f : f = [x \in Whole("to") |-> Step("to", f, x)]
    BY Converts
  <2>2. Whole("to") = Values /\ \A x : Step("to", f, x) = AsTerm(f, x)
    BY DEF Whole, Step
  <2>3. Fixed(f)
    BY <2>1, <2>2
  <2> QED
    BY <2>3
<1>2. scheme_val_to_cbor = CHOOSE f : Fixed(f)
  BY DEF scheme_val_to_cbor
<1>3. Fixed(scheme_val_to_cbor)
  <2> HIDE DEF Fixed
  <2> QED
    BY <1>1, <1>2, Zenon
<1> QED
  BY <1>3

LEMMA FromIs ==
  ASSUME NEW c \in Terms
  PROVE  cbor_to_scheme_val[c] = AsValue(cbor_to_scheme_val, c)
<1> DEFINE Fixed(f) == f = [x \in Terms |-> AsValue(f, x)]
<1>1. \E f : Fixed(f)
  <2>1. PICK f : f = [x \in Whole("from") |-> Step("from", f, x)]
    BY Converts
  <2>2. Whole("from") = Terms /\ \A x : Step("from", f, x) = AsValue(f, x)
    BY DEF Whole, Step
  <2>3. Fixed(f)
    BY <2>1, <2>2
  <2> QED
    BY <2>3
<1>2. cbor_to_scheme_val = CHOOSE f : Fixed(f)
  BY DEF cbor_to_scheme_val
<1>3. Fixed(cbor_to_scheme_val)
  <2> HIDE DEF Fixed
  <2> QED
    BY <1>1, <1>2, Zenon
<1> QED
  BY <1>3

-----------------------------------------------------------------------------
(* Data that is sent and sent back is the same.                             *)

LEMMA DataIs ==
  ASSUME NEW v \in Data
  PROVE  v \in Values /\ v[1] # "lambda" /\ Parts(v) \subseteq Data
BY CodecAssumption

LEMMA SentIs ==
  ASSUME NEW v \in Values
  PROVE  /\ scheme_val_to_cbor[v] \in Terms
         /\ scheme_val_to_cbor[v] = AsTerm(scheme_val_to_cbor, v)
BY ToIs, CodecAssumption

Returns(v) == cbor_to_scheme_val[scheme_val_to_cbor[v]] = v

LEMMA ListReturns ==
  ASSUME NEW v \in Values, v[1] = "list", \A p \in Parts(v) : Returns(p)
  PROVE  Returns(v)
<1> DEFINE c == scheme_val_to_cbor[v]
           sent == [i \in DOMAIN v[2] |-> scheme_val_to_cbor[v[2][i]]]
<1>1. v = <<"list", v[2]>> /\ v[2] = [i \in DOMAIN v[2] |-> v[2][i]]
  <2>1. v = <<"list", v[2]>> /\ v[2] \in Seq(Values)
    BY ValueIs
  <2> QED
    BY <2>1
<1>2. c = <<"array", sent>> /\ c \in Terms
  BY SentIs DEF AsTerm
<1>3. cbor_to_scheme_val[c] =
         <<"list", [i \in DOMAIN sent |-> cbor_to_scheme_val[sent[i]]]>>
  <2>1. cbor_to_scheme_val[c] = AsValue(cbor_to_scheme_val, c)
    BY <1>2, FromIs
  <2>2. c[1] = "array" /\ c[2] = sent
    BY <1>2
  <2> HIDE DEF c, sent
  <2> QED
    BY <2>1, <2>2 DEF AsValue
<1>4. \A i \in DOMAIN v[2] : cbor_to_scheme_val[sent[i]] = v[2][i]
  <2> SUFFICES ASSUME NEW i \in DOMAIN v[2]
               PROVE  cbor_to_scheme_val[sent[i]] = v[2][i]
    OBVIOUS
  <2>1. v[2][i] \in Parts(v)
    BY PartsAre
  <2> QED
    BY <2>1 DEF Returns
<1>5. DOMAIN sent = DOMAIN v[2]
  OBVIOUS
<1> HIDE DEF sent, c
<1>6. [i \in DOMAIN sent |-> cbor_to_scheme_val[sent[i]]] =
         [i \in DOMAIN v[2] |-> v[2][i]]
  BY <1>4, <1>5
<1> QED
  BY <1>1, <1>3, <1>6 DEF Returns, c

LEMMA MapReturns ==
  ASSUME NEW v \in Values, v[1] = "map", \A p \in Parts(v) : Returns(p)
  PROVE  Returns(v)
<1> DEFINE c == scheme_val_to_cbor[v]
           map == v[2]
           keys == InOrder(map)
           ps == [i \in DOMAIN keys |->
                    <<<<"text", keys[i]>>, scheme_val_to_cbor[map[keys[i]]]>>]
<1>1. v = <<"map", map>> /\ map = [k \in DOMAIN map |-> map[k]]
  BY MapIs, ValueIs
<1>2. c = <<"pairs", ps>> /\ c \in Terms
  BY SentIs DEF AsTerm, AsPairs
<1>3. /\ \A i \in DOMAIN keys : keys[i] \in DOMAIN map
      /\ \A k \in DOMAIN map : \E i \in DOMAIN keys : keys[i] = k
  <2>1. ToSet(keys) = DOMAIN map
    BY MapIs
  <2> HIDE DEF keys
  <2> QED
    BY <2>1 DEF ToSet
<1>4. /\ DOMAIN ps = DOMAIN keys
      /\ \A i \in DOMAIN keys : /\ ps[i][1] = <<"text", keys[i]>>
                               /\ ps[i][2] = scheme_val_to_cbor[map[keys[i]]]
  OBVIOUS
<1>5. c[1] = "pairs" /\ c[2] = ps
  BY <1>2
<1> HIDE DEF keys, map, ps, c
<1>6. TextKeyed(ps) /\ KeysOf(ps) = DOMAIN map
  <2>1. \A i \in DOMAIN ps : ps[i][1][1] = "text" /\ ps[i][1][2] = keys[i]
    BY <1>4
  <2>2. KeysOf(ps) = {keys[i] : i \in DOMAIN keys}
    BY <1>4, <2>1 DEF KeysOf
  <2>3. {keys[i] : i \in DOMAIN keys} = DOMAIN map
    BY <1>3
  <2> QED
    BY <2>1, <2>2, <2>3 DEF TextKeyed
<1>7. cbor_to_scheme_val[c] =
         <<"map", [k \in DOMAIN map |-> cbor_to_scheme_val[ps[LastOf(ps, k)][2]]]>>
  BY <1>2, <1>5, <1>6, FromIs DEF AsValue
<1>8. ASSUME NEW k \in DOMAIN map
      PROVE  cbor_to_scheme_val[ps[LastOf(ps, k)][2]] = map[k]
  <2>1. LastOf(ps, k) \in DOMAIN ps /\ ps[LastOf(ps, k)][1][2] = k
    BY <1>2, <1>5, <1>6, LastIs
  <2>2. ps[LastOf(ps, k)][2] = scheme_val_to_cbor[map[k]]
    BY <1>4, <2>1
  <2>3. map[k] \in Parts(v)
    BY PartsAre DEF map
  <2> QED
    BY <2>2, <2>3 DEF Returns
<1>9. [k \in DOMAIN map |-> cbor_to_scheme_val[ps[LastOf(ps, k)][2]]] = map
  BY <1>1, <1>8
<1> QED
  BY <1>1, <1>7, <1>9 DEF Returns, c

LEMMA AtomReturns ==
  ASSUME NEW v \in Values, v[1] \notin {"list", "map", "lambda"}
  PROVE  Returns(v)
<1> DEFINE c == scheme_val_to_cbor[v]
<1>1. c = AsTerm(scheme_val_to_cbor, v) /\ c \in Terms
  BY SentIs
<1>2. cbor_to_scheme_val[c] = AsValue(cbor_to_scheme_val, c)
  BY <1>1, FromIs
<1> SUFFICES AsValue(cbor_to_scheme_val, c) = v
  BY <1>2 DEF Returns
<1> HIDE DEF c
<1>3. CASE v[1] = "str"
  <2>1. c = <<"text", v[2]>> /\ v = <<"str", v[2]>>
    BY <1>1, <1>3, ValueIs DEF AsTerm
  <2> QED
    BY <2>1 DEF AsValue
<1>4. CASE v[1] = "int"
  <2>1. c = <<"integer", v[2]>> /\ v = <<"int", v[2]>> /\ v[2] \in Ints
    BY <1>1, <1>4, ValueIs DEF AsTerm
  <2> QED
    BY <2>1 DEF AsValue, FromInteger
<1>5. CASE v[1] = "bool"
  <2>1. c = <<"boolean", v[2]>> /\ v = <<"bool", v[2]>>
    BY <1>1, <1>5, ValueIs DEF AsTerm
  <2> QED
    BY <2>1 DEF AsValue
<1>6. CASE v[1] = "nil"
  <2>1. c = <<"null">> /\ v = <<"nil">>
    BY <1>1, <1>6, ValueIs DEF AsTerm
  <2> QED
    BY <2>1 DEF AsValue
<1>7. CASE v[1] \in {"bytes", "float"}
  <2>1. c = v
    BY <1>1, <1>7 DEF AsTerm
  <2> QED
    BY <1>7, <2>1 DEF AsValue
<1> QED
  BY <1>3, <1>4, <1>5, <1>6, <1>7, ValueIs

LEMMA RoundTrip ==
  ASSUME NEW v \in Data
  PROVE  Returns(v)
<1> DEFINE Lost == {x \in Data : ~ Returns(x)}
           T == {Depth[x] : x \in Lost}
<1>1. Lost = {}
  <2> SUFFICES ASSUME Lost # {}
               PROVE  FALSE
    OBVIOUS
  <2>1. \A x \in Data : Depth[x] \in Nat
    <3>1. Depth \in [Values \cup Terms -> 0 .. MaxDepth]
      BY CodecAssumption
    <3> QED
      BY <3>1, DataIs
  <2>2. T \subseteq Nat /\ T # {}
    BY <2>1
  <2>3. PICK m \in T : \A y \in T : m <= y
    <3> HIDE DEF T
    <3> QED
      BY <2>2, LeastNumber
  <2>4. PICK x \in Lost : Depth[x] = m
    BY <2>3
  <2>5. x \in Values /\ x[1] # "lambda" /\ Parts(x) \subseteq Data
    BY <2>4, DataIs
  <2>6. \A p \in Parts(x) : Returns(p)
    <3> SUFFICES ASSUME NEW p \in Parts(x)
                 PROVE  p \notin Lost
      BY <2>5
    <3>1. Depth[p] < Depth[x]
      BY <2>5, CodecAssumption
    <3>2. p \in Data /\ Depth[p] \in Nat /\ Depth[x] \in Nat
      BY <2>1, <2>4, <2>5
    <3>3. ~ (m <= Depth[p])
      BY <2>4, <3>1, <3>2
    <3> QED
      BY <2>3, <3>3
  <2>7. Returns(x)
    BY <2>5, <2>6, ListReturns, MapReturns, AtomReturns
  <2> QED
    BY <2>4, <2>7
<1> QED
  BY <1>1

-----------------------------------------------------------------------------
(* A call: what is sent, what the actor may reply and what it is read as.   *)

CodecInv ==
    /\ args \in Seq(Values)
    /\ term = NoValue => payload = NoValue
    /\ payload = NoValue => result = NoValue
    /\ term # NoValue => term = ActorTerm(Verb, args)
    /\ payload # NoValue => payload \in Replies
    /\ result # NoValue => result = decode_reply(payload)

LEMMA CodecInitial == CodecInit => CodecInv
BY DEF CodecInit, CodecInv

LEMMA CodecStep == CodecInv /\ [CallNext]_call_vars => CodecInv'
<1> SUFFICES ASSUME CodecInv, [CallNext]_call_vars
             PROVE  CodecInv'
  OBVIOUS
<1>1. CASE Call
  <2>1. PICK n \in 0 .. MaxArgs : args' \in [1 .. n -> Values]
    BY <1>1 DEF Call
  <2>2. args' \in Seq(Values)
    <3>1. n \in Nat
      BY CodecAssumption
    <3> QED
      BY <2>1, <3>1
  <2>3. term' = ActorTerm(Verb, args') /\ term' # NoValue
    BY <1>1 DEF Call, ActorTerm, NoValue
  <2>4. payload = NoValue /\ result = NoValue /\ payload' = payload /\ result' = result
    BY <1>1 DEF Call, CodecInv
  <2> QED
    BY <2>2, <2>3, <2>4 DEF CodecInv
<1>2. CASE Answer
  <2>1. /\ term # NoValue /\ payload = NoValue /\ payload' \in Replies
        /\ args' = args /\ term' = term /\ result' = result
    BY <1>2 DEF Answer
  <2>2. Replies' = Replies
    BY <2>1 DEF Replies, Said
  <2> QED
    BY <2>1, <2>2 DEF CodecInv
<1>3. CASE Decode
  <2>1. /\ payload # NoValue /\ result' = decode_reply(payload)
        /\ args' = args /\ term' = term /\ payload' = payload
    BY <1>3 DEF Decode
  <2>2. Replies' = Replies
    BY <2>1 DEF Replies, Said
  <2> QED
    BY <2>1, <2>2 DEF CodecInv
<1>4. CASE UNCHANGED call_vars
  <2>1. args' = args /\ term' = term /\ payload' = payload /\ result' = result
    BY <1>4 DEF call_vars
  <2>2. Replies' = Replies
    BY <2>1 DEF Replies, Said
  <2> QED
    BY <2>1, <2>2 DEF CodecInv
<1> QED
  BY <1>1, <1>2, <1>3, <1>4 DEF CallNext

\* The term of a call is the verb, or begins with it and has an item for each
\* argument.
LEMMA ActorTermIs ==
  ASSUME NEW vs \in Seq(Values)
  PROVE  /\ vs = <<>> => ActorTerm(Verb, vs) = <<"text", Verb>>
         /\ vs # <<>> =>
              /\ ActorTerm(Verb, vs)[1] = "array"
              /\ ActorTerm(Verb, vs)[2] \in Seq(Terms)
              /\ \A i \in DOMAIN vs :
                    ActorTerm(Verb, vs)[2][i + 1] = scheme_val_to_cbor[vs[i]]
<1>1. <<"text", Verb>> \in Terms
  BY CodecAssumption
<1>2. ASSUME vs # <<>>
      PROVE  /\ ActorTerm(Verb, vs)[1] = "array"
             /\ ActorTerm(Verb, vs)[2] \in Seq(Terms)
             /\ \A i \in DOMAIN vs :
                   ActorTerm(Verb, vs)[2][i + 1] = scheme_val_to_cbor[vs[i]]
  <2> DEFINE head == <<"text", Verb>>
             tail == [i \in DOMAIN vs |-> scheme_val_to_cbor[vs[i]]]
             items == <<head>> \o tail
  <2>1. ActorTerm(Verb, vs) = <<"array", items>>
    BY <1>2 DEF ActorTerm
  <2>2. /\ DOMAIN vs = 1 .. Len(vs) /\ Len(vs) \in Nat
        /\ \A i \in DOMAIN vs : vs[i] \in Values
    OBVIOUS
  <2>3. tail \in Seq(Terms) /\ Len(tail) = Len(vs)
    <3>1. tail \in [1 .. Len(vs) -> Terms]
      BY <2>2, SentIs
    <3> QED
      BY <2>2, <3>1
  <2>4. \A i \in DOMAIN vs : i \in 1 .. Len(vs) /\ tail[i] = scheme_val_to_cbor[vs[i]]
    BY <2>2
  <2> HIDE DEF head, tail
  <2>5. head \in Terms
    BY <1>1 DEF head
  <2>6. items \in Seq(Terms)
    BY <2>3, <2>5
  <2>7. \A i \in 1 .. Len(vs) : items[i + 1] = tail[i]
    BY <2>3, <2>5
  <2> HIDE DEF items
  <2>8. ActorTerm(Verb, vs)[1] = "array" /\ ActorTerm(Verb, vs)[2] = items
    BY <2>1
  <2> QED
    BY <2>4, <2>6, <2>7, <2>8
<1>3. vs = <<>> => ActorTerm(Verb, vs) = <<"text", Verb>>
  BY DEF ActorTerm
<1> QED
  BY <1>2, <1>3

LEMMA SaidIs ==
  ASSUME CodecInv, term # NoValue
  PROVE  Said \subseteq Terms
<1>1. args \in Seq(Values) /\ term = ActorTerm(Verb, args)
  BY DEF CodecInv
<1>2. Foreign \subseteq Terms /\ <<"text", Verb>> \in Terms
  BY CodecAssumption
<1>3. CASE args = <<>>
  <2>1. term = <<"text", Verb>>
    BY <1>1, <1>3, ActorTermIs
  <2> QED
    BY <1>2, <2>1 DEF Said
<1>4. CASE args # <<>>
  <2>1. term[1] = "array" /\ term[2] \in Seq(Terms)
    BY <1>1, <1>4, ActorTermIs
  <2>2. ToSet(term[2]) \subseteq Terms
    BY <2>1, ToSetIs
  <2> QED
    BY <1>2, <2>1, <2>2 DEF Said
<1> QED
  BY <1>3, <1>4

\* decode_reply by the form of the payload.
LEMMA DecodeIs ==
  ASSUME NEW p
  PROVE  /\ p[1] = "raw" => decode_reply(p) = <<"ok", <<"str", p[2]>>>>
         /\ p = <<"text", ":ok">> => decode_reply(p) = <<"ok", Ack>>
         /\ Headed(p, ":ok") =>
              decode_reply(p) = <<"ok", IF Len(p[2]) > 1
                                        THEN cbor_to_scheme_val[p[2][2]] ELSE Ack>>
         /\ Headed(p, ":error") =>
              decode_reply(p) = <<"err", IF Len(p[2]) > 1 /\ p[2][2][1] = "text"
                                         THEN p[2][2][2] ELSE Lossy(p)>>
         /\ p[1] # "raw" /\ p # <<"text", ":ok">>
              /\ ~ Headed(p, ":ok") /\ ~ Headed(p, ":error") =>
              decode_reply(p) = <<"ok", cbor_to_scheme_val[p]>>
<1>1. Headed(p, ":ok") => ~ Headed(p, ":error")
  BY DEF Headed
<1>2. Headed(p, ":ok") \/ Headed(p, ":error") => p[1] # "raw" /\ p # <<"text", ":ok">>
  BY DEF Headed
<1>3. p = <<"text", ":ok">> => p[1] # "raw"
  OBVIOUS
<1>4. p[1] = "raw" => Lossy(p) = p[2]
  BY DEF Lossy
<1> QED
  BY <1>1, <1>2, <1>3, <1>4 DEF decode_reply

\* The forms of a reply.
LEMMA ReplyIs ==
  ASSUME CodecInv, payload # NoValue
  PROVE  \/ payload \in Terms
         \/ payload = <<"raw", "plain">>
         \/ payload = <<"text", ":ok">>
         \/ \E head \in {":ok", ":error"} : payload = <<"array", <<<<"text", head>>>>>>
         \/ \E head \in {":ok", ":error"}, c \in Terms :
               payload = <<"array", <<<<"text", head>>, c>>>>
<1>1. term # NoValue /\ payload \in Replies
  BY DEF CodecInv
<1>2. Said \subseteq Terms
  BY <1>1, SaidIs
<1> QED
  BY <1>1, <1>2 DEF Replies

\* What a reply has behind :ok is a term.
LEMMA ItemIs ==
  ASSUME CodecInv, payload # NoValue, Headed(payload, ":ok"), Len(payload[2]) > 1
  PROVE  payload[2][2] \in Terms
<1>1. CASE payload \in Terms
  <2>1. payload[2] \in Seq(Terms)
    BY <1>1, TermIs DEF Headed
  <2> QED
    BY <2>1
<1>2. ASSUME NEW head, NEW c \in Terms, payload = <<"array", <<<<"text", head>>, c>>>>
      PROVE  payload[2][2] \in Terms
  BY <1>2
<1>3. ASSUME NEW head, payload = <<"array", <<<<"text", head>>>>>>
      PROVE  FALSE
  BY <1>3
<1>4. payload # <<"raw", "plain">> /\ payload # <<"text", ":ok">>
  BY DEF Headed
<1> QED
  BY <1>1, <1>2, <1>3, <1>4, ReplyIs

\* What is read as nil.
LEMMA NilIs ==
  ASSUME NEW c \in Terms, cbor_to_scheme_val[c] = <<"nil">>
  PROVE  c = <<"null">> \/ (c[1] = "tag" /\ cbor_to_scheme_val[c[2]] = <<"nil">>)
<1>1. AsValue(cbor_to_scheme_val, c) = <<"nil">>
  BY FromIs
<1>2. CASE c[1] = "pairs"
  BY <1>1, <1>2 DEF AsValue
<1>3. CASE c[1] = "array"
  BY <1>1, <1>3 DEF AsValue
<1>4. CASE c[1] = "integer"
  BY <1>1, <1>4 DEF AsValue, FromInteger
<1>5. CASE c[1] = "null" \/ c[1] = "tag"
  BY <1>1, <1>5, TermIs DEF AsValue
<1>6. CASE c[1] \in {"text", "boolean", "simple"}
  BY <1>1, <1>6 DEF AsValue
<1>7. CASE c[1] \in {"bytes", "float"}
  BY <1>1, <1>7, TermIs DEF AsValue
<1> QED
  BY <1>2, <1>3, <1>4, <1>5, <1>6, <1>7, TermIs

-----------------------------------------------------------------------------
(* The properties.                                                          *)

THEOREM Decodes == CodecSpec => []CodecInv
<1> QED
  BY CodecInitial, CodecStep, PTL DEF CodecSpec

LEMMA Echoes == CodecInv => EchoIsExact
<1> SUFFICES ASSUME CodecInv, result # NoValue, NEW i \in DOMAIN args, args[i] \in Data,
                    payload = <<"array", <<<<"text", ":ok">>, term[2][i + 1]>>>>
             PROVE  result = <<"ok", args[i]>>
  BY DEF EchoIsExact
<1>1. /\ args \in Seq(Values) /\ term = ActorTerm(Verb, args)
      /\ result = decode_reply(payload)
  BY DEF CodecInv
<1>2. args # <<>>
  BY <1>1
<1>3. term[2][i + 1] = scheme_val_to_cbor[args[i]]
  BY <1>1, <1>2, ActorTermIs
<1>4. Headed(payload, ":ok") /\ Len(payload[2]) > 1 /\ payload[2][2] = term[2][i + 1]
  BY DEF Headed
<1>5. decode_reply(payload) = <<"ok", cbor_to_scheme_val[payload[2][2]]>>
  BY <1>4, DecodeIs
<1>6. cbor_to_scheme_val[scheme_val_to_cbor[args[i]]] = args[i]
  BY RoundTrip DEF Returns
<1> QED
  BY <1>1, <1>3, <1>4, <1>5, <1>6

LEMMA Errs == CodecInv => ErrorsAreErrors
<1> SUFFICES ASSUME CodecInv, result # NoValue
             PROVE  /\ result[1] = "err" <=> Headed(payload, ":error")
                    /\ \A text \in {c[2] : c \in {d \in Said : d[1] = "text"}} :
                          payload =
                             <<"array", <<<<"text", ":error">>, <<"text", text>>>>>>
                             => result = <<"err", text>>
  BY DEF ErrorsAreErrors, Headed
<1>1. result = decode_reply(payload)
  BY DEF CodecInv
<1>2. result[1] = "err" <=> Headed(payload, ":error")
  <2>1. Headed(payload, ":error") => result[1] = "err"
    BY <1>1, DecodeIs
  <2>2. ~ Headed(payload, ":error") => result[1] = "ok"
    BY <1>1, DecodeIs
  <2> QED
    BY <2>1, <2>2
<1>3. ASSUME NEW text,
             payload = <<"array", <<<<"text", ":error">>, <<"text", text>>>>>>
      PROVE  result = <<"err", text>>
  <2>1. /\ Headed(payload, ":error") /\ Len(payload[2]) > 1
        /\ payload[2][2][1] = "text" /\ payload[2][2][2] = text
    BY <1>3 DEF Headed
  <2> QED
    BY <1>1, <2>1, DecodeIs
<1> QED
  BY <1>2, <1>3

LEMMA Acknowledges == CodecInv => AckIsNotNothing
<1> SUFFICES ASSUME CodecInv
             PROVE  AckIsNotNothing
  OBVIOUS
<1> DEFINE Nothing(c) == \/ c = <<"null">>
                         \/ c[1] = "tag" /\ cbor_to_scheme_val[c[2]] = <<"nil">>
           nothing == {c \in Terms : Nothing(c)}
<1>1. \A c \in Terms : cbor_to_scheme_val[c] = <<"nil">> => c \in nothing
  BY NilIs
<1> HIDE DEF nothing
<1>2. ASSUME result = <<"ok", <<"nil">>>>
      PROVE  \/ payload \in nothing
             \/ /\ payload[1] = "array" /\ Len(payload[2]) > 1
                /\ payload[2][1] = <<"text", ":ok">> /\ payload[2][2] \in nothing
  <2>1. result # NoValue /\ payload # NoValue /\ result = decode_reply(payload)
    BY <1>2 DEF CodecInv, NoValue
  <2>2. CASE Headed(payload, ":ok")
    <3>1. Len(payload[2]) > 1 /\ cbor_to_scheme_val[payload[2][2]] = <<"nil">>
      BY <1>2, <2>1, <2>2, DecodeIs DEF Ack
    <3>2. payload[2][2] \in nothing
      BY <1>1, <2>1, <2>2, <3>1, ItemIs
    <3> QED
      BY <2>2, <3>1, <3>2 DEF Headed
  <2>3. CASE payload[1] # "raw" /\ payload # <<"text", ":ok">>
             /\ ~ Headed(payload, ":ok") /\ ~ Headed(payload, ":error")
    <3>1. cbor_to_scheme_val[payload] = <<"nil">>
      BY <1>2, <2>1, <2>3, DecodeIs
    <3>2. payload \in Terms
      <4>1. ASSUME NEW head \in {":ok", ":error"}, payload = <<"array", <<<<"text", head>>>>>>
            PROVE  FALSE
        BY <2>3, <4>1 DEF Headed
      <4>2. ASSUME NEW head \in {":ok", ":error"}, NEW c,
                   payload = <<"array", <<<<"text", head>>, c>>>>
            PROVE  FALSE
        BY <2>3, <4>2 DEF Headed
      <4> QED
        BY <2>1, <2>3, <4>1, <4>2, ReplyIs
    <3> QED
      BY <1>1, <3>1, <3>2
  <2>4. ~ (payload[1] = "raw" \/ payload = <<"text", ":ok">> \/ Headed(payload, ":error"))
    BY <1>2, <2>1, DecodeIs DEF Ack
  <2> QED
    BY <2>2, <2>3, <2>4
<1>3. ASSUME result # NoValue,
             payload \in {<<"text", ":ok">>, <<"array", <<<<"text", ":ok">>>>>>}
      PROVE  result = <<"ok", <<"str", ":ok">>>>
  <2>1. result = decode_reply(payload)
    BY <1>3 DEF CodecInv
  <2>2. CASE payload = <<"text", ":ok">>
    BY <2>1, <2>2, DecodeIs DEF Ack
  <2>3. CASE payload = <<"array", <<<<"text", ":ok">>>>>>
    <3>1. Headed(payload, ":ok") /\ ~ (Len(payload[2]) > 1)
      BY <2>3 DEF Headed
    <3> QED
      BY <2>1, <3>1, DecodeIs DEF Ack
  <2> QED
    BY <1>3, <2>2, <2>3
<1> QED
  BY <1>2, <1>3 DEF AckIsNotNothing, nothing

\* A number or a map that an actor says plainly is read as what it is.
LEMMA PlainIs ==
  ASSUME CodecInv, result # NoValue, payload[1] \in {"integer", "pairs"}
  PROVE  /\ payload \in Terms
         /\ result = <<"ok", AsValue(cbor_to_scheme_val, payload)>>
<1>1. payload # NoValue /\ result = decode_reply(payload)
  BY DEF CodecInv
<1>2. payload \in Terms
  BY <1>1, ReplyIs
<1>3. /\ payload[1] # "raw" /\ payload # <<"text", ":ok">>
      /\ ~ Headed(payload, ":ok") /\ ~ Headed(payload, ":error")
  BY DEF Headed
<1> QED
  BY <1>1, <1>2, <1>3, DecodeIs, FromIs

LEMMA Counts == CodecInv => IntegersKeepTheirValue
<1> SUFFICES ASSUME CodecInv, result # NoValue, payload[1] = "integer"
             PROVE  result[2] \in {<<"int", payload[2]>>, <<"str", ToString(payload[2])>>}
  BY DEF IntegersKeepTheirValue
<1>1. result[2] = AsValue(cbor_to_scheme_val, payload)
  BY PlainIs
<1>2. ASSUME NEW f, NEW c, c[1] = "integer"
      PROVE  AsValue(f, c) = <<"int", c[2]>> \/ AsValue(f, c) = <<"str", ToString(c[2])>>
  BY <1>2 DEF AsValue, FromInteger
<1> QED
  BY <1>1, <1>2

LEMMA Maps == CodecInv => MapsKeepTheirEntries
<1> DEFINE ps == payload[2]
           Key(i) == cbor_to_scheme_val[ps[i][1]]
           Value(i) == cbor_to_scheme_val[ps[i][2]]
<1> SUFFICES ASSUME CodecInv, result # NoValue, payload[1] = "pairs", NEW i \in DOMAIN ps,
                    \A j \in i + 1 .. Len(ps) : ps[j][1] # ps[i][1]
             PROVE  \/ /\ result[2][1] = "map" /\ Key(i)[2] \in DOMAIN result[2][2]
                       /\ result[2][2][Key(i)[2]] = Value(i)
                    \/ /\ result[2][1] = "list" /\ Len(result[2][2]) = Len(ps)
                       /\ result[2][2][i] = <<"list", <<Key(i), Value(i)>>>>
  BY DEF MapsKeepTheirEntries
<1>1. payload \in Terms /\ result[2] = AsValue(cbor_to_scheme_val, payload)
  BY PlainIs
<1>2. /\ ps \in Seq(Terms \X Terms) /\ DOMAIN ps = 1 .. Len(ps) /\ Len(ps) \in Nat
      /\ \A j \in DOMAIN ps : ps[j][1] \in Terms
  <2>1. ps \in Seq(Terms \X Terms)
    BY <1>1, TermIs
  <2> HIDE DEF ps
  <2>2. DOMAIN ps = 1 .. Len(ps) /\ Len(ps) \in Nat
    BY <2>1
  <2>3. \A j \in DOMAIN ps : ps[j] \in Terms \X Terms
    BY <2>1
  <2> QED
    BY <2>1, <2>2, <2>3
<1>3. CASE TextKeyed(ps)
  <2> DEFINE key == ps[i][1][2]
  <2>1. \A j \in DOMAIN ps : ps[j][1] = <<"text", ps[j][1][2]>>
    BY <1>2, <1>3, TermIs DEF TextKeyed
  <2>2. Key(i) = <<"str", key>>
    <3>1. ps[i][1] \in Terms /\ ps[i][1][1] = "text"
      BY <1>2, <2>1
    <3> HIDE DEF ps
    <3>2. cbor_to_scheme_val[ps[i][1]] = AsValue(cbor_to_scheme_val, ps[i][1])
      BY <3>1, FromIs
    <3> QED
      BY <3>1, <3>2 DEF AsValue
  <2>3. key \in KeysOf(ps)
    BY DEF KeysOf
  <2>4. result[2] = <<"map", [k \in KeysOf(ps) |->
                               cbor_to_scheme_val[ps[LastOf(ps, k)][2]]]>>
    BY <1>1, <1>3 DEF AsValue
  <2>5. LastOf(ps, key) = i
    <3> DEFINE m == LastOf(ps, key)
    <3>1. /\ m \in DOMAIN ps /\ ps[m][1][2] = key
          /\ \A j \in m + 1 .. Len(ps) : ps[j][1][2] # key
      BY <1>1, <2>3, LastIs
    <3> HIDE DEF m
    <3>2. ~ (i < m)
      <4> SUFFICES ASSUME i < m
                   PROVE  FALSE
        OBVIOUS
      <4>1. m \in i + 1 .. Len(ps)
        BY <1>2, <3>1
      <4>2. ps[m][1] = ps[i][1]
        BY <2>1, <3>1
      <4> QED
        BY <4>1, <4>2
    <3>3. ~ (m < i)
      <4> SUFFICES ASSUME m < i
                   PROVE  FALSE
        OBVIOUS
      <4>1. i \in m + 1 .. Len(ps)
        BY <1>2, <3>1
      <4> QED
        BY <3>1, <4>1
    <3>4. i \in Nat /\ m \in Nat
      BY <1>2, <3>1
    <3> QED
      BY <3>2, <3>3, <3>4 DEF m
  <2> HIDE DEF ps
  <2>6. Key(i)[2] = key
    BY <2>2
  <2> HIDE DEF key, Key
  <2>7. /\ result[2][1] = "map" /\ key \in DOMAIN result[2][2]
        /\ result[2][2][key] = cbor_to_scheme_val[ps[LastOf(ps, key)][2]]
    BY <2>3, <2>4
  <2> QED
    BY <2>5, <2>6, <2>7
<1>4. CASE ~ TextKeyed(ps)
  <2>1. result[2] = <<"list", [j \in DOMAIN ps |-> <<"list", <<Key(j), Value(j)>>>>]>>
    BY <1>1, <1>4 DEF AsValue
  <2> HIDE DEF ps, Key, Value
  <2>2. Len([j \in DOMAIN ps |-> <<"list", <<Key(j), Value(j)>>>>]) = Len(ps)
    BY <1>2
  <2> QED
    BY <2>1, <2>2
<1> HIDE DEF ps, Key, Value
<1> QED
  BY <1>3, <1>4

\* Every value without a lambda in it, however deep, comes back as it was sent.
\* (scheme_val_to_cbor, cbor_to_scheme_val, decode_reply)
THEOREM EchoesAreExact == CodecSpec => []EchoIsExact
<1> QED
  BY Decodes, Echoes, PTL

\* Errors, acks, integers and maps keep their meaning in any reply.
\* (decode_reply, cbor_to_scheme_val)
THEOREM RepliesKeepMeaning == CodecSpec => []RepliesKeepTheirMeaning
<1>1. CodecInv => RepliesKeepTheirMeaning
  BY Errs, Acknowledges, Counts, Maps DEF RepliesKeepTheirMeaning
<1> QED
  BY <1>1, Decodes, PTL

-----------------------------------------------------------------------------
(* Dot lines.                                                               *)

Line == [op : {"set", "delete"}, path : Paths]

\* What the registry holds is what survives of the lines that wrote.
Holds(p) ==
    \/ Surviving(p) = {} /\ config[p] = Unset
    \/ \E n \in Surviving(p) : config[p] = <<"str", n>>

RegistryInv ==
    /\ config = [p \in Paths |-> config[p]]
    /\ written \in Seq(Line)
    /\ \A p \in Paths : Holds(p)
    /\ DotReadsLastWrite

\* A line undoes what an earlier one wrote to p.
Undoes(line, p) ==
    IF line.op = "set" THEN line.path = p ELSE IsPrefix(line.path, p)

\* The lines of a session that set p and were not undone.
Survives(w, p) ==
    {n \in 1 .. Len(w) :
       /\ w[n].op = "set" /\ w[n].path = p
       /\ \A k \in n + 1 .. Len(w) : ~ Undoes(w[k], p)}

LEMMA SurvivingIs ==
  ASSUME NEW p
  PROVE  /\ written \in Seq(Line) => Surviving(p) = Survives(written, p)
         /\ written' \in Seq(Line) => Surviving(p)' = Survives(written', p)
BY DEF Surviving, Survives, Undoes

-----------------------------------------------------------------------------
(* One line more.                                                           *)

\* The lines that survive one more are the earlier ones it does not undo, and
\* itself if it sets the path.
LEMMA OneMore ==
  ASSUME NEW w \in Seq(Line), NEW line \in Line, NEW p
  PROVE  /\ Append(w, line) \in Seq(Line)
         /\ Survives(Append(w, line), p) =
               (IF Undoes(line, p) THEN {} ELSE Survives(w, p))
                 \cup (IF line.op = "set" /\ line.path = p
                       THEN {Len(w) + 1} ELSE {})
<1> DEFINE N == Len(w)
           v == Append(w, line)
           Sets(l) == l.op = "set" /\ l.path = p
           Self == IF Sets(line) THEN {N + 1} ELSE {}
<1>1. /\ N \in Nat /\ v \in Seq(Line) /\ Len(v) = N + 1
      /\ \A n \in 1 .. N : v[n] = w[n]
      /\ v[N + 1] = line
  OBVIOUS
<1>2. \A n : n \in Survives(v, p) <=>
          n \in 1 .. N + 1 /\ Sets(v[n]) /\ \A k \in n + 1 .. N + 1 : ~ Undoes(v[k], p)
  BY <1>1 DEF Survives
<1>3. \A n : n \in Survives(w, p) <=>
          n \in 1 .. N /\ Sets(w[n]) /\ \A k \in n + 1 .. N : ~ Undoes(w[k], p)
  BY DEF Survives
<1> HIDE DEF N, v, Sets
<1>4. ASSUME NEW n \in 1 .. N
      PROVE  n \in Survives(v, p) <=> n \in Survives(w, p) /\ ~ Undoes(line, p)
  <2>1. /\ n \in 1 .. N + 1 /\ v[n] = w[n]
        /\ \A k : k \in n + 1 .. N + 1 <=> k \in n + 1 .. N \/ k = N + 1
        /\ \A k \in n + 1 .. N : v[k] = w[k]
    BY <1>1
  <2>2. (\A k \in n + 1 .. N + 1 : ~ Undoes(v[k], p))
          <=> (\A k \in n + 1 .. N : ~ Undoes(w[k], p)) /\ ~ Undoes(line, p)
    BY <1>1, <2>1
  <2> QED
    BY <1>2, <1>3, <2>1, <2>2
<1>5. N + 1 \in Survives(v, p) <=> Sets(line)
  <2>1. N + 1 \in 1 .. N + 1 /\ \A k : k \notin N + 1 + 1 .. N + 1
    BY <1>1
  <2> QED
    BY <1>1, <1>2, <2>1
<1>6. \A n : /\ n \in Survives(v, p) => n \in 1 .. N \/ n = N + 1
             /\ n \in Survives(w, p) => n \in 1 .. N
  BY <1>1, <1>2, <1>3
<1>7. \A n : n \in Survives(v, p) <=>
          n \in (IF Undoes(line, p) THEN {} ELSE Survives(w, p)) \cup Self
  BY <1>1, <1>4, <1>5, <1>6
<1> QED
  BY <1>1, <1>7 DEF N, v, Sets

\* What a line that writes does to what survives.
LEMMA WriteIs ==
  ASSUME NEW op \in {"set", "delete"}, NEW q \in Paths,
         written \in Seq(Line), Write(op, q), NEW p
  PROVE  /\ written' \in Seq(Line)
         /\ Surviving(p)' =
               (IF (IF op = "set" THEN q = p ELSE IsPrefix(q, p))
                THEN {} ELSE Surviving(p))
                 \cup (IF op = "set" /\ q = p THEN {Len(written) + 1} ELSE {})
<1> DEFINE line == [op |-> op, path |-> q]
<1>1. line \in Line /\ line.op = op /\ line.path = q
  BY DEF Line
<1>2. written' = Append(written, line)
  BY DEF Write
<1> QED
  BY <1>1, <1>2, OneMore, SurvivingIs DEF Undoes

-----------------------------------------------------------------------------
(* A path reads as what was last set there (eval_dot).                      *)

\* What survives is what there is to read.
LEMMA HoldsIs ==
  ASSUME NEW p, Holds(p)
  PROVE  /\ config[p] # Unset <=> Surviving(p) # {}
         /\ config[p] # Unset => \E n \in Surviving(p) : config[p] = <<"str", n>>
<1>1. \A n : <<"str", n>> # Unset
  BY DEF Unset
<1> QED
  BY <1>1 DEF Holds

LEMMA RegistryInitial == DotInit => RegistryInv
<1> SUFFICES ASSUME DotInit
             PROVE  RegistryInv
  OBVIOUS
<1>1. written = <<>> /\ written \in Seq(Line) /\ DOMAIN written = {}
  BY DEF DotInit
<1>2. \A p \in Paths : Holds(p)
  BY <1>1 DEF DotInit, Holds, Surviving
<1> QED
  BY <1>1, <1>2 DEF DotInit, RegistryInv, DotReadsLastWrite

LEMMA SetKeeps ==
  ASSUME NEW q \in Paths, RegistryInv, DotSet(q)
  PROVE  RegistryInv'
<1> USE DEF RegistryInv
<1>1. Write("set", q) /\ config' = [config EXCEPT ![q] = <<"str", Len(written) + 1>>]
  BY DEF DotSet
<1>2. written' \in Seq(Line) /\ config' = [p \in Paths |-> config'[p]]
  BY <1>1, WriteIs
<1>3. ASSUME NEW p \in Paths
      PROVE  Holds(p)'
  <2>1. Surviving(p)' = (IF q = p THEN {} ELSE Surviving(p))
                           \cup (IF q = p THEN {Len(written) + 1} ELSE {})
    BY <1>1, WriteIs
  <2>2. ASSUME p = q
        PROVE  Holds(p)'
    BY <1>1, <2>1, <2>2 DEF Holds
  <2>3. ASSUME p # q
        PROVE  Surviving(p)' = Surviving(p) /\ config'[p] = config[p] /\ Holds(p)
    BY <1>1, <2>1, <2>3
  <2> QED
    BY <2>2, <2>3 DEF Holds
<1>4. DotReadsLastWrite'
  BY <1>1 DEF Write, DotReadsLastWrite
<1> QED
  BY <1>2, <1>3, <1>4

LEMMA DeleteKeeps ==
  ASSUME NEW q \in Paths, RegistryInv, DotDelete(q)
  PROVE  RegistryInv'
<1> USE DEF RegistryInv
<1>1. /\ Write("delete", q)
      /\ config' = [p \in Paths |-> IF IsPrefix(q, p) THEN Unset ELSE config[p]]
  BY DEF DotDelete, Under
<1>2. written' \in Seq(Line) /\ config' = [p \in Paths |-> config'[p]]
  BY <1>1, WriteIs
<1>3. ASSUME NEW p \in Paths
      PROVE  Holds(p)'
  <2>1. Surviving(p)' = IF IsPrefix(q, p) THEN {} ELSE Surviving(p)
    BY <1>1, WriteIs
  <2>2. config'[p] = IF IsPrefix(q, p) THEN Unset ELSE config[p]
    BY <1>1
  <2>3. Holds(p)
    OBVIOUS
  <2> QED
    BY <2>1, <2>2, <2>3 DEF Holds
<1>4. DotReadsLastWrite'
  BY <1>1 DEF Write, DotReadsLastWrite
<1> QED
  BY <1>2, <1>3, <1>4

LEMMA GetKeeps ==
  ASSUME NEW p \in Paths, RegistryInv, DotGet(p)
  PROVE  RegistryInv'
<1> USE DEF RegistryInv
<1> DEFINE held == {q \in Paths : IsPrefix(p, q) /\ config[q] # Unset}
           below == {q \in Paths : IsPrefix(p, q) /\ Surviving(q) # {}}
<1>1. UNCHANGED <<config, written>>
  BY DEF DotGet
<1>2. (\A q \in Paths : Holds(q))' /\ (\A q : Surviving(q)' = Surviving(q))
  BY <1>1 DEF Holds, Surviving
<1>3. held = below
  BY HoldsIs
<1> DEFINE value == config[p]
<1>4. /\ value # Unset => \E n \in Surviving(p) : value = <<"str", n>>
      /\ value = Unset => Surviving(p) = {}
  BY HoldsIs
<1>5. \/ value # Unset /\ got' = <<"ok", p, value>>
      \/ value = Unset /\ below # {} /\ got' = <<"ok", p, <<"keys", below>>>>
      \/ value = Unset /\ below = {} /\ got' = <<"err", p, Unset>>
  <2>1. got' = IF value # Unset THEN <<"ok", p, value>>
               ELSE IF held # {} THEN <<"ok", p, <<"keys", held>>>>
               ELSE <<"err", p, Unset>>
    BY DEF DotGet, Under
  <2> HIDE DEF held, below, value, RegistryInv
  <2> QED
    BY <1>3, <2>1
<1> HIDE DEF below, value
<1>6. got'[2] = p
  BY <1>5
<1>7. \/ \E n \in Surviving(p) : got' = <<"ok", p, <<"str", n>>>>
      \/ Surviving(p) = {} /\ below # {} /\ got' = <<"ok", p, <<"keys", below>>>>
      \/ below = {} /\ got'[1] = "err"
  BY <1>4, <1>5
<1>8. below' = below
  BY <1>1 DEF below, Surviving
<1>9. DotReadsLastWrite'
  BY <1>2, <1>6, <1>7, <1>8 DEF DotReadsLastWrite, below
<1> QED
  BY <1>1, <1>2, <1>9

LEMMA MetaKeeps ==
  ASSUME NEW p \in Paths, RegistryInv, DotMeta(p)
  PROVE  RegistryInv'
<1>1. UNCHANGED <<config, written>> /\ got' = <<"ok", p, <<"nil">>>>
  BY DEF DotMeta
<1>2. (\A q \in Paths : Holds(q))'
  BY <1>1 DEF RegistryInv, Holds, Surviving
<1> QED
  BY <1>1, <1>2 DEF RegistryInv, DotReadsLastWrite

\* A path reads as what was last set there, unless it or a path above it was
\* deleted since; what has no value lists what below it survives, and an error
\* says that nothing does.  (eval_dot)
THEOREM ReadsLastWrite == DotSpec => []DotReadsLastWrite
<1>1. RegistryInv /\ [DotNext]_dot_vars => RegistryInv'
  <2> SUFFICES ASSUME RegistryInv, [DotNext]_dot_vars
               PROVE  RegistryInv'
    OBVIOUS
  <2>1. CASE UNCHANGED dot_vars
    <3>1. UNCHANGED <<config, written, got>>
      BY <2>1 DEF dot_vars
    <3>2. (\A q \in Paths : Holds(q))' /\ DotReadsLastWrite'
      BY <3>1 DEF RegistryInv, Holds, Surviving, DotReadsLastWrite
    <3> QED
      BY <3>1, <3>2 DEF RegistryInv
  <2>2. CASE DotNext
    BY <2>2, SetKeeps, DeleteKeeps, GetKeeps, MetaKeeps DEF DotNext
  <2> QED
    BY <2>1, <2>2
<1>2. RegistryInv => DotReadsLastWrite
  BY DEF RegistryInv
<1> QED
  BY RegistryInitial, <1>1, <1>2, PTL DEF DotSpec
=============================================================================
