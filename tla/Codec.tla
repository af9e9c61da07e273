------------------------------- MODULE Codec --------------------------------
(***************************************************************************)
(* What crosses the boundary between Scheme and the outside                 *)
(* (src/src/context.rs): the arguments of an actor call become a CBOR term, *)
(* the payload of the reply becomes a value or an error.                    *)
(*                                                                          *)
(* A value is a tuple whose first member is its type.  Scheme values:       *)
(* <<"str", s>>, <<"bytes", s>>, <<"int", n>>, <<"float", s>>, <<"bool",    *)
(* b>>, <<"nil">>, <<"list", values>>, <<"map", function from keys>> and    *)
(* <<"lambda", display text>>.  CBOR values: <<"text", s>>, <<"bytes", s>>, *)
(* <<"integer", n>>, <<"float", s>>, <<"boolean", b>>, <<"null">>,          *)
(* <<"array", values>>, <<"pairs", <<<<key, value>>>>>>, <<"tag", value>>   *)
(* and <<"simple">>.  A float stands for its bits.  The conversions call    *)
(* themselves on the parts of a value: they are functions on a set of       *)
(* values that holds the parts of each.                                     *)
(***************************************************************************)
EXTENDS Integers, Lists

CONSTANTS
    Values,     \* Scheme values that calls take, and their parts
    Data,       \* those with no lambda in them
    Terms,      \* CBOR values that travel, and their parts
    Foreign,    \* those that other programs say
    Depth,      \* how deep a value or a term is nested
    MaxDepth,   \* bound: of Depth
    Keys,       \* the keys of maps, in the order of their bytes
    Verb,       \* the verb of a call, ":" in front
    MaxArgs,    \* bound: arguments of a call
    Bits        \* width of an Int; 64 in the code

VARIABLES
    args,    \* the arguments of the call
    term,    \* the term on the wire
    payload, \* the reply's payload: a CBOR value or <<"raw", text>>
    result   \* <<"ok", value>> or <<"err", text>>

call_vars == <<args, term, payload, result>>

NoValue == <<"none">>

-----------------------------------------------------------------------------
Ints == -(2 ^ (Bits - 1)) .. 2 ^ (Bits - 1) - 1

\* An integer of CBOR has as many bits and a sign besides; what is larger
\* travels as a tag over bytes.
CborInts == -(2 ^ Bits) .. 2 ^ Bits - 1

\* The Scheme values and the CBOR values whose parts are the given ones.
SchemeVals(parts) ==
    ({"str", "bytes", "float", "lambda"} \X STRING)
    \cup ({"int"} \X Ints) \cup ({"bool"} \X BOOLEAN) \cup {<<"nil">>}
    \cup ({"list"} \X Seq(parts))
    \cup ({"map"} \X UNION {[keys -> parts] : keys \in SUBSET ToSet(Keys)})
CborVals(parts) ==
    ({"text", "bytes", "float"} \X STRING)
    \cup ({"integer"} \X CborInts) \cup ({"boolean"} \X BOOLEAN)
    \cup {<<"null">>, <<"simple">>}
    \cup ({"array"} \X Seq(parts)) \cup ({"pairs"} \X Seq(parts \X parts))
    \cup ({"tag"} \X parts)

Parts(v) ==
    CASE v[1] \in {"list", "array", "map"} -> Range(v[2])
      [] v[1] = "pairs" -> UNION {Range(pair) : pair \in Range(v[2])}
      [] v[1] = "tag" -> {v[2]}
      [] OTHER -> {}

(* Faulty variants of the helpers below: no action uses them.               *)

Wrapped(n) ==
    LET half == 2 ^ (Bits - 1) IN <<"int", ((n + half) % (2 * half)) - half>>
EntriesAsPairs(entries) ==
    <<"array", [i \in DOMAIN entries |-> <<"array", entries[i]>>]>>

\* i64::try_from: what does not fit becomes its digits.
FromInteger(n) == IF n \in Ints THEN <<"int", n>> ELSE <<"str", ToString(n)>>

\* A map goes out with its keys in order.
AsPairs(entries) == <<"pairs", entries>>
InOrder(map) == filter(DOMAIN map, Keys)

\* One level of a conversion, its parts converted by conv.
AsTerm(conv, v) ==
    CASE v[1] \in {"str", "lambda"} -> <<"text", v[2]>>
      [] v[1] = "int" -> <<"integer", v[2]>>
      [] v[1] = "bool" -> <<"boolean", v[2]>>
      [] v[1] = "nil" -> <<"null">>
      [] v[1] = "list" -> <<"array", [i \in DOMAIN v[2] |-> conv[v[2][i]]]>>
      [] v[1] = "map" ->
           LET keys == InOrder(v[2])
           IN AsPairs([i \in DOMAIN keys |->
                        <<<<"text", keys[i]>>, conv[v[2][keys[i]]]>>])
      [] v[1] \in {"bytes", "float"} -> v

scheme_val_to_cbor[v \in Values] == AsTerm(scheme_val_to_cbor, v)

TextKeyed(pairs) == \A i \in DOMAIN pairs : pairs[i][1][1] = "text"

\* A map's keys, and where each is inserted last.
KeysOf(pairs) == {pairs[i][1][2] : i \in DOMAIN pairs}
LastOf(pairs, key) ==
    CHOOSE i \in DOMAIN pairs :
       /\ pairs[i][1][2] = key
       /\ \A j \in i + 1 .. Len(pairs) : pairs[j][1][2] # key

AsValue(conv, c) ==
    CASE c[1] = "text" -> <<"str", c[2]>>
      [] c[1] = "integer" -> FromInteger(c[2])
      [] c[1] = "boolean" -> <<"bool", c[2]>>
      [] c[1] = "null" -> <<"nil">>
      [] c[1] = "array" -> <<"list", [i \in DOMAIN c[2] |-> conv[c[2][i]]]>>
      [] c[1] = "pairs" /\ TextKeyed(c[2]) ->
           <<"map", [key \in KeysOf(c[2]) |-> conv[c[2][LastOf(c[2], key)][2]]]>>
      [] c[1] = "pairs" /\ ~TextKeyed(c[2]) ->
           <<"list", [i \in DOMAIN c[2] |->
                        <<"list", <<conv[c[2][i][1]], conv[c[2][i][2]]>>>>]>>
      [] c[1] = "tag" -> conv[c[2]]
      [] c[1] = "simple" -> <<"str", "debug text">>
      [] c[1] \in {"bytes", "float"} -> c

cbor_to_scheme_val[c \in Terms] == AsValue(cbor_to_scheme_val, c)

\* What is sent travels, and no value is a part of itself.
ASSUME CodecAssumption ==
    /\ MaxArgs \in Nat /\ Bits \in Nat \ {0} /\ Verb \in STRING
    /\ Keys \in Seq(STRING) /\ IsInjective(Keys)
    /\ Values \subseteq SchemeVals(Values) /\ Terms \subseteq CborVals(Terms)
    /\ Foreign \cup {<<"text", Verb>>} \subseteq Terms
    /\ \A v \in Values : scheme_val_to_cbor[v] \in Terms
    /\ Data \subseteq Values
    /\ \A v \in Data : v[1] # "lambda" /\ Parts(v) \subseteq Data
    /\ MaxDepth \in Nat /\ Depth \in [Values \cup Terms -> 0 .. MaxDepth]
    /\ \A v \in Values \cup Terms : \A p \in Parts(v) : Depth[p] < Depth[v]

\* send_actor: an atom alone, or an array that it heads.
ActorTerm(verb, vs) ==
    IF vs = <<>> THEN <<"text", verb>>
    ELSE <<"array", <<<<"text", verb>>>>
                      \o [i \in DOMAIN vs |-> scheme_val_to_cbor[vs[i]]]>>

\* c is an array headed by the atom verb.
Headed(c, verb) ==
    c[1] = "array" /\ c[2] # <<>> /\ c[2][1] = <<"text", verb>>
Ack == <<"str", ":ok">>

\* The bytes of a payload read as text, whatever they are.
Lossy(p) == IF p[1] = "raw" THEN p[2] ELSE "lossy text"

decode_reply(p) ==
    CASE p[1] = "raw" -> <<"ok", <<"str", Lossy(p)>>>>
      [] p = <<"text", ":ok">> -> <<"ok", Ack>>
      [] Headed(p, ":ok") ->
           <<"ok", IF Len(p[2]) > 1 THEN cbor_to_scheme_val[p[2][2]] ELSE Ack>>
      [] Headed(p, ":error") ->
           <<"err", IF Len(p[2]) > 1 /\ p[2][2][1] = "text" THEN p[2][2][2]
                    ELSE Lossy(p)>>
      [] OTHER -> <<"ok", cbor_to_scheme_val[p]>>

-----------------------------------------------------------------------------
CodecInit ==
    /\ args = <<>> /\ term = NoValue /\ payload = NoValue /\ result = NoValue

\* do_actor_call sends the term ...
Call ==
    /\ term = NoValue
    /\ \E n \in 0 .. MaxArgs : args' \in [1 .. n -> Values]
    /\ term' = ActorTerm(Verb, args')
    /\ UNCHANGED <<payload, result>>

\* ... the actor answers in one of the forms there are: it repeats what it
\* was sent or says something of its own, plain, as an outcome or as text ...
Said == Foreign \cup (IF term[1] = "array" THEN ToSet(term[2]) ELSE {term})
Replies ==
    Said \cup {<<"raw", "plain">>, <<"text", ":ok">>}
    \cup {<<"array", <<<<"text", head>>>>>> : head \in {":ok", ":error"}}
    \cup {<<"array", <<<<"text", head>>, c>>>> :
             head \in {":ok", ":error"}, c \in Said}
Answer ==
    /\ term # NoValue /\ payload = NoValue
    /\ payload' \in Replies
    /\ UNCHANGED <<args, term, result>>

\* ... and the poll loop decodes it.
Decode ==
    /\ payload # NoValue /\ result = NoValue
    /\ result' = decode_reply(payload)
    /\ UNCHANGED <<args, term, payload>>

CallNext ==
    \/ Call
    \/ Answer
    \/ Decode

CodecSpec == CodecInit /\ [][CallNext]_call_vars

-----------------------------------------------------------------------------
(* Properties.                                                              *)

\* What is sent arrives: an actor that repeats an argument in an outcome gives
\* the very value back, at any depth and with every type kept.
\* (scheme_val_to_cbor, cbor_to_scheme_val)
EchoIsExact ==
    result # NoValue =>
       \A i \in DOMAIN args :
          /\ args[i] \in Data
          /\ payload = <<"array", <<<<"text", ":ok">>, term[2][i + 1]>>>>
          => result = <<"ok", args[i]>>

\* A call raises an error exactly where the actor reports one, with the
\* actor's reason if it is a text.  (decode_reply)
ErrorsAreErrors ==
    result # NoValue =>
       LET reported == /\ payload[1] = "array" /\ payload[2] # <<>>
                       /\ payload[2][1] = <<"text", ":error">> IN
       /\ result[1] = "err" <=> reported
       /\ \A text \in {c[2] : c \in {d \in Said : d[1] = "text"}} :
             payload = <<"array", <<<<"text", ":error">>, <<"text", text>>>>>>
                => result = <<"err", text>>

\* "A bare :ok ack is an atom, not nothing": nil is answered only where the
\* actor says null, and the atom for both forms of the ack.  (decode_reply)
AckIsNotNothing ==
    /\ result = <<"ok", <<"nil">>>> =>
          LET nothing ==
                {c \in Terms :
                   \/ c = <<"null">>
                   \/ c[1] = "tag" /\ cbor_to_scheme_val[c[2]] = <<"nil">>} IN
          \/ payload \in nothing
          \/ /\ payload[1] = "array" /\ Len(payload[2]) > 1
             /\ payload[2][1] = <<"text", ":ok">> /\ payload[2][2] \in nothing
    /\ result # NoValue
          /\ payload \in {<<"text", ":ok">>, <<"array", <<<<"text", ":ok">>>>>>}
          => result = <<"ok", <<"str", ":ok">>>>

\* An integer of CBOR keeps its value, as a number where it fits an Int and in
\* digits beyond; a larger one comes in as bytes.  (cbor_to_scheme_val)
IntegersKeepTheirValue ==
    result # NoValue /\ payload[1] = "integer" =>
       result[2] \in {<<"int", payload[2]>>, <<"str", ToString(payload[2])>>}

\* No entry of a map in a reply is lost, whatever its keys are, but to a
\* later one with the same key.  (cbor_to_scheme_val)
MapsKeepTheirEntries ==
    result # NoValue /\ payload[1] = "pairs" =>
       \A i \in DOMAIN payload[2] :
          LET key == cbor_to_scheme_val[payload[2][i][1]]
              value == cbor_to_scheme_val[payload[2][i][2]] IN
          \/ \E j \in i + 1 .. Len(payload[2]) :
                payload[2][j][1] = payload[2][i][1]
          \/ /\ result[2][1] = "map" /\ key[2] \in DOMAIN result[2][2]
             /\ result[2][2][key[2]] = value
          \/ /\ result[2][1] = "list" /\ Len(result[2][2]) = Len(payload[2])
             /\ result[2][2][i] = <<"list", <<key, value>>>>

\* A reply keeps its meaning: what is an error, what an ack, the value of every
\* integer and the entries of every map.  (decode_reply, cbor_to_scheme_val)
RepliesKeepTheirMeaning ==
    /\ ErrorsAreErrors
    /\ AckIsNotNothing
    /\ IntegersKeepTheirValue
    /\ MapsKeepTheirEntries
=============================================================================
