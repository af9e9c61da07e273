---------------------------- MODULE MCFunctions ----------------------------
(* The pure parts of the avatar library and of the host context, each on a   *)
(* small world: references and splits (Resolver), actor calls (Codec) and   *)
(* dot lines (Registry).  They share nothing: a behaviour exercises one.     *)
EXTENDS Resolver, Codec, Registry

CONSTANTS box, red, Other, Thing

VARIABLE part

MCSample ==
    [actor : {Thing}, kind : {"thing"}, name : {None, {red, box}},
     nick : {None, {red}}, description : {None, {box}}]
    \cup [actor : {Other}, kind : {"h00man"}, name : {{red}},
          nick : {None, {box}}, description : {None}]
    \cup [actor : {Me}, kind : {"h00man"}, name : {{box}},
          nick : {None}, description : {None}]

\* Values and their parts, and the parts of those.
RECURSIVE WithParts(_)
WithParts(vs) ==
    LET all == vs \cup UNION {Parts(v) : v \in vs}
    IN IF all = vs THEN vs ELSE WithParts(all)

\* Scheme values of every type, nested, and some that look like outcomes.
Plain == {<<"str", "a">>, <<"str", ":ok">>, <<"bytes", "a">>, <<"int", -2>>,
          <<"int", 1>>, <<"float", "0.5">>, <<"bool", FALSE>>, <<"nil">>,
          <<"list", <<>>>>, <<"map", <<>>>>, <<"lambda", "a">>}
MCValues ==
    WithParts(Plain \cup {<<"list", <<v, <<"nil">>>>>> : v \in Plain}
                    \cup {<<"map", [b |-> v, a |-> <<"nil">>]>> : v \in Plain}
                    \cup {<<"list", <<<<"str", ":error">>, <<"str", "a">>>>>>})

\* Integers of both signs that do not fit, maps with other or repeated keys,
\* tags, and empty and longer outcomes.
Pair(k, v) == <<k, v>>
TextKey == <<"text", "a">>
MCForeign ==
    {<<"integer", n>> : n \in {-4, -3, 2, 3}}
    \cup {<<"tag", v>> : v \in {<<"null">>, <<"text", ":ok">>, <<"integer", 3>>}}
    \cup {<<"simple">>, <<"array", <<>>>>,
          <<"array", <<<<"text", ":ok">>, <<"null">>, <<"null">>>>>>,
          <<"pairs", <<Pair(TextKey, <<"integer", 1>>),
                       Pair(<<"integer", 1>>, <<"null">>)>>>>,
          <<"pairs", <<Pair(TextKey, <<"integer", 1>>),
                       Pair(TextKey, <<"tag", <<"null">>>>)>>>>,
          <<"pairs", <<Pair(<<"tag", TextKey>>, <<"integer", 3>>)>>>>}

\* The values that travel are these, what values are sent as, and the parts.
MCTerms ==
    WithParts(MCForeign \cup {<<"text", Verb>>}
                        \cup {scheme_val_to_cbor[v] : v \in Values})

RECURSIVE Nesting(_)
Nesting(v) == Max({0} \cup {Nesting(p) + 1 : p \in Parts(v)})
MCDepth == [v \in Values \cup Terms |-> Nesting(v)]

\* The values with no lambda: no part of a value has lambdas in its parts.
MCData == {v \in Values : \A x \in {v} \cup Parts(v) : x[1] # "lambda"}

MCKeys == <<"a", "b">>
MCPaths == {<<"x">>, <<"x", "y">>, <<"xy">>}

FunctionsInit ==
    /\ part \in {"reference", "call", "dot"}
    /\ CodecInit
    /\ DotInit
    /\ Init
    /\ part # "reference" =>
          request = [verb |-> "split", words |-> <<>>, required |-> FALSE]
FunctionsNext ==
    /\ UNCHANGED part
    /\ \/ part = "reference" /\ Next /\ UNCHANGED <<call_vars, dot_vars>>
       \/ part = "call" /\ CallNext /\ UNCHANGED <<vars, dot_vars>>
       \/ part = "dot" /\ DotNext /\ UNCHANGED <<vars, call_vars>>
=============================================================================
