------------------------------ MODULE Resolver ------------------------------
(***************************************************************************)
(* How a command turns words into actors (src/lib/runtime.zscheme,          *)
(* avatar.zscheme and stdlib.zscheme): the split at a keyword, and the      *)
(* resolution of what is left against a pool of entries.                    *)
(*                                                                          *)
(* A text is the set of its words in lower case, which is all that matching *)
(* looks at; an actor's address resolves to itself.  A pool is a sequence   *)
(* of entries, and the snapshot it was built from may be older than what    *)
(* the room says when it is asked again.                                    *)
(***************************************************************************)
EXTENDS Lists

CONSTANTS
    Words, Keyword,     \* words of a command, one of them its keyword
    Actors, Me,         \* addresses, one of them the avatar's
    Sample,             \* entries that may be in a pool
    MaxWords, MaxPool,  \* length of a command, and of a pool
    None

ASSUME ResolverAssumption ==
    /\ Keyword \in Words /\ Me \in Actors
    /\ MaxWords \in Nat /\ MaxPool \in Nat
    /\ None # "h00man" /\ None \notin Seq(Words)

VARIABLES
    request,    \* what is being resolved
    answer      \* the result, None until there is one

vars == <<request, answer>>

-----------------------------------------------------------------------------
(* Words (stdlib.zscheme).                                                   *)

words_before_keyword(words, keyword) ==
    LET from[i \in 1 .. Len(words) + 1] ==
          IF i > Len(words) THEN <<>>
          ELSE IF words[i] = keyword THEN <<>>
          ELSE <<words[i]>> \o from[i + 1]
    IN from[1]

\* None when the keyword is absent, <<>> when nothing follows it.
words_after_keyword(words, keyword) ==
    LET from[i \in 1 .. Len(words) + 1] ==
          IF i > Len(words) THEN None
          ELSE IF words[i] = keyword THEN SubSeq(words, i + 1, Len(words))
          ELSE from[i + 1]
    IN from[1]

(* Faulty variants, here and below, are used by no action.                  *)

Usage == [error |-> "usage"]

AfterUnchecked(words, keyword, required) ==
    <<words_before_keyword(words, keyword), words_after_keyword(words, keyword)>>

\* The two sides of the keyword, or the usage error.
split_command(words, keyword, required) ==
    LET before == words_before_keyword(words, keyword)
        after == words_after_keyword(words, keyword) IN
    IF before = <<>> \/ (required /\ after = None) \/ after = <<>>
    THEN Usage ELSE <<before, after>>

-----------------------------------------------------------------------------
(* The shared resolver (runtime.zscheme).                                   *)

Texts == {None} \cup (SUBSET Words \ {{}})
Kinds == {"h00man", "thing", None}
Entries == [actor : Actors, kind : Kinds, name : Texts, nick : Texts,
            description : Texts]

\* Every word asked for is a word of the attribute.
name_matches(word, entry, key) ==
    /\ entry[key] # None
    /\ word # {} /\ word \subseteq entry[key]

hits(word, pool, key) ==
    filter({e \in ToSet(pool) : name_matches(word, e, key)}, pool)

\* The entries that match by the first key any entry matches by.
candidates_by_keys(word, pool, keys) ==
    LET from[i \in 1 .. Len(keys) + 1] ==
          IF i > Len(keys) THEN <<>>
          ELSE IF hits(word, pool, keys[i]) = <<>> THEN from[i + 1]
          ELSE hits(word, pool, keys[i])
    IN from[1]

Addresses(entries) == [i \in DOMAIN entries |-> entries[i].actor]

resolve_attr(word, pool, attr) ==
    Addresses(candidates_by_keys(word, pool, <<attr>>))

resolve_ref(word, pool) ==
    unique_list(resolve_attr(word, pool, "name")
                \o resolve_attr(word, pool, "nick")
                \o resolve_attr(word, pool, "description"))

\* The entry of an actor, or one made up for it.
candidate_for_did(pool, did) ==
    IF \E i \in DOMAIN pool : pool[i].actor = did
    THEN filter({e \in ToSet(pool) : e.actor = did}, pool)[1]
    ELSE [actor |-> did, kind |-> None, name |-> None, nick |-> None,
          description |-> None]
-----------------------------------------------------------------------------
(* Commands resolve against pools (avatar.zscheme).                         *)

NoMatch == [found |-> "none"]
One(entry) == [found |-> "one", entry |-> entry]
Many(actors) == [found |-> "many", actors |-> actors]
NotAllowed == [found |-> "not allowed"]

\* One word may name the same actor several times over: that is no ambiguity.
resolve_one_entry(word, pool) ==
    LET found == resolve_ref(word, pool) IN
    IF word \in Actors THEN One(candidate_for_did(pool, word))
    ELSE IF found = <<>> THEN NoMatch
    ELSE IF Tail(found) = <<>> THEN One(candidate_for_did(pool, found[1]))
    ELSE Many(found)

NeverRefreshed(word, pool, rebuilt) == resolve_one_entry(word, pool)

\* The room is asked again only when nothing matches.
resolve_one_entry_or_refresh(word, pool, rebuilt) ==
    IF resolve_one_entry(word, pool) = NoMatch
    THEN resolve_one_entry(word, rebuilt)
    ELSE resolve_one_entry(word, pool)

only(candidates) ==
    IF candidates = <<>> THEN NoMatch
    ELSE IF Tail(candidates) = <<>> THEN One(candidates[1])
    ELSE Many(Addresses(candidates))

resolve_against(word, pool, fresh, keys) ==
    LET found == candidates_by_keys(word, pool, keys) IN
    IF word \in Actors THEN One(candidate_for_did(<<>>, word))
    ELSE only(IF found # <<>> THEN found
              ELSE candidates_by_keys(word, fresh, keys))

resolve_exit(word, pool, fresh) ==
    resolve_against(word, pool, fresh, <<"nick", "name">>)

NameFirst(word, contents) ==
    IF word \in Actors THEN One(candidate_for_did(<<>>, word))
    ELSE only(candidates_by_keys(word, contents, <<"name", "nick">>))

resolve_in_container(word, contents) ==
    IF word \in Actors THEN One(candidate_for_did(<<>>, word))
    ELSE only(candidates_by_keys(word, contents, <<"nick", "name">>))

person_pool(children) ==
    filter({e \in ToSet(children) : e.kind = "h00man"}, children)

AnyAddress(word, children, fresh) ==
    resolve_one_entry_or_refresh(word, person_pool(children), person_pool(fresh))

\* Someone else who is in the room.
resolve_person(word, children, fresh) ==
    LET r == resolve_one_entry_or_refresh(word, person_pool(children),
                                          person_pool(fresh)) IN
    IF r.found = "one" /\ (r.entry.kind # "h00man" \/ r.entry.actor = Me)
    THEN NotAllowed ELSE r

-----------------------------------------------------------------------------
Pools == UNION {[1 .. n -> Sample] : n \in 0 .. MaxPool}
Lookups == [verb : {"object", "exit", "content", "person"},
            word : Actors \cup SUBSET Words, pool : Pools, fresh : Pools]
Splits == [verb : {"split"}, words : UNION {[1 .. n -> Words] : n \in 0 .. MaxWords},
           required : BOOLEAN]

Init == request \in Lookups \cup Splits /\ answer = None

Asked(verb) == request.verb = verb /\ answer = None /\ UNCHANGED request

Object ==
    /\ Asked("object")
    /\ answer' = resolve_one_entry_or_refresh(request.word, request.pool,
                                              request.fresh)

Exit ==
    /\ Asked("exit")
    /\ answer' = resolve_exit(request.word, request.pool, request.fresh)

Content ==
    /\ Asked("content")
    /\ answer' = resolve_in_container(request.word, request.pool)

Person ==
    /\ Asked("person")
    /\ answer' = resolve_person(request.word, request.pool, request.fresh)

Split ==
    /\ Asked("split")
    /\ answer' = split_command(request.words, Keyword, request.required)

Next ==
    \/ Object
    \/ Exit
    \/ Content
    \/ Person
    \/ Split

Spec == Init /\ [][Next]_vars

-----------------------------------------------------------------------------
(* Properties.                                                              *)

Answered(verb) == answer # None /\ request.verb = verb
Named == request.word \notin Actors

\* The actors a pool offers for a word, and by one attribute alone.
Matching(pool, keys) ==
    {pool[i].actor : i \in {j \in DOMAIN pool : \E k \in keys :
       /\ pool[j][k] # None /\ request.word # {}
       /\ \A w \in request.word : w \in pool[j][k]}}
Anywhere(pool) == Matching(pool, {"name", "nick", "description"})

\* The pool the answer must come from.
Used == IF Anywhere(request.pool) # {} THEN request.pool ELSE request.fresh

\* A command acts on an object only if no other actor it can see answers to
\* the same words, however many attributes and pools name it; otherwise it
\* lists each of them once.  (resolve-ref, resolve-one-entry)
ObjectIsTheOnlyOne ==
    Answered("object") /\ Named =>
       /\ answer.found = "one" => Anywhere(Used) = {answer.entry.actor}
       /\ answer.found = "many" =>
            /\ ToSet(answer.actors) = Anywhere(Used)
            /\ IsInjective(answer.actors) /\ Len(answer.actors) > 1

\* Nothing is reported missing that a fresh look would have found.
\* (resolve-one-entry-or-refresh, resolve-against-or-false)
MissingIsMissing ==
    /\ Answered("object") /\ Named /\ answer = NoMatch => Anywhere(request.fresh) = {}
    /\ Answered("exit") /\ Named /\ answer = NoMatch =>
         Matching(request.fresh, {"nick", "name"}) = {}

\* A nick hides names: what is found in a container matches by nick if
\* anything in it does.  (candidates-by-keys)
NickFirst ==
    Answered("content") /\ Named /\ answer.found = "one" =>
       LET nicked == Matching(request.pool, {"nick"}) IN
       {answer.entry.actor} =
         IF nicked # {} THEN nicked ELSE Matching(request.pool, {"name"})

\* Whoever is given something is another person, in this room.
\* (resolve-person)
RecipientIsAnother ==
    Answered("person") /\ answer.found = "one" =>
       /\ answer.entry.actor # Me
       /\ \E i \in DOMAIN (request.pool \o request.fresh) :
             LET e == (request.pool \o request.fresh)[i] IN
             e.actor = answer.entry.actor /\ e.kind = "h00man"

\* A command is cut at its first keyword, with words on both sides, or
\* refused.  (split-command!)
SplitIsExact ==
    Answered("split") =>
       LET words == request.words
           whole == Len(words) > 0 /\ ~request.required
                      /\ \A i \in DOMAIN words : words[i] # Keyword
           cuts == {i \in 2 .. Len(words) - 1 : /\ words[i] = Keyword
                       /\ \A j \in 1 .. i - 1 : words[j] # Keyword} IN
       answer = IF whole THEN <<words, None>>
                ELSE IF cuts = {} THEN Usage
                ELSE LET i == CHOOSE i \in cuts : TRUE IN
                     <<SubSeq(words, 1, i - 1), SubSeq(words, i + 1, Len(words))>>
=============================================================================
