---------------------------- MODULE MCValidation ----------------------------
(***************************************************************************)
(* Instances of Validation for TLC: bodies that vary in one or two fields. *)
(***************************************************************************)
EXTENDS Validation

Short(n, chars) == UNION {[1 .. k -> chars] : k \in 0 .. n}

Texts == Short(4, Characters) \cup Short(5, {"a", "-"})

\* A bundled name of two words.
Bundled == {<<"a", "-", "a">>}

Titles == Short(3, {"a", " ", "ae"})
TagLists == {<<>>} \cup {<<g>> : g \in Short(2, {"a", "-", "A"})}
              \cup {<<<<"a">>, <<"7">>>>, <<<<"a">>, <<"7">>, <<"a">>>>, <<<<"a">>, <<>>>>}
Yamls == Short(4, {"a", " ", "nl", "ae"})

Plain == [slug |-> <<"a">>, title |-> <<"a">>, tags |-> <<>>, yaml |-> <<"a">>,
          changelog |-> Null]

Creates ==
  {[Plain EXCEPT !.slug = s] : s \in Short(3, Characters) \cup Short(5, {"a", "-"})}
    \cup {[Plain EXCEPT !.title = t] : t \in Titles}
    \cup {[Plain EXCEPT !.tags = g] : g \in TagLists}
    \cup {[Plain EXCEPT !.yaml = y, !.changelog = c] :
            y \in Yamls, c \in {Null, <<>>, <<"a">>, <<"ae">>}}

\* Fewer for the amendments and publishes that follow, so that they may come
\* in any order.
Updates ==
  [title : {Null, <<>>, <<"a">>, <<" ", "a">>, <<"ae">>, <<"a", " ", " ">>},
   tags : {Null, <<>>, <<<<"7">>>>, <<<<"A">>>>, <<<<"a">>, <<"-", "a">>>>}]

Publishes ==
  [yaml : {<<>>, <<"a", "ae">>, <<"ae", "ae">>, <<"nl", "a", "nl">>, <<"nl", "nl">>},
   changelog : {Null, <<" ">>, <<"a">>}]
=============================================================================
