----------------------------- MODULE MCModelCall -----------------------------
(***************************************************************************)
(* Replies built around an object: prose, a fence or both may precede and  *)
(* follow it, and its strings hold braces, escaped quotes and fences.      *)
(***************************************************************************)
EXTENDS ModelCall

Strings == {<<"q", "q">>, <<"q", "}", "q">>, <<"q", "{", "q">>, <<"q", "b", "q", "}", "q">>,
            <<"q", "b", "b", "q">>, <<"q", "f", "{", "x", "}", "f", "q">>}

Braced(body) == <<"{">> \o body \o <<"}">>

Leaves == {Braced(<<"x">>)} \cup {Braced(s) : s \in Strings}

MCObjects == Leaves \cup {Braced(o) : o \in Leaves}

MCTexts ==
  {pre \o object \o post : pre \in {<<>>, <<"x">>, <<"q">>, <<"f">>, <<"{", "f">>},
                           object \in MCObjects, post \in {<<>>, <<"f">>, <<"}">>}}
    \cup {<<"x">>, <<"{", "q", "}">>}
=============================================================================
