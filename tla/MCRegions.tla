------------------------------ MODULE MCRegions ------------------------------
(***************************************************************************)
(* A small instance of Regions: the registry has Seoul, a dong and a       *)
(* landmark with coordinates; one name of a text is not in it.             *)
(***************************************************************************)
EXTENDS Regions, TLC

CONSTANTS seoul, dong, landmark, word, r1, r2, words, type, kakao

RankByType == (landmark :> 3) @@ (dong :> 2) @@ (seoul :> 1)

Text(names, model, anchor) == [names |-> names, model |-> model, anchor |-> anchor]

\* Two searches at Naver, one at Kakao; texts of which the model names what they
\* say, something else, or a word nobody knows.
FewParts ==
  {[keys |-> {words, type}, texts |-> {}], [keys |-> {kakao}, texts |-> {}],
   [keys |-> {}, texts |-> {Text(<<dong, landmark>>, dong, dong)}],
   [keys |-> {}, texts |-> {Text(<<word>>, word, None)}],
   [keys |-> {}, texts |-> {Text(<<word>>, dong, None)}]}

Interchangeable == Permutations({r1, r2})
=============================================================================
