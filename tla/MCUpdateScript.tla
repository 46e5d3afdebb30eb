--------------------------- MODULE MCUpdateScript ---------------------------
(* A finite instance of UpdateScript for TLC: every file of a few elements,*)
(* each of them complete.                                                  *)
EXTENDS UpdateScript

CONSTANT MaxElements  \* bound: elements of a downloaded file

Elements ==
  {<<"decl">>, <<"skipped">>, <<"kept">>, <<"hidden">>, <<"comment">>,
   <<"importOpen", "tail">>, <<"keptOpen", "tail">>,
   <<"open", "decl", "close">>, <<"open", "comment">>,
   <<"importOpen", "open", "close", "tail">>}

MCTexts == {FlattenSeq(es) : es \in BoundedSeq(Elements, MaxElements)}
=============================================================================
