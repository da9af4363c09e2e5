----------------------------- MODULE MCTesting -----------------------------
(* Model values for Testing: no tags, or one tag vector besides the empty one. *)
EXTENDS Testing

NoTags  == {<<>>}
OneTag  == {<<>>, <<"tag">>}
=============================================================================
