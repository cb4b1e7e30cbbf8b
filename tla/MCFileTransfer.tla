----------------------------- MODULE MCFileTransfer -----------------------------
(* Chunks of two units and contents below, on and above a whole chunk. *)
EXTENDS FileTransfer

OneSender   == {"a"}
TwoSenders  == {"a", "b"}
OneName     == {"x"}
TwoNames    == {"x", "y"}
ThreeNames  == {"x", "y", "bad"}
Bad         == {"bad"}
Whole       == <<1, 2>>
Edited      == <<1, 3>>
Long        == <<1, 2, 3>>
LongContent == {Long}
SomeContent == {Whole, Long}
Pair        == {Whole, Edited}
Singles     == {<<"x">>}
Several     == {<<>>, <<"x", "y">>, <<"x", "bad">>}
OneEach     == {<<"x">>, <<"y">>}
=============================================================================
