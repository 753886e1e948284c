---------------------------- MODULE MCHandleTrie ----------------------------
(***************************************************************************)
(* An instance of HandleTrie for TLC: keys of three letters over an         *)
(* alphabet of two.  The first two keys share two letters, so that the      *)
(* second one inserted pushes the first one down twice; the third one       *)
(* differs from them in the second letter.                                  *)
(***************************************************************************)
EXTENDS HandleTrie

SharedPrefixes == {<<0, 0, 0>>, <<0, 0, 1>>, <<0, 1, 1>>}
=============================================================================
