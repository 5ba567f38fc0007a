---------------------------- MODULE MCWitnessing ----------------------------
(* One log.  A member witness beside strangers, over a log of up to two    *)
(* entries that may be rewritten from its first; and, for the gap, a       *)
(* member witness and a worker run under the operator's own key, over an   *)
(* honest log of up to three.                                              *)
EXTENDS Witnessing

CONSTANTS w1, w2, garbage, none

MCWitnesses == {w1}
GapWitnesses == {w1, w2}
Honest == {<<>>, <<"a">>, <<"a", "b">>, <<"a", "b", "c">>}
MCHeads == {<<>>, <<"a">>, <<"a", "b">>, <<"x">>}
=============================================================================
