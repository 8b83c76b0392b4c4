------------------------------ MODULE MCActor ------------------------------
(* TableActor, observed by WallKnowledge, with a canonical shuffle: what the *)
(* properties tell apart is which shuffle a wall came from, not the order.   *)
EXTENDS WallKnowledge, Screen, SequencesExt

MCOrders(T) == {SetToSeq(T)}

\* Two seats exchange; the third takes no part.
ThreeSeatRoutings == {<<2, 1, 0>>}
=============================================================================
