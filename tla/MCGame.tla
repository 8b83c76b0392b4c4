------------------------------- MODULE MCGame -------------------------------
(* Game and its refinements with a canonical shuffle: handles are           *)
(* interchangeable, so one wall order stands for all of them.               *)
EXTENDS GameRefinement, Feed, Screen, Saved, SequencesExt

MCOrders(T) == {SetToSeq(T)}

\* Two seats: they exchange, or both give to east (which thus passes to itself).
TwoSeatRoutings == {<<2, 1>>, <<1, 1>>}

\* Three seats: pass round the table, or two give to the third, which takes no part.
ThreeSeatRoutings == {<<2, 3, 1>>, <<3, 3, 0>>}
=============================================================================
