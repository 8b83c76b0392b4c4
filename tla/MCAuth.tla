------------------------------- MODULE MCAuth -------------------------------
(* Auth with short durations; requests are interchangeable. *)
EXTENDS Auth, TLC

Interchangeable == Permutations(Req)
=============================================================================
