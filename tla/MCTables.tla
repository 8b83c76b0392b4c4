------------------------------ MODULE MCTables ------------------------------
(* Tables on small sets; accounts and requests are interchangeable. *)
EXTENDS Tables, TLC

Interchangeable == Permutations(Account) \cup Permutations(Req)
=============================================================================
