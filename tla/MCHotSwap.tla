------------------------------ MODULE MCHotSwap ------------------------------
(* Symmetry for TLC: neither addresses nor clients are compared.           *)
EXTENDS HotSwap, TLC

Symmetric == Permutations(Addr) \cup Permutations(Clients)
=============================================================================
