--------------------------- MODULE MCObjectGraph ---------------------------
(* Instances of ObjectGraph for TLC.  Addresses and sessions are            *)
(* interchangeable: no definition names one of them.                        *)
EXTENDS ObjectGraph, TLC

Symmetry == Permutations(Addr) \cup Permutations(Session)
=============================================================================
