----------------------------- MODULE MCCreation -----------------------------
(***************************************************************************)
(* Inventory and ErrorPaths in one instance for TLC: what a failing        *)
(* creation leaves behind, among the objects and sessions and among the    *)
(* resources of the function that failed.  The two share no state; a       *)
(* behaviour takes steps of one of them only.                              *)
(***************************************************************************)
EXTENDS Inventory, ErrorPaths, TLC

\* No definition names an address or a session.
Symmetry == Permutations(Addr) \cup Permutations(Session)

CreationInit == Init /\ PathInit

CreationNext ==
  \/ PathInit /\ Next /\ UNCHANGED pathVars
  \/ Init /\ PathNext /\ UNCHANGED vars

CreationSpec == CreationInit /\ [][CreationNext]_<<vars, pathVars>>
=============================================================================
