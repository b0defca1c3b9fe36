----------------------------- MODULE MCDispatch -----------------------------
(***************************************************************************)
(* Instances of Dispatch for TLC.                                          *)
(***************************************************************************)
EXTENDS Dispatch, TLC

AnyoneSuits == [j \in Jobs |-> Drivers]

Symmetric == Permutations(Jobs) \cup Permutations(Drivers)
=============================================================================
