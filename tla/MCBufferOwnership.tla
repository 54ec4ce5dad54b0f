------------------------- MODULE MCBufferOwnership -------------------------
(***************************************************************************)
(* BufferOwnership with four holders and three heap objects.  Holders and *)
(* objects are interchangeable model values, and every property is an    *)
(* invariant, so both sets are symmetric.                                 *)
(***************************************************************************)
EXTENDS BufferOwnership, TLC

CONSTANTS h1, h2, h3, h4, o1, o2, o3

MCHolders == {h1, h2, h3, h4}
MCObjs == {o1, o2, o3}
MCSymmetry == Permutations(MCHolders) \cup Permutations(MCObjs)
================================================================================
