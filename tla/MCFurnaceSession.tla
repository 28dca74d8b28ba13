-------------------------- MODULE MCFurnaceSession --------------------------
(* A small pack, full enough that a returned stack finds no place; coal     *)
(* lies on the ground.                                                      *)
EXTENDS FurnaceSession

Of(item) == [item |-> item, count |-> 1, rich |-> FALSE]

MCPack == <<[Of("tool") EXCEPT !.rich = TRUE], Of("tool"), Of("ore")>>

MCLying == [i \in Items |-> IF i = "coal" THEN 1 ELSE 0]
=============================================================================
