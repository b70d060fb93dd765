---------------------------- MODULE MCPeacBuild ----------------------------
(* Instances of PeacBuild for TLC: a program main that imports a. *)
EXTENDS PeacBuild, TLC

CONSTANTS main, a

MCMods == {main, a}
MCOrder == <<a, main>>
MCLinkOrder == <<main, a>>
MCCopies == (a :> {a}) @@ (main :> {main, a})
=============================================================================
