------------------------------ MODULE MCAsync ------------------------------
(***************************************************************************)
(* Three async ids in the chain of one slot.                                *)
(***************************************************************************)
EXTENDS XmpAsync

ThreeIds == {0, 2, 4}
=============================================================================
