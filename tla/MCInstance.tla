----------------------------- MODULE MCInstance -----------------------------
(***************************************************************************)
(* Instances of module Instance for TLC.                                   *)
(***************************************************************************)
EXTENDS Instance

CONSTANTS i1, i2

OnFolder == {i1}
WithEvent == {i2}
NoEvent == {}
=============================================================================
