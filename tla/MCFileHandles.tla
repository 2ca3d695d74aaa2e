--------------------------- MODULE MCFileHandles ---------------------------
(* FileHandles with few handles, FCBs and names.                             *)
EXTENDS FileHandles, TLC

CONSTANTS h1, h2, h3

None_ == {}
First == {h1}

FcbSymmetry == Permutations(Fcb) \cup Permutations(Name)
=============================================================================
