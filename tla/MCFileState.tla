---------------------------- MODULE MCFileState ----------------------------
EXTENDS FileState, TLC

AllKinds == {"read", "write", "query", "position", "eof", "dispose"}
LargeKinds == {"write"}
Symmetry == Permutations(Request) \cup Permutations(Handle)
=============================================================================
