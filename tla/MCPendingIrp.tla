---------------------------- MODULE MCPendingIrp ----------------------------
(* Instances of PendingIrp for TLC. *)
EXTENDS PendingIrp, TLC

CONSTANTS i1, i2

CreateAndCleanup == (i1 :> "create") @@ (i2 :> "cleanup")
CreateAndOther == (i1 :> "create") @@ (i2 :> "other")
CleanupAndOther == (i1 :> "cleanup") @@ (i2 :> "other")
OneCreate == (i1 :> "create")

EntrySymmetry == Permutations(Entry)
=============================================================================
