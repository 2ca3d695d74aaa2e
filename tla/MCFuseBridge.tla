---------------------------- MODULE MCFuseBridge ----------------------------
(***************************************************************************)
(* Instances of FuseBridge: a file and a link to it, or a directory and a  *)
(* free name; one or two threads of the library; callbacks and operations  *)
(* by question.                                                            *)
(***************************************************************************)
EXTENDS FuseBridge, TLC

CONSTANTS a, b, f1, f2, f3, t1, t2

Access == {"read", "write", "delete"}

FileAndLink == (a :> "file") @@ (b :> "link")
Directory == (a :> "dir") @@ (b :> None)
Both == {FileAndLink, Directory}
Targets == b :> a
OneFile == {a :> "file"}
NoFile == {a :> None}
NoTarget == <<>>

AllOps == {"getattr", "readlink", "mkdir", "opendir", "open", "create", "unlink", "truncate",
           "rmdir", "read", "write", "fsync", "readdir", "rename"}

Opt(dir, disp, access, share) ==
  [dir |-> dir, nondir |-> disp = "OVERWRITE", disp |-> disp, access |-> access, share |-> share]

OpenOrCreate == {Opt(FALSE, "OPEN_IF", {"read"}, Access)}
Overwrites == {Opt(FALSE, d, {"write"}, Access) : d \in {"OPEN", "OVERWRITE", "OVERWRITE_IF"}}

Mixed == {Opt(FALSE, "OPEN", {"read"}, {"read"}),
          Opt(FALSE, "OVERWRITE_IF", {"write", "delete"}, {"read"}),
          Opt(FALSE, "OVERWRITE", {"write"}, Access),
          Opt(TRUE, "CREATE", {"read"}, Access)}

AllEvents == {"create", "transfer", "other", "lock", "unlock", "dispose", "move",
              "cleanup", "close"}
PlainEvents == {"create", "cleanup", "close"}

OneRange == {<<0, 2>>}
OneSpan == {<<1, 1>>}

\* impl_file_lock::lock_file looks at two neighbours only; in a handle whose
\* ranges do not meet that finds every range that meets the new one.
ASSUME BlockedExact ==
  LET All == (0..3) \X (1..3)
      Disjoint(R) == \A p, q \in R : p # q => ~Meet(p, q)
  IN \A R \in {{}} \cup {{p, q, s} : p, q, s \in All} :
       Disjoint(R) => \A r \in All : Blocked(R, r[1], r[2]) <=> \E q \in R : Meet(r, q)

\* A behaviour is followed up to the rename that the map of locks loses track of.
NotCrossed == ~crossed

SymBoth == Permutations(File) \cup Permutations(Thread)
=============================================================================
