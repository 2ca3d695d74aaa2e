------------------------------ MODULE MCMount ------------------------------
EXTENDS Mount, TLC

CONSTANTS A, B, P

Managed(m) ==
  [point |-> m, mountManager |-> TRUE, session |-> FALSE, inUse |-> FALSE]

\* With the mount manager a letter, one that is in use, or a directory, and
\* without it a letter in one session.
Requests ==
  {Managed(A), [Managed(A) EXCEPT !.inUse = TRUE], Managed(P),
   [Managed(A) EXCEPT !.mountManager = FALSE, !.session = TRUE]}

ManagedLetter == {Managed(A)}

Symmetry == Permutations(Dcb)
=============================================================================
