------------------------ MODULE MCDirectoryListing ------------------------
EXTENDS DirectoryListing, TLC

CONSTANTS r1, r2, v1, v2, v3

A == "a"
AB == "ab"
TwoFiles == <<A, AB>>
OnlyAB == {AB}
Lengths == {0, 2, 3}
Sizes == [n \in Range(Dots) \cup {A, AB} |-> IF n = AB THEN 3 ELSE 1]

Handles ==
  {<<TRUE, FALSE, "missing">>, <<TRUE, TRUE, "present">>,
   <<TRUE, FALSE, "neither">>, <<FALSE, FALSE, "refuses">>}
Alone == {<<TRUE, FALSE, "missing">>}
Overlapping == {<<FALSE, FALSE, "missing">>}
Neither == {<<TRUE, FALSE, "neither">>}

Symmetry == Permutations({r1, r2}) \cup Permutations({v1, v2, v3})
============================================================================
