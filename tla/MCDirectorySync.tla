-------------------------- MODULE MCDirectorySync --------------------------
(* A small instance of DirectorySync for TLC: two sources that contest user names, a manual user *)
(* and whatever earlier runs may have left in the store.                                         *)
EXTENDS DirectorySync, TLC
CONSTANTS c1, c2, a, b, d, m, g, h

HomeOf == [x \in Users \cup Groups |-> IF x \in {a, b, g} THEN c1 ELSE IF x \in {d, h} THEN c2 ELSE Local]
RankOf == (c1 :> 1) @@ (c2 :> 2)
Policies == (c1 :> "skip") @@ (c2 :> "fail_run")

Symmetry == Permutations({a, b}) \cup Permutations(Names)
=============================================================================
