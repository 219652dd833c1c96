--------------------------- MODULE MCManagedRoot ---------------------------
(* Instances of ManagedRoot for TLC.                                       *)
EXTENDS ManagedRoot, TLC

CONSTANTS a, b, s1, s2, z, r

Symmetric == Permutations({s1, s2})

None == {}
BMentionsA == {<<b, a>>}
=============================================================================
