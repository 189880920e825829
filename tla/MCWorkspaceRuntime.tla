------------------------ MODULE MCWorkspaceRuntime ------------------------
EXTENDS SessionCache, TLC
Symmetry == Permutations(Requests) \cup Permutations(Sessions) \cup Permutations(Addresses)
=============================================================================
