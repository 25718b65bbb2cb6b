--------------------------- MODULE MCPlatformAdmin --------------------------
EXTENDS PlatformAdmin, TLC

\* Requests differ only in their names.
RequestSymmetry == Permutations(Requests)
=============================================================================
