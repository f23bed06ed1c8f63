--------------------------- MODULE MCControlPanel ---------------------------
EXTENDS ControlPanel, TLC

CONSTANTS v1, v2, v3

MCVersions == {v1, v2, v3}

Symmetry == Permutations(MCVersions)
=============================================================================
