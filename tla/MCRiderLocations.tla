--------------------------- MODULE MCRiderLocations ---------------------------
\* RiderLocations on small instances.
EXTENDS RiderLocations, TLC

Road == {0, 2}

Symmetry == Permutations(Scans)

=============================================================================
