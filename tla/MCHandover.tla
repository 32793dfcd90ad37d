------------------------------ MODULE MCHandover ------------------------------
\* Handover and LiveTracking on small instances.
EXTENDS LiveTracking, TLC

=============================================================================
