---------------------------- MODULE MCDiscovery -----------------------------
EXTENDS Discovery

CONSTANTS s1, s2
=============================================================================
