-------------------------- MODULE MCSecurityProxy --------------------------
\* Instances of SecurityProxy for TLC.
EXTENDS SecurityProxy

CONSTANTS r1, r2, r3

ThreeRequests == {r1, r2, r3}
=============================================================================
