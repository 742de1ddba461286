------------------------------ MODULE MCFront -------------------------------
EXTENDS Front

CONSTANTS c1, c2, c3

=============================================================================
