------------------------------- MODULE MCSession -------------------------------
EXTENDS Session

CONSTANTS p1, p2

=============================================================================
