-------------------------- MODULE MCServerRuntime --------------------------
EXTENDS ServerRuntime

CONSTANTS c3, c1, c2, t1, t2
=============================================================================
