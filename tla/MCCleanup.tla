---------------------------- MODULE MCCleanup -----------------------------
EXTENDS Cleanup, TLC

CONSTANT u  \* the one name another program puts into the quarantine
=============================================================================
