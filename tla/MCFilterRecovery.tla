-------------------------- MODULE MCFilterRecovery --------------------------
EXTENDS FilterRecovery
=============================================================================
