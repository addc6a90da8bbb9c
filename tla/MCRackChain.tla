---------------------------- MODULE MCRackChain ----------------------------
EXTENDS RackChain
=============================================================================
