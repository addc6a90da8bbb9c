---------------------------- MODULE MCRackBridge ----------------------------
EXTENDS RackBridge
=============================================================================
