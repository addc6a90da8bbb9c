-------------------------- MODULE MCBridgeReclaim --------------------------
EXTENDS BridgeReclaim
=============================================================================
