-------------------------- MODULE MCHostParameters --------------------------
EXTENDS HostParameters
=============================================================================
