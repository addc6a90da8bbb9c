---------------------------- MODULE MCHostAudio ----------------------------
EXTENDS HostAudio
=============================================================================
