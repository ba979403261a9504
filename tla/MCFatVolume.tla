---------------------------- MODULE MCFatVolume ----------------------------
EXTENDS FatVolume
=============================================================================
