---------------------------- MODULE MCRaidMirror ----------------------------
(* The mirror for TLC: all its constants are given by the configurations.    *)
EXTENDS RaidMirror
=============================================================================
