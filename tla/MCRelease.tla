----------------------------- MODULE MCRelease ------------------------------
(* Release for TLC.                                                        *)
EXTENDS ReleaseProperties

CONSTANTS g1, g2, b1
=============================================================================
