------------------------------ MODULE MCItems -------------------------------
(* Items for TLC.                                                          *)
EXTENDS ItemsProperties

CONSTANTS u1, u2, i1

UserValue == {u1, u2}
ItemValue == {i1}
=============================================================================
