----------------------------- MODULE MCBackups ------------------------------
(* Backups for TLC, with lengths scaled down.                              *)
EXTENDS Backups, TLC

CONSTANTS p1, p2

PassphraseValue == {p1, p2}

Alike == Permutations(PassphraseValue)
=============================================================================
