------------------------------ MODULE MCVault -------------------------------
(* Vault for TLC: two devices, two passphrases.                            *)
EXTENDS VaultProperties, TLC

CONSTANTS d1, d2, p1, p2

DeviceValue == {d1, d2}
PassphraseValue == {p1, p2}

\* Neither a device nor a passphrase is told apart from another.
Alike == Permutations(DeviceValue) \cup Permutations(PassphraseValue)
=============================================================================
