------------------------------- MODULE MCCalls -------------------------------
(* Calls for TLC, with every fault an argument can have.                   *)
EXTENDS CallsProperties

MCTyped == {"passphrase", "old_passphrase", "new_passphrase", "recovery_code"}
=============================================================================
