------------------------------ MODULE MCKeyLog ------------------------------
(* KeyLog for TLC: two custodians, a small-order key, three certificates   *)
(* that differ in one field each, a leaf and a tree head.                  *)
EXTENDS KeyLog, TLC

CONSTANTS c1, c2, w1

CustodianValue == {c1, c2}

CertOf(custodians, threshold, seq) ==
  [kind |-> "cert", userId |-> "user", kemPubkey |-> "KEM", signPubkey |-> "SIGN",
   rot |-> [custodians |-> custodians, threshold |-> threshold],
   principalSeq |-> seq, ts |-> 0]

StatementValue ==
  {CertOf(<<"A", "B">>, 2, 0), CertOf(<<"A", "B">>, 1, 0), CertOf(<<"A", "B">>, 2, 1),
   CertOf(<<>>, 0, 0),
   [kind |-> "leaf", userId |-> "user", kemPubkey |-> "KEM", signPubkey |-> "SIGN", ts |-> 0],
   [kind |-> "sth", logId |-> "log", size |-> 1, root |-> "root", ts |-> 0]}

Alike == Permutations(CustodianValue)
=============================================================================
