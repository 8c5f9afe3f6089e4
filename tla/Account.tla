------------------------------ MODULE Account -------------------------------
(***************************************************************************)
(* What a vault promises its user, whatever devices do at the same time:   *)
(* one account whose credentials change by one whole operation at a time.  *)
(* Each operation replaces the credential it is about and leaves the       *)
(* others as they are at that moment.  Vault implements it when the server *)
(* checks writes.                                                          *)
(*                                                                         *)
(* Secrets are numbers.  A new one has never been part of the account, and *)
(* a draw of randomness is only ever used by the operation that made it.   *)
(***************************************************************************)
EXTENDS Naturals

CONSTANTS
  None,         \* no account, no passkey, no AMK
  Passphrase,   \* what the user may choose
  Passkey,      \* what may be enrolled
  Draw          \* the draws of randomness

VARIABLES
  acct,   \* the account's current credentials, None before it is opened
  past    \* the draws the account has ever used

avars == <<acct, past>>

Init ==
  /\ acct = None
  /\ past = {}

\* The account consumes draw n and becomes a.
Become(a, n) ==
  /\ n \notin past
  /\ past' = past \cup {n}
  /\ acct' = a

Open(pp, profile, n) ==
  /\ acct = None
  /\ Become([pp |-> pp, sk |-> n, profile |-> profile, code |-> n,
             passkey |-> None, identity |-> n, amk |-> None], n)

ChangePassphrase(pp, n) ==
  /\ acct # None
  /\ Become([acct EXCEPT !.pp = pp, !.profile = "constrained"], n)

\* The only operation that may bring an earlier Secret Key back.
ResetPassphrase(pp, sk, n) ==
  /\ acct # None
  /\ Become([acct EXCEPT !.pp = pp, !.sk = sk, !.profile = "constrained"], n)

RotateSecretKey(n) ==
  /\ acct # None
  /\ Become([acct EXCEPT !.sk = n, !.profile = "constrained"], n)

RotateRecoveryCode(n) ==
  /\ acct # None
  /\ Become([acct EXCEPT !.code = n], n)

RotateIdentity(n) ==
  /\ acct # None
  /\ Become([acct EXCEPT !.identity = n], n)

EnrollPrf(k, n) ==
  /\ acct # None
  /\ Become([acct EXCEPT !.passkey = k], n)

\* The AMK is minted once and then stays.
MintAmk(n) ==
  /\ acct # None
  /\ acct.amk = None
  /\ Become([acct EXCEPT !.amk = n], n)

Next ==
  \E n \in Draw :
    \/ \E pp \in Passphrase, profile \in {"native", "constrained"} :
         Open(pp, profile, n)
    \/ \E pp \in Passphrase :
         \/ ChangePassphrase(pp, n)
         \/ \E sk \in Draw : ResetPassphrase(pp, sk, n)
    \/ RotateSecretKey(n)
    \/ RotateRecoveryCode(n)
    \/ RotateIdentity(n)
    \/ \E k \in Passkey : EnrollPrf(k, n)
    \/ MintAmk(n)

Spec == Init /\ [][Next]_avars
=============================================================================
