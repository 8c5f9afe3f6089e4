------------------------------- MODULE KeyLog -------------------------------
(***************************************************************************)
(* Succession certificates of the key transparency log: the canonical      *)
(* encodings of src/keylog.rs that get signed, and the k-of-n check of a   *)
(* certificate, one iteration of its loop per step.                        *)
(*                                                                         *)
(* Custodians sign statements at any time.  Anyone may hand a certificate, *)
(* the signatures that exist and a Root of Trust to verify_cert.  A public *)
(* key arrives as text, and one key has a spelling per base64 dialect;     *)
(* Dialect is the set of dialects in which the Root of Trust may be        *)
(* written.  A small-order key has a signature that verifies over any      *)
(* message; the check is non-strict and accepts it.                        *)
(***************************************************************************)
EXTENDS Naturals, Sequences, FiniteSets

CONSTANTS
  None,        \* no call, no verdict
  Custodian,   \* Ed25519 key pairs
  Weak,        \* small-order public keys
  Dialect,     \* base64 dialects, padded or not
  Statement,   \* what may be signed or checked: certificates, leaves, tree heads
  MaxPubs,     \* bound: public keys in a Root of Trust
  MaxSigned    \* bound: statements signed

ASSUME KeyLogAssumption ==
  /\ None \notin Custodian \cup Weak
  /\ Custodian \cap Weak = {}
  /\ MaxPubs \in Nat /\ MaxSigned \in Nat

\* The fields of each kind of statement.
ASSUME StatementAssumption ==
  \A s \in Statement :
    \/ /\ s.kind = "cert"
       /\ s = [kind |-> "cert", userId |-> s.userId, kemPubkey |-> s.kemPubkey,
               signPubkey |-> s.signPubkey,
               rot |-> [custodians |-> s.rot.custodians, threshold |-> s.rot.threshold],
               principalSeq |-> s.principalSeq, ts |-> s.ts]
       /\ s.rot.custodians \in Seq(STRING)
    \/ /\ s.kind = "leaf"
       /\ s = [kind |-> "leaf", userId |-> s.userId, kemPubkey |-> s.kemPubkey,
               signPubkey |-> s.signPubkey, ts |-> s.ts]
    \/ /\ s.kind = "sth"
       /\ s = [kind |-> "sth", logId |-> s.logId, size |-> s.size,
               root |-> s.root, ts |-> s.ts]

VARIABLES
  signed,    \* who signed what
  call,      \* the verify_cert call in progress, or None
  verdict    \* the call when it has returned, with its result, or None

vars == <<signed, call, verdict>>

-----------------------------------------------------------------------------
(* Canonical bytes, as sequences of tokens.  A text field is one token: it *)
(* holds no newline; a public key is not empty, and holds no comma or bar. *)

\* Mutant: leaves the threshold out.
CanonicalRotNoThreshold(rot) == rot.custodians \o <<"|">>

CanonicalRot(rot) == rot.custodians \o <<"|", rot.threshold>>

CertBytes(c) ==
  <<"pock-keycert-v1", c.userId, c.kemPubkey, c.signPubkey>>
    \o CanonicalRot(c.rot) \o <<c.principalSeq, c.ts>>

LeafBytes(l) == <<"pock-keylog-v1", l.userId, l.kemPubkey, l.signPubkey, l.ts>>

SthMessage(s) == <<"pock-sth-v1", s.logId, s.size, s.root, s.ts>>

Bytes(s) ==
  CASE s.kind = "cert" -> CertBytes(s)
    [] s.kind = "leaf" -> LeafBytes(s)
    [] s.kind = "sth"  -> SthMessage(s)

Cert == {s \in Statement : s.kind = "cert"}

-----------------------------------------------------------------------------
(* Keys and signatures.                                                    *)

\* What may stand in a Root of Trust; None is the key of what does not decode.
PubText ==
  [key : Custodian \cup Weak, dialect : Dialect] \cup {[key |-> None, dialect |-> None]}

\* Every signature made, and one over nothing in particular by each weak key.
Signature ==
  {[by |-> a[1], bytes |-> Bytes(a[2])] : a \in signed}
    \cup {[by |-> w, bytes |-> <<>>] : w \in Weak}

\* Non-strict verification.
Verifies(key, bytes, sig) ==
  /\ sig.by = key
  /\ sig.bytes = bytes \/ key \in Weak

-----------------------------------------------------------------------------
Init ==
  /\ signed = {}
  /\ call = None
  /\ verdict = None

\* A custodian signs a statement (sign_message or amk_sign).
Sign(c, s) ==
  /\ Cardinality(signed) < MaxSigned
  /\ signed' = signed \cup {<<c, s>>}
  /\ UNCHANGED <<call, verdict>>

Return(c, result) ==
  /\ call' = None
  /\ verdict' = [cert |-> c.cert, sigs |-> c.sigs, pubs |-> c.pubs,
                 threshold |-> c.threshold, ok |-> result]
  /\ UNCHANGED signed

\* The function keeps nothing between calls, so one call is all there is to see.
VerifyCert(cert, pubs, threshold) ==
  /\ call = None
  /\ verdict = None
  /\ LET c == [cert |-> cert, sigs |-> Signature, pubs |-> pubs,
               threshold |-> threshold, next |-> 1, seen |-> {}, count |-> 0]
     IN  \/ /\ threshold < 1
            /\ Return(c, FALSE)
         \/ /\ threshold >= 1
            /\ call' = c
            /\ UNCHANGED <<signed, verdict>>

Valid(key, c) == \E sig \in c.sigs : Verifies(key, Bytes(c.cert), sig)

\* Mutant: does not remember the keys it has counted.
CustodianUnseen ==
  /\ call # None
  /\ call.next <= Len(call.pubs)
  /\ LET pub == call.pubs[call.next]
     IN  call' = [call EXCEPT !.next = @ + 1,
                    !.count = IF pub.key # None /\ Valid(pub.key, call)
                                THEN @ + 1 ELSE @]
  /\ UNCHANGED <<signed, verdict>>

\* One iteration: a text seen before or one that does not decode is skipped.
CustodianStep ==
  /\ call # None
  /\ call.next <= Len(call.pubs)
  /\ LET pub   == call.pubs[call.next]
         fresh == pub \notin call.seen
     IN  call' = [call EXCEPT !.next = @ + 1,
                    !.seen = @ \cup {pub},
                    !.count = IF fresh /\ pub.key # None /\ Valid(pub.key, call)
                                THEN @ + 1 ELSE @]
  /\ UNCHANGED <<signed, verdict>>

Finish ==
  /\ call # None
  /\ call.next > Len(call.pubs)
  /\ Return(call, call.count >= call.threshold)

PubList == UNION {[1 .. n -> PubText] : n \in 0 .. MaxPubs}

Next ==
  \/ \E c \in Custodian, s \in Statement : Sign(c, s)
  \/ \E cert \in Cert, pubs \in PubList, threshold \in 0 .. MaxPubs :
       VerifyCert(cert, pubs, threshold)
  \/ CustodianStep
  \/ Finish

Spec == Init /\ [][Next]_vars

-----------------------------------------------------------------------------
(* Properties.                                                             *)

\* Type invariant.
TypeOK ==
  /\ signed \subseteq Custodian \X Statement
  /\ call # None =>
       /\ call.cert \in Cert
       /\ call.sigs \subseteq Signature
       /\ call.pubs \in PubList
       /\ call.next \in 1 .. Len(call.pubs) + 1
       /\ call.seen = {call.pubs[k] : k \in 1 .. call.next - 1}
       /\ call.count \in 0 .. call.next - 1
  /\ verdict # None => verdict.ok \in BOOLEAN /\ verdict.sigs \subseteq Signature

\* The different keys a Root of Trust lists.
Listed(pubs) == {pubs[k].key : k \in DOMAIN pubs} \ {None}

\* The check says yes exactly when at least `threshold' distinct custodian
\* public keys have a valid signature over the certificate: "Counts distinct
\* custodian public keys", and a threshold below 1 is never met.
CountsDistinctKeys ==
  verdict # None =>
    verdict.ok = /\ verdict.threshold >= 1
                 /\ Cardinality({key \in Listed(verdict.pubs) : Valid(key, verdict)})
                      >= verdict.threshold

\* A certificate that passes was signed, itself and not a lookalike (another
\* certificate, a leaf or a tree head), by that many listed custodians; a
\* small-order key counts as signed, as the tests pin.
PassedMeansSigned ==
  verdict # None /\ verdict.ok =>
    Cardinality({c \in Listed(verdict.pubs) :
                   c \in Weak \/ <<c, verdict.cert>> \in signed})
      >= verdict.threshold
=============================================================================
