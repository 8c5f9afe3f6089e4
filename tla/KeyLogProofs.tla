---------------------------- MODULE KeyLogProofs ----------------------------
(***************************************************************************)
(* Theorems about KeyLog, for any custodians, statements and lengths.      *)
(***************************************************************************)
EXTENDS KeyLog, FiniteSetTheorems, SequenceTheorems, TLAPS

\* The texts seen so far whose keys have a valid signature.
Counted(c) == {pub \in c.seen : pub.key # None /\ Valid(pub.key, c)}

\* The texts in the Root of Trust whose keys have a valid signature.
ValidTexts(v) ==
  {pub \in {v.pubs[k] : k \in DOMAIN v.pubs} : pub.key # None /\ Valid(pub.key, v)}

\* The keys in the Root of Trust that have a valid signature.
ValidKeys(v) == {key \in Listed(v.pubs) : Valid(key, v)}

\* What the check computes, in any dialects: "dedup by custodian" (keylog.rs:129)
\* compares texts, so it counts the different texts of keys with a signature.
CountsTexts ==
  verdict # None =>
    verdict.ok = /\ verdict.threshold >= 1
                 /\ Cardinality(ValidTexts(verdict)) >= verdict.threshold

CallOK(c) ==
  /\ c = [cert |-> c.cert, sigs |-> c.sigs, pubs |-> c.pubs,
          threshold |-> c.threshold, next |-> c.next, seen |-> c.seen, count |-> c.count]
  /\ c.cert \in Cert
  /\ c.sigs \subseteq Signature
  /\ c.pubs \in PubList
  /\ c.threshold \in 1 .. MaxPubs
  /\ c.next \in 1 .. Len(c.pubs) + 1
  /\ c.seen = {c.pubs[k] : k \in 1 .. c.next - 1}
  /\ c.count \in 0 .. c.next - 1

\* The loop invariant: `count' is the number of texts counted.
CallCounts(c) ==
  IsFiniteSet(Counted(c)) /\ c.count = Cardinality(Counted(c))

VerdictOK(v) ==
  /\ v.ok \in BOOLEAN
  /\ v.sigs \subseteq Signature

\* The inductive invariant of type correctness.
TypeInv ==
  /\ signed \subseteq Custodian \X Statement
  /\ call # None => CallOK(call)
  /\ verdict # None => VerdictOK(verdict)

\* The inductive invariant of the count.
CountInv ==
  /\ TypeInv
  /\ call # None => CallCounts(call)
  /\ CountsTexts

-----------------------------------------------------------------------------
(* Types.                                                                  *)

\* Signatures are never lost.
LEMMA SignatureGrows ==
  ASSUME signed \subseteq signed'
  PROVE  Signature \subseteq Signature'
  BY DEF Signature

\* An entry of a Root of Trust is a text, and its keys are finitely many.
LEMMA PubListType ==
  ASSUME NEW pubs \in PubList
  PROVE  /\ Len(pubs) \in Nat
         /\ DOMAIN pubs = 1 .. Len(pubs)
         /\ \A k \in 1 .. Len(pubs) : pubs[k] \in PubText
<1> PICK n \in 0 .. MaxPubs : pubs \in [1 .. n -> PubText]
  BY DEF PubList
<1>1. n \in Nat
  BY KeyLogAssumption
<1>2. pubs \in Seq(PubText) /\ Len(pubs) = n
  BY <1>1
<1> QED
  BY <1>1, <1>2

\* No call, no verdict, no signature at first.
LEMMA InitType == Init => TypeInv
  BY DEF Init, TypeInv

\* Signing disturbs neither a call nor a verdict.
LEMMA SignType ==
  ASSUME TypeInv, NEW c \in Custodian, NEW s \in Statement, Sign(c, s)
  PROVE  TypeInv'
<1>1. UNCHANGED <<call, verdict>> /\ Signature \subseteq Signature'
  BY SignatureGrows DEF Sign
<1> QED
  BY <1>1 DEF Sign, TypeInv, CallOK, VerdictOK

\* A call that starts, or returns at once.
LEMMA VerifyCertType ==
  ASSUME TypeInv, NEW cert \in Cert, NEW pubs \in PubList, NEW threshold \in 0 .. MaxPubs,
         VerifyCert(cert, pubs, threshold)
  PROVE  TypeInv'
<1> DEFINE c == [cert |-> cert, sigs |-> Signature, pubs |-> pubs,
                 threshold |-> threshold, next |-> 1, seen |-> {}, count |-> 0]
<1>1. CASE threshold < 1 /\ Return(c, FALSE)
  <2>1. call' = None /\ signed' = signed
    BY <1>1 DEF Return
  <2>2. VerdictOK(verdict)'
    BY <1>1 DEF Return, VerdictOK, Signature
  <2> QED
    BY <2>1, <2>2 DEF TypeInv
<1>2. CASE threshold >= 1 /\ call' = c /\ UNCHANGED <<signed, verdict>>
  <2>1. Signature' = Signature
    BY <1>2 DEF Signature
  <2>2. CallOK(c)'
    BY <1>2, <2>1, PubListType, KeyLogAssumption DEF CallOK
  <2> QED
    BY <1>2, <2>1, <2>2 DEF TypeInv, VerdictOK
<1> QED
  BY <1>1, <1>2 DEF VerifyCert

\* The call after one iteration.
LEMMA StepShape ==
  ASSUME TypeInv, CustodianStep
  PROVE  /\ CallOK(call)
         /\ call.pubs[call.next] \in PubText
         /\ call'.cert = call.cert /\ call'.sigs = call.sigs /\ call'.pubs = call.pubs
         /\ call'.threshold = call.threshold
         /\ call'.next = call.next + 1
         /\ call'.seen = call.seen \cup {call.pubs[call.next]}
         /\ call'.count = IF /\ call.pubs[call.next] \notin call.seen
                             /\ call.pubs[call.next].key # None
                             /\ Valid(call.pubs[call.next].key, call)
                            THEN call.count + 1 ELSE call.count
<1>1. CallOK(call) /\ call.next \in 1 .. Len(call.pubs)
  BY PubListType DEF TypeInv, CustodianStep, CallOK
<1>2. call.pubs[call.next] \in PubText
  BY <1>1, PubListType DEF CallOK
<1> QED
  BY <1>1, <1>2 DEF CallOK, CustodianStep

\* One iteration of the loop keeps the call well-formed.
LEMMA StepType ==
  ASSUME TypeInv, CustodianStep
  PROVE  TypeInv'
<1>1. UNCHANGED <<signed, verdict>> /\ Signature' = Signature
  BY DEF CustodianStep, Signature
<1>2. call.next \in 1 .. Len(call.pubs) /\ Len(call.pubs) \in Nat
  BY StepShape, PubListType DEF CallOK, CustodianStep
<1>3. call'.seen = {call.pubs[k] : k \in 1 .. call.next}
  BY StepShape, <1>2 DEF CallOK
<1>4. call'.count \in 0 .. call.next
  BY StepShape, <1>2 DEF CallOK
<1>5. call' = [cert |-> call'.cert, sigs |-> call'.sigs, pubs |-> call'.pubs,
               threshold |-> call'.threshold, next |-> call'.next,
               seen |-> call'.seen, count |-> call'.count]
  BY StepShape DEF CustodianStep, CallOK
<1>6. CallOK(call)'
  BY <1>1, <1>2, <1>3, <1>4, <1>5, StepShape DEF CallOK
<1> QED
  BY <1>1, <1>6 DEF TypeInv, VerdictOK

\* The end of the loop leaves a well-formed verdict.
LEMMA FinishType ==
  ASSUME TypeInv, Finish
  PROVE  TypeInv'
<1>1. call' = None /\ signed' = signed /\ CallOK(call)
  BY DEF Finish, Return, TypeInv
<1>2. (call.count >= call.threshold) \in BOOLEAN
  OBVIOUS
<1>3. verdict'.ok = (call.count >= call.threshold) /\ verdict'.sigs = call.sigs
  BY DEF Finish, Return
<1>4. VerdictOK(verdict)'
  BY <1>1, <1>2, <1>3 DEF VerdictOK, CallOK, Signature
<1> QED
  BY <1>1, <1>4 DEF TypeInv

\* The type invariant is inductive: one step for each disjunct of Next.
LEMMA NextType == TypeInv /\ [Next]_vars => TypeInv'
<1> SUFFICES ASSUME TypeInv, [Next]_vars PROVE TypeInv'
  OBVIOUS
<1>1. CASE UNCHANGED vars
  BY <1>1 DEF vars, TypeInv, CallOK, VerdictOK, Signature
<1>2. CASE Next
  BY <1>2, SignType, VerifyCertType, StepType, FinishType DEF Next
<1> QED
  BY <1>1, <1>2

\* Type correctness: the verify_cert loop stays within its list and its count
\* within the keys it has looked at.
THEOREM TypeCorrect == Spec => []TypeOK
<1>1. TypeInv => TypeOK
  BY DEF TypeInv, TypeOK, CallOK, VerdictOK
<1>2. Spec => []TypeInv
  BY InitType, NextType, PTL DEF Spec
<1> QED
  BY <1>1, <1>2, PTL


-----------------------------------------------------------------------------
(* The count.                                                              *)

\* Validity depends on the certificate and the signatures alone.
LEMMA SameValid ==
  ASSUME NEW c, NEW e, c.cert = e.cert, c.sigs = e.sigs, NEW key
  PROVE  Valid(key, c) = Valid(key, e)
  BY DEF Valid

\* A call starts with nothing counted.
LEMMA NothingCounted ==
  ASSUME NEW c, c.seen = {}, c.count = 0
  PROVE  CallCounts(c)
<1>1. Counted(c) = {}
  BY DEF Counted
<1> QED
  BY <1>1, FS_EmptySet DEF CallCounts

\* One iteration adds one to the count exactly when it adds a text.
LEMMA StepCounts ==
  ASSUME TypeInv, CustodianStep, CallCounts(call)
  PROVE  CallCounts(call')
<1> DEFINE pub == call.pubs[call.next]
<1>1. /\ CallOK(call)
      /\ pub \in PubText
      /\ call'.cert = call.cert /\ call'.sigs = call.sigs
      /\ call'.seen = call.seen \cup {pub}
      /\ call'.count = IF pub \notin call.seen /\ pub.key # None /\ Valid(pub.key, call)
                         THEN call.count + 1 ELSE call.count
  BY StepShape
<1>3. \A key : Valid(key, call') = Valid(key, call)
  BY <1>1, SameValid
<1>4. IsFiniteSet(Counted(call)) /\ call.count = Cardinality(Counted(call))
  BY DEF CallCounts
<1> HIDE DEF pub
<1>5. CASE pub \notin call.seen /\ pub.key # None /\ Valid(pub.key, call)
  <2>1. Counted(call') = Counted(call) \cup {pub}
    BY <1>1, <1>3, <1>5 DEF Counted
  <2>2. pub \notin Counted(call)
    BY <1>5 DEF Counted
  <2>3. /\ IsFiniteSet(Counted(call'))
        /\ Cardinality(Counted(call')) = Cardinality(Counted(call)) + 1
    BY <1>4, <2>1, <2>2, FS_AddElement
  <2> QED
    BY <1>1, <1>4, <1>5, <2>3 DEF CallCounts
<1>6. CASE ~(pub \notin call.seen /\ pub.key # None /\ Valid(pub.key, call))
  <2>1. Counted(call') = Counted(call)
    BY <1>1, <1>3, <1>6 DEF Counted
  <2>2. call'.count = call.count
    BY <1>1, <1>6
  <2> QED
    BY <1>4, <2>1, <2>2 DEF CallCounts
<1> QED
  BY <1>5, <1>6

\* At the end of the list, the texts counted are all there are.
LEMMA AllCounted ==
  ASSUME TypeInv, Finish
  PROVE  Counted(call) = ValidTexts(call)
<1>1. CallOK(call) /\ call.next > Len(call.pubs)
  BY DEF Finish, TypeInv
<1>2. Len(call.pubs) \in Nat /\ DOMAIN call.pubs = 1 .. Len(call.pubs)
  BY <1>1, PubListType DEF CallOK
<1>3. call.next - 1 = Len(call.pubs)
  BY <1>1, <1>2 DEF CallOK
<1>4. call.seen = {call.pubs[k] : k \in DOMAIN call.pubs}
  BY <1>1, <1>2, <1>3 DEF CallOK
<1> QED
  BY <1>4 DEF Counted, ValidTexts

\* The verdict of a finished loop is right.
LEMMA FinishCounts ==
  ASSUME TypeInv, Finish, CallCounts(call)
  PROVE  CountsTexts'
<1>1. /\ verdict'.cert = call.cert /\ verdict'.sigs = call.sigs
      /\ verdict'.pubs = call.pubs /\ verdict'.threshold = call.threshold
      /\ verdict'.ok = (call.count >= call.threshold)
  BY DEF Finish, Return
<1>2. \A key : Valid(key, verdict') = Valid(key, call)
  BY <1>1, SameValid
<1>3. ValidTexts(verdict') = ValidTexts(call)
  BY <1>1, <1>2 DEF ValidTexts
<1>4. call.count = Cardinality(ValidTexts(verdict'))
  BY <1>3, AllCounted DEF CallCounts
<1>5. call.threshold >= 1
  BY KeyLogAssumption DEF Finish, TypeInv, CallOK
<1>6. verdict'.ok <=> call.count >= verdict'.threshold
  BY <1>1
<1>7. verdict'.ok \in BOOLEAN
  BY <1>1
<1>8. verdict'.ok = /\ verdict'.threshold >= 1
                    /\ Cardinality(ValidTexts(verdict')) >= verdict'.threshold
  BY <1>1, <1>4, <1>5, <1>6, <1>7
<1> QED
  BY <1>8 DEF CountsTexts

\* A call that starts has counted nothing, and one that is turned away for its
\* threshold gets the right verdict.
LEMMA VerifyCertCounts ==
  ASSUME CountInv, NEW cert \in Cert, NEW pubs \in PubList, NEW threshold \in 0 .. MaxPubs,
         VerifyCert(cert, pubs, threshold)
  PROVE  (call # None => CallCounts(call))' /\ CountsTexts'
<1> DEFINE c == [cert |-> cert, sigs |-> Signature, pubs |-> pubs,
                 threshold |-> threshold, next |-> 1, seen |-> {}, count |-> 0]
<1>1. CASE threshold < 1 /\ Return(c, FALSE)
  <2>1. call' = None /\ verdict'.ok = FALSE /\ verdict'.threshold = threshold
    BY <1>1 DEF Return
  <2>2. ~(threshold >= 1)
    BY <1>1, KeyLogAssumption
  <2> QED
    BY <2>1, <2>2 DEF CountsTexts
<1>2. CASE threshold >= 1 /\ call' = c /\ UNCHANGED <<signed, verdict>>
  <2>1. call'.seen = {} /\ call'.count = 0
    BY <1>2
  <2>2. CallCounts(call')
    BY <2>1, NothingCounted
  <2>3. CountsTexts'
    BY <1>2 DEF VerifyCert, CountsTexts
  <2> QED
    BY <2>2, <2>3
<1> QED
  BY <1>1, <1>2 DEF VerifyCert

\* The count stays right in every step.
LEMMA NextCounts == CountInv /\ [Next]_vars => CountInv'
<1> SUFFICES ASSUME CountInv, [Next]_vars PROVE CountInv'
  OBVIOUS
<1>1. TypeInv'
  BY NextType DEF CountInv
<1>2. CASE UNCHANGED <<call, verdict>>
  BY <1>1, <1>2 DEF CountInv, CallCounts, Counted, CountsTexts, ValidTexts
<1>3. ASSUME NEW cert \in Cert, NEW pubs \in PubList, NEW threshold \in 0 .. MaxPubs,
             VerifyCert(cert, pubs, threshold)
      PROVE  CountInv'
  BY <1>1, <1>3, VerifyCertCounts DEF CountInv
<1>4. CASE CustodianStep
  <2>1. call # None /\ verdict' = verdict
    BY <1>4 DEF CustodianStep
  <2>2. CallCounts(call')
    BY <1>4, <2>1, StepCounts DEF CountInv
  <2> QED
    BY <1>1, <2>1, <2>2 DEF CountInv, CountsTexts
<1>5. CASE Finish
  <2>1. call # None /\ call' = None
    BY <1>5 DEF Finish, Return
  <2> QED
    BY <1>1, <1>5, <2>1, FinishCounts DEF CountInv
<1> QED
  BY <1>2, <1>3, <1>4, <1>5 DEF Next, Sign, vars

\* verify_cert says yes exactly when at least `threshold' different texts in the
\* Root of Trust are of keys with a valid signature: neither their order nor a
\* repetition matters, for any list, any signatures and any dialects.
THEOREM TextsCounted == Spec => []CountsTexts
<1>1. Init => CountInv
  BY InitType DEF Init, CountInv, CountsTexts
<1>2. CountInv => CountsTexts
  BY DEF CountInv
<1> QED
  BY <1>1, <1>2, NextCounts, PTL DEF Spec

-----------------------------------------------------------------------------
(* What is signed is one statement.                                        *)

\* u is s, of length i, and t after it, of length j.
Joins(u, s, i, t, j) ==
  /\ Len(u) = i + j
  /\ \A k \in 1 .. i : u[k] = s[k]
  /\ \A k \in 1 .. j : u[i + k] = t[k]

LEMMA Joined ==
  ASSUME NEW S, NEW s \in Seq(S), NEW t \in Seq(S), NEW i \in Nat, NEW j \in Nat,
         Len(s) = i, Len(t) = j
  PROVE  s \o t \in Seq(S) /\ Joins(s \o t, s, i, t, j)
<1>1. /\ s \o t \in Seq(S) /\ Len(s \o t) = Len(s) + Len(t)
      /\ \A k \in 1 .. Len(s) + Len(t) :
           (s \o t)[k] = IF k <= Len(s) THEN s[k] ELSE t[k - Len(s)]
  BY ConcatProperties, Zenon
<1>2. PICK u : u = s \o t
  OBVIOUS
<1>3. \A k \in 1 .. i + j : u[k] = IF k <= i THEN s[k] ELSE t[k - i]
  BY <1>1, <1>2, Zenon
<1>4. \A k \in 1 .. i : u[k] = s[k]
  BY <1>3
<1>5. \A k \in 1 .. j : u[i + k] = t[k]
  <2> TAKE k \in 1 .. j
  <2>1. i + k \in 1 .. i + j /\ ~(i + k <= i) /\ (i + k) - i = k
    OBVIOUS
  <2> QED
    BY <1>3, <2>1
<1> QED
  BY <1>1, <1>2, <1>4, <1>5, Zenon DEF Joins

\* What stands where in a sequence e of four, n, two and two.
Laid(e, h, m, n, b, t) ==
  /\ Len(e) = n + 8
  /\ \A k \in 1 .. 4 : e[k] = h[k]
  /\ \A k \in 1 .. n : e[4 + k] = m[k]
  /\ e[n + 6] = b[2]
  /\ e[n + 7] = t[1] /\ e[n + 8] = t[2]

LEMMA Places ==
  ASSUME NEW h, NEW m, NEW b, NEW t, NEW n \in Nat, NEW rot, NEW hr, NEW e,
         Joins(rot, m, n, b, 2), Joins(hr, h, 4, rot, n + 2), Joins(e, hr, n + 6, t, 2)
  PROVE  Laid(e, h, m, n, b, t)
<1>1. Len(e) = n + 8
  BY DEF Joins
<1>2. \A k \in 1 .. 4 : e[k] = h[k]
  BY DEF Joins
<1>3. \A k \in 1 .. n : e[4 + k] = m[k]
  <2> TAKE k \in 1 .. n
  <2>1. 4 + k \in 1 .. n + 6 /\ k \in 1 .. n + 2
    OBVIOUS
  <2> QED
    BY <2>1 DEF Joins
<1>4. e[n + 6] = b[2]
  <2>1. n + 6 \in 1 .. n + 6 /\ n + 6 = 4 + (n + 2) /\ n + 2 \in 1 .. n + 2 /\ 2 \in 1 .. 2
    OBVIOUS
  <2> QED
    BY <2>1 DEF Joins
<1>5. e[n + 7] = t[1] /\ e[n + 8] = t[2]
  <2>1. n + 7 = (n + 6) + 1 /\ n + 8 = (n + 6) + 2 /\ 1 \in 1 .. 2 /\ 2 \in 1 .. 2
    OBVIOUS
  <2> QED
    BY <2>1 DEF Joins
<1> QED
  BY <1>1, <1>2, <1>3, <1>4, <1>5, Zenon DEF Laid

\* The tokens of a certificate, by their places.
LEMMA CertTokens ==
  ASSUME NEW c \in Cert, NEW n, n = Len(c.rot.custodians)
  PROVE  /\ n \in Nat /\ Len(CertBytes(c)) = n + 8
         /\ CertBytes(c)[1] = "pock-keycert-v1" /\ CertBytes(c)[2] = c.userId
         /\ CertBytes(c)[3] = c.kemPubkey /\ CertBytes(c)[4] = c.signPubkey
         /\ \A k \in 1 .. n : CertBytes(c)[4 + k] = c.rot.custodians[k]
         /\ CertBytes(c)[n + 6] = c.rot.threshold
         /\ CertBytes(c)[n + 7] = c.principalSeq /\ CertBytes(c)[n + 8] = c.ts
<1>1. PICK h, b, t :
        /\ h = <<"pock-keycert-v1", c.userId, c.kemPubkey, c.signPubkey>>
        /\ b = <<"|", c.rot.threshold>>
        /\ t = <<c.principalSeq, c.ts>>
  OBVIOUS
<1>2. Len(h) = 4 /\ Len(b) = 2 /\ Len(t) = 2
  BY <1>1
<1>3. /\ h[1] = "pock-keycert-v1" /\ h[2] = c.userId /\ h[3] = c.kemPubkey
      /\ h[4] = c.signPubkey /\ b[2] = c.rot.threshold
      /\ t[1] = c.principalSeq /\ t[2] = c.ts
  BY <1>1
<1>4. PICK S : S = STRING \cup {"pock-keycert-v1", "|", c.userId, c.kemPubkey,
                               c.signPubkey, c.rot.threshold, c.principalSeq, c.ts}
  OBVIOUS
<1>5. h \in Seq(S) /\ b \in Seq(S) /\ t \in Seq(S)
  BY <1>1, <1>4
<1>6. c.rot.custodians \in Seq(S)
  <2>1. c.rot.custodians \in Seq(STRING)
    BY StatementAssumption DEF Cert
  <2> QED
    BY <1>4, <2>1, SeqMonotonic
<1>7. CertBytes(c) = (h \o (c.rot.custodians \o b)) \o t
  BY <1>1 DEF CertBytes, CanonicalRot
<1>8. n \in Nat /\ 2 \in Nat
  BY <1>6, LenProperties
<1>9. PICK rot \in Seq(S) :
        rot = c.rot.custodians \o b /\ Joins(rot, c.rot.custodians, n, b, 2)
  BY <1>2, <1>5, <1>6, <1>8, Joined, Zenon
<1>10. Len(rot) = n + 2
  BY <1>9 DEF Joins
<1>11. PICK hr \in Seq(S) : hr = h \o rot /\ Joins(hr, h, 4, rot, n + 2)
  <2>1. 4 \in Nat /\ n + 2 \in Nat
    BY <1>8
  <2> QED
    BY <1>2, <1>5, <1>9, <1>10, <2>1, Joined, Zenon
<1>12. Len(hr) = n + 6
  BY <1>8, <1>11 DEF Joins
<1>13. Joins(CertBytes(c), hr, n + 6, t, 2)
  <2>1. n + 6 \in Nat /\ 2 \in Nat
    BY <1>8
  <2>2. Joins(hr \o t, hr, n + 6, t, 2)
    BY <1>2, <1>5, <1>11, <1>12, <2>1, Joined, Zenon
  <2> QED
    BY <1>7, <1>9, <1>11, <2>2, Zenon
<1>14. PICK e : e = CertBytes(c) /\ Joins(e, hr, n + 6, t, 2)
  BY <1>13
<1>15. Laid(e, h, c.rot.custodians, n, b, t)
  <2>1. Joins(rot, c.rot.custodians, n, b, 2) /\ Joins(hr, h, 4, rot, n + 2)
    BY <1>9, <1>11
  <2> QED
    BY <1>8, <1>14, <2>1, Places, Zenon
<1>16. e[1] = h[1] /\ e[2] = h[2] /\ e[3] = h[3] /\ e[4] = h[4]
  BY <1>15 DEF Laid
<1> QED
  BY <1>3, <1>8, <1>14, <1>15, <1>16, Zenon DEF Laid

\* The canonical bytes of a certificate are those of no other statement.
LEMMA NoLookalike ==
  ASSUME NEW c \in Cert, NEW s \in Statement, Bytes(s) = Bytes(c)
  PROVE  s = c
<1>1. PICK e : e = Bytes(c) /\ e = Bytes(s)
  OBVIOUS
<1>2. e = CertBytes(c)
  BY <1>1 DEF Bytes, Cert
<1>3. PICK n \in Nat :
        /\ n = Len(c.rot.custodians) /\ Len(e) = n + 8
        /\ e[1] = "pock-keycert-v1" /\ e[2] = c.userId
        /\ e[3] = c.kemPubkey /\ e[4] = c.signPubkey
        /\ \A k \in 1 .. n : e[4 + k] = c.rot.custodians[k]
        /\ e[n + 6] = c.rot.threshold /\ e[n + 7] = c.principalSeq /\ e[n + 8] = c.ts
  BY <1>2, CertTokens, Zenon
<1>4. CASE s.kind = "leaf"
  <2>1. e = <<"pock-keylog-v1", s.userId, s.kemPubkey, s.signPubkey, s.ts>>
    BY <1>1, <1>4 DEF Bytes, LeafBytes
  <2>2. e[1] = "pock-keylog-v1"
    BY <2>1
  <2> QED
    BY <1>3, <2>2
<1>5. CASE s.kind = "sth"
  <2>1. e = <<"pock-sth-v1", s.logId, s.size, s.root, s.ts>>
    BY <1>1, <1>5 DEF Bytes, SthMessage
  <2>2. e[1] = "pock-sth-v1"
    BY <2>1
  <2> QED
    BY <1>3, <2>2
<1>6. CASE s.kind = "cert"
  <2>1. s \in Cert /\ e = CertBytes(s)
    BY <1>1, <1>6 DEF Bytes, Cert
  <2>2. PICK m \in Nat :
          /\ m = Len(s.rot.custodians) /\ Len(e) = m + 8
          /\ e[1] = "pock-keycert-v1" /\ e[2] = s.userId
          /\ e[3] = s.kemPubkey /\ e[4] = s.signPubkey
          /\ \A k \in 1 .. m : e[4 + k] = s.rot.custodians[k]
          /\ e[m + 6] = s.rot.threshold /\ e[m + 7] = s.principalSeq /\ e[m + 8] = s.ts
    BY <2>1, CertTokens, Zenon
  <2>3. m = n
    <3>1. n + 8 = m + 8
      BY <1>3, <2>2, Zenon
    <3> QED
      BY <3>1
  <2>4. \A k \in 1 .. n : s.rot.custodians[k] = c.rot.custodians[k]
    BY <1>3, <2>2, <2>3
  <2>5. s.rot.custodians \in Seq(STRING) /\ c.rot.custodians \in Seq(STRING)
    BY <2>1, StatementAssumption DEF Cert
  <2>6. s.rot.custodians = c.rot.custodians
    BY <1>3, <2>2, <2>3, <2>4, <2>5, SeqEqual
  <2>7. /\ s.userId = c.userId /\ s.kemPubkey = c.kemPubkey /\ s.signPubkey = c.signPubkey
        /\ s.rot.threshold = c.rot.threshold
        /\ s.principalSeq = c.principalSeq /\ s.ts = c.ts
    BY <1>3, <2>2, <2>3
  <2> QED
    BY <2>1, <2>6, <2>7, StatementAssumption DEF Cert
<1> QED
  BY <1>4, <1>5, <1>6, StatementAssumption

\* What a verdict is about: the certificate and the signatures of its call.
VerdictShape(v) ==
  /\ v.cert \in Cert
  /\ v.pubs \in PubList
  /\ v.sigs \subseteq Signature
  /\ v.threshold \in 0 .. MaxPubs

ShapeInv == TypeInv /\ (verdict # None => VerdictShape(verdict))

LEMMA NextShape == ShapeInv /\ [Next]_vars => ShapeInv'
<1> SUFFICES ASSUME ShapeInv, [Next]_vars PROVE ShapeInv'
  OBVIOUS
<1>1. TypeInv'
  BY NextType DEF ShapeInv
<1>2. CASE UNCHANGED vars
  BY <1>1, <1>2 DEF ShapeInv, VerdictShape, vars, Signature
<1>3. ASSUME NEW c \in Custodian, NEW s \in Statement, Sign(c, s)
      PROVE  ShapeInv'
  <2>1. verdict' = verdict /\ Signature \subseteq Signature'
    BY <1>3, SignatureGrows DEF Sign
  <2> QED
    BY <1>1, <2>1 DEF ShapeInv, VerdictShape
<1>4. ASSUME NEW cert \in Cert, NEW pubs \in PubList, NEW threshold \in 0 .. MaxPubs,
             VerifyCert(cert, pubs, threshold)
      PROVE  ShapeInv'
  <2>1. Signature' = Signature
    BY <1>4 DEF VerifyCert, Return, Signature
  <2>2. \/ verdict' = verdict
        \/ /\ verdict'.cert = cert /\ verdict'.pubs = pubs
           /\ verdict'.sigs = Signature /\ verdict'.threshold = threshold
    BY <1>4 DEF VerifyCert, Return
  <2> QED
    BY <1>1, <2>1, <2>2 DEF ShapeInv, VerdictShape
<1>5. CASE CustodianStep
  BY <1>1, <1>5 DEF CustodianStep, ShapeInv, VerdictShape, Signature
<1>6. CASE Finish
  <2>1. CallOK(call) /\ Signature' = Signature
    BY <1>6 DEF Finish, Return, ShapeInv, TypeInv, Signature
  <2>2. /\ verdict'.cert = call.cert /\ verdict'.pubs = call.pubs
        /\ verdict'.sigs = call.sigs /\ verdict'.threshold = call.threshold
    BY <1>6 DEF Finish, Return
  <2>3. call.threshold \in 0 .. MaxPubs
    BY <2>1, KeyLogAssumption DEF CallOK
  <2> QED
    BY <1>1, <2>1, <2>2, <2>3 DEF ShapeInv, VerdictShape, CallOK
<1> QED
  BY <1>2, <1>3, <1>4, <1>5, <1>6 DEF Next

\* A valid signature is one over the very certificate, or by a small-order key.
LEMMA ValidMeansSigned ==
  ASSUME TypeInv, NEW v, VerdictShape(v), NEW key, Valid(key, v), key \notin Weak
  PROVE  <<key, v.cert>> \in signed
<1>1. PICK sig \in v.sigs : Verifies(key, Bytes(v.cert), sig)
  BY DEF Valid
<1>2. sig \in Signature /\ v.cert \in Cert
  BY DEF VerdictShape
<1>3. PICK a \in signed : sig = [by |-> a[1], bytes |-> Bytes(a[2])]
  BY <1>1, <1>2 DEF Signature, Verifies
<1>4. a[1] = key /\ Bytes(a[2]) = Bytes(v.cert)
  BY <1>1, <1>3 DEF Verifies
<1>5. a = <<a[1], a[2]>> /\ a[2] \in Statement
  BY DEF TypeInv
<1>6. a[2] = v.cert
  BY <1>2, <1>4, <1>5, NoLookalike
<1> QED
  BY <1>4, <1>5, <1>6

-----------------------------------------------------------------------------
(* Keys and their spellings.                                               *)

\* What is listed is finite.
LEMMA ListedFinite ==
  ASSUME NEW pubs \in PubList
  PROVE  IsFiniteSet(Listed(pubs))
<1>1. Len(pubs) \in Nat /\ DOMAIN pubs = 1 .. Len(pubs)
  BY PubListType
<1>2. IsFiniteSet(1 .. Len(pubs))
  BY <1>1, FS_Interval
<1> DEFINE keys == {pubs[k].key : k \in 1 .. Len(pubs)}
           f == [k \in 1 .. Len(pubs) |-> pubs[k].key]
<1>3. f \in Surjection(1 .. Len(pubs), keys)
  BY DEF Surjection
<1>4. IsFiniteSet(keys)
  BY <1>2, <1>3, FS_Surjection
<1>5. Listed(pubs) \subseteq keys
  BY <1>1 DEF Listed
<1> QED
  BY <1>4, <1>5, FS_Subset

\* A key that counts has a text that counts, and a text that counts is a key that
\* counts in one of the dialects.
LEMMA TextsAndKeys ==
  ASSUME NEW v, v.pubs \in PubList
  PROVE  /\ IsFiniteSet(ValidTexts(v)) /\ IsFiniteSet(ValidKeys(v))
         /\ Cardinality(ValidKeys(v)) <= Cardinality(ValidTexts(v))
         /\ IsFiniteSet(Dialect) =>
              Cardinality(ValidTexts(v)) <= Cardinality(ValidKeys(v)) * Cardinality(Dialect)
<1> DEFINE T == ValidTexts(v)
           K == ValidKeys(v)
<1>1. /\ Len(v.pubs) \in Nat /\ DOMAIN v.pubs = 1 .. Len(v.pubs)
      /\ \A k \in 1 .. Len(v.pubs) : v.pubs[k] \in PubText
  BY PubListType
<1>2. IsFiniteSet(T)
  <2> DEFINE texts == {v.pubs[k] : k \in 1 .. Len(v.pubs)}
             f == [k \in 1 .. Len(v.pubs) |-> v.pubs[k]]
  <2>1. f \in Surjection(1 .. Len(v.pubs), texts)
    BY DEF Surjection
  <2>2. IsFiniteSet(texts)
    BY <1>1, <2>1, FS_Interval, FS_Surjection
  <2>3. T \subseteq texts
    BY <1>1 DEF ValidTexts
  <2> QED
    BY <2>2, <2>3, FS_Subset
<1>3. K = {pub.key : pub \in T}
  BY DEF ValidTexts, ValidKeys, Listed
<1>4. \A pub \in T : pub \in [key : Custodian \cup Weak, dialect : Dialect]
  BY <1>1 DEF ValidTexts, PubText
<1> HIDE DEF T, K
<1>5. IsFiniteSet(K) /\ Cardinality(K) <= Cardinality(T)
  <2> DEFINE f == [pub \in T |-> pub.key]
  <2>1. f \in Surjection(T, K)
    BY <1>3 DEF Surjection
  <2> QED
    BY <1>2, <2>1, FS_Surjection
<1>6. ASSUME IsFiniteSet(Dialect)
      PROVE  Cardinality(T) <= Cardinality(K) * Cardinality(Dialect)
  <2> DEFINE f == [pub \in T |-> <<pub.key, pub.dialect>>]
  <2>1. f \in [T -> K \X Dialect]
    BY <1>3, <1>4
  <2>2. ASSUME NEW p \in T, NEW q \in T, f[p] = f[q]
        PROVE  p = q
    <3>1. p.key = q.key /\ p.dialect = q.dialect
      BY <2>2
    <3> QED
      BY <1>4, <3>1
  <2>3. f \in Injection(T, K \X Dialect)
    BY <2>1, <2>2 DEF Injection, IsInjective
  <2>4. /\ IsFiniteSet(K \X Dialect)
        /\ Cardinality(K \X Dialect) = Cardinality(K) * Cardinality(Dialect)
    BY <1>5, <1>6, FS_Product
  <2> QED
    BY <2>3, <2>4, FS_Injection
<1> QED
  BY <1>2, <1>5, <1>6 DEF T, K

\* The Root of Trust is written in one base64 dialect, so that a key has one
\* spelling.  (With two, CountsDistinctKeys does not hold.)
OneDialect == \E d : Dialect = {d}

\* The invariant of the verdict: what it says, and what it is about.
LEMMA VerdictInv == Spec => [](ShapeInv /\ CountsTexts)
<1>1. Init => ShapeInv
  BY InitType DEF Init, ShapeInv
<1> QED
  BY <1>1, NextShape, TextsCounted, PTL DEF Spec

\* No certificate that enough distinct custodians signed is refused, in whatever
\* dialects the Root of Trust is written: comparing texts counts a key too often,
\* never too seldom.
NeverRefusesEnough ==
  verdict # None /\ verdict.threshold >= 1
    /\ Cardinality(ValidKeys(verdict)) >= verdict.threshold => verdict.ok

\* The verdict of verify_cert on a certificate that enough keys signed is yes, for
\* any Root of Trust in any dialects, any signatures and any threshold.
THEOREM EnoughIsNeverRefused == Spec => []NeverRefusesEnough
<1>1. ShapeInv /\ CountsTexts => NeverRefusesEnough
  <2> SUFFICES ASSUME ShapeInv, CountsTexts, verdict # None, verdict.threshold >= 1,
                      Cardinality(ValidKeys(verdict)) >= verdict.threshold
               PROVE  verdict.ok
    BY DEF NeverRefusesEnough
  <2>1. verdict.pubs \in PubList /\ verdict.threshold \in Nat
    BY KeyLogAssumption DEF ShapeInv, VerdictShape
  <2>2. /\ Cardinality(ValidKeys(verdict)) <= Cardinality(ValidTexts(verdict))
        /\ Cardinality(ValidKeys(verdict)) \in Nat /\ Cardinality(ValidTexts(verdict)) \in Nat
    BY <2>1, TextsAndKeys, FS_CardinalityType
  <2>3. Cardinality(ValidTexts(verdict)) >= verdict.threshold
    BY <2>1, <2>2
  <2> QED
    BY <2>3 DEF CountsTexts
<1> QED
  BY <1>1, VerdictInv, PTL

\* The check counts distinct keys, for any number of custodians, any list of
\* them and any signatures, as long as a Root of Trust is written in one
\* base64 dialect.
THEOREM DistinctKeysCounted ==
  ASSUME OneDialect
  PROVE  Spec => []CountsDistinctKeys
<1>1. ShapeInv /\ CountsTexts => CountsDistinctKeys
  <2> SUFFICES ASSUME ShapeInv, CountsTexts, verdict # None
               PROVE  verdict.ok = /\ verdict.threshold >= 1
                                   /\ Cardinality(ValidKeys(verdict)) >= verdict.threshold
    BY DEF CountsDistinctKeys, ValidKeys
  <2>1. verdict.pubs \in PubList
    BY DEF ShapeInv, VerdictShape
  <2>2. IsFiniteSet(Dialect) /\ Cardinality(Dialect) = 1
    BY FS_Singleton DEF OneDialect
  <2>3. /\ Cardinality(ValidKeys(verdict)) <= Cardinality(ValidTexts(verdict))
        /\ Cardinality(ValidTexts(verdict)) <= Cardinality(ValidKeys(verdict)) * 1
        /\ Cardinality(ValidKeys(verdict)) \in Nat /\ Cardinality(ValidTexts(verdict)) \in Nat
    BY <2>1, <2>2, TextsAndKeys, FS_CardinalityType
  <2>4. Cardinality(ValidTexts(verdict)) = Cardinality(ValidKeys(verdict))
    BY <2>3
  <2> QED
    BY <2>4 DEF CountsTexts
<1> QED
  BY <1>1, VerdictInv, PTL

-----------------------------------------------------------------------------
(* What passed was signed.                                                 *)

\* The listed keys that vouch for a certificate: those of the custodians that
\* signed it, itself and no lookalike, and the small-order ones.
Vouch(v) == {c \in Listed(v.pubs) : c \in Weak \/ <<c, v.cert>> \in signed}

\* Who counts does vouch.
LEMMA CountedVouch ==
  ASSUME ShapeInv, verdict # None
  PROVE  /\ verdict.threshold \in Nat
         /\ Cardinality(ValidKeys(verdict)) \in Nat
         /\ Cardinality(Vouch(verdict)) \in Nat
         /\ Cardinality(ValidKeys(verdict)) <= Cardinality(Vouch(verdict))
<1>1. VerdictShape(verdict)
  BY DEF ShapeInv
<1>2. ValidKeys(verdict) \subseteq Vouch(verdict)
  BY <1>1, ValidMeansSigned DEF ShapeInv, ValidKeys, Vouch
<1>3. IsFiniteSet(Vouch(verdict))
  <2>1. IsFiniteSet(Listed(verdict.pubs))
    BY <1>1, ListedFinite DEF VerdictShape
  <2> QED
    BY <2>1, FS_Subset DEF Vouch
<1> QED
  BY <1>1, <1>2, <1>3, FS_Subset, FS_CardinalityType, KeyLogAssumption DEF VerdictShape

\* A certificate that passes was signed, itself and no lookalike, by as many
\* listed custodians as its Root of Trust asks for, small-order keys counted:
\* for any statements and signatures, as long as a Root of Trust is written in
\* one base64 dialect.
THEOREM WhatPassedWasSigned ==
  ASSUME OneDialect
  PROVE  Spec => []PassedMeansSigned
<1>1. ShapeInv /\ CountsDistinctKeys => PassedMeansSigned
  BY CountedVouch DEF PassedMeansSigned, CountsDistinctKeys, Vouch, ValidKeys
<1> QED
  BY <1>1, VerdictInv, DistinctKeysCounted, PTL

\* In several dialects a certificate that passes was signed by fewer, but never by
\* fewer than its threshold divided by the number of dialects.
PassedMeansSomeSigned ==
  verdict # None /\ verdict.ok =>
    Cardinality(Vouch(verdict)) * Cardinality(Dialect) >= verdict.threshold

\* How far comparing texts (keylog.rs:129-131) can be wrong: with the d dialects
\* that b64_any reads, k-of-n is at the least k/d-of-n, for any Root of Trust and
\* any signatures.
THEOREM OvercountIsBounded ==
  ASSUME IsFiniteSet(Dialect)
  PROVE  Spec => []PassedMeansSomeSigned
<1>1. ShapeInv /\ CountsTexts => PassedMeansSomeSigned
  <2> SUFFICES ASSUME ShapeInv, CountsTexts, verdict # None, verdict.ok
               PROVE  Cardinality(Vouch(verdict)) * Cardinality(Dialect)
                        >= verdict.threshold
    BY DEF PassedMeansSomeSigned
  <2> DEFINE texts == Cardinality(ValidTexts(verdict))
             keys  == Cardinality(ValidKeys(verdict))
             vouch == Cardinality(Vouch(verdict))
             d     == Cardinality(Dialect)
  <2>1. verdict.pubs \in PubList
    BY DEF ShapeInv, VerdictShape
  <2>2. texts \in Nat /\ texts <= keys * d
    BY <2>1, TextsAndKeys, FS_CardinalityType
  <2>3. /\ keys \in Nat /\ vouch \in Nat /\ keys <= vouch /\ d \in Nat
        /\ verdict.threshold \in Nat
    BY CountedVouch, FS_CardinalityType
  <2>4. texts >= verdict.threshold
    BY DEF CountsTexts
  <2> HIDE DEF texts, keys, vouch, d
  <2>5. keys * d <= vouch * d /\ keys * d \in Nat /\ vouch * d \in Nat
    <3>1. PICK n \in Nat : vouch = keys + n
      <4>1. vouch - keys \in Nat /\ vouch = keys + (vouch - keys)
        BY <2>3
      <4> QED
        BY <4>1
    <3>2. vouch * d = keys * d + n * d /\ n * d \in Nat /\ keys * d \in Nat
      BY <2>3, <3>1
    <3> QED
      BY <3>2
  <2> QED
    BY <2>2, <2>3, <2>4, <2>5 DEF texts, keys, vouch, d
<1> QED
  BY <1>1, VerdictInv, PTL
=============================================================================
