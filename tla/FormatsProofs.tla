---------------------------- MODULE FormatsProofs ----------------------------
(***************************************************************************)
(* Theorems about the two binary formats, Shares and Backups: for any      *)
(* bundles, passphrases, lengths, bytes and faults.                        *)
(***************************************************************************)
EXTENDS Shares, Backups, BlobsProofs

-----------------------------------------------------------------------------
(* Shares.                                                                 *)

\* The payload of an X-Wing envelope.
XwingPayload(ct, blob) == U16BigEndian(Len(ct)) \o ct \o blob

SymmetricShare(n, bundle, nonce) ==
  Made("xchacha", SealedBlob(nonce), SymmetricKey(n), SealedBlob(nonce), bundle)

XwingShare(n, bundle, nonce, ct) ==
  Made("xwing", XwingPayload(ct, SealedBlob(nonce)), KemKey(n, ct),
       SealedBlob(nonce), bundle)

ShareSet ==
  {SymmetricShare(n, bundle, nonce) :
     n \in Nat, bundle \in Bundle, nonce \in RandomBytes(NonceLen)}
    \cup {XwingShare(n, bundle, nonce, ct) :
            n \in Nat, bundle \in Bundle, nonce \in RandomBytes(NonceLen),
            ct \in RandomBytes(KemCtLen)}

KeyTexts == [cipher : Cipher \cup {"other"}, secret : Nat, len : Nat]

\* The inductive invariant: what is made is whole, every secret is its own,
\* what travels is some byte string with some key text, and the result, if
\* any, is the answer to these.
SharesInv ==
  /\ made \in Seq(ShareSet) /\ Len(made) <= MaxShares
  /\ \A n \in DOMAIN made : made[n].sealed.key.secret = n
  /\ wire # None => wire \in [envelope : Bytes, key : KeyTexts]
  /\ damage \in 0 .. MaxDamage
  /\ result # None =>
       wire # None /\ result = DecryptShare(wire.envelope, wire.key)

-----------------------------------------------------------------------------
(* The format.                                                             *)

\* What two bytes can state.
U16(n) == n < 65536

U16Value(a, b) == 256 * a + b

LEMMA Lengths ==
  /\ NonceLen \in Nat /\ DataLen \in Nat /\ TagLen \in Nat /\ KemCtLen \in Nat
  /\ KeyLen \in Nat \ {0} /\ KemCtLen # 0 /\ U16(KemCtLen)
  /\ Noise \subseteq 0 .. 255 /\ Byte \subseteq 0 .. 255
  BY SharesAssumption DEF U16

LEMMA FixedParts ==
  /\ Magic \in Bytes /\ Len(Magic) = 4
  /\ \A cipher : /\ <<Version, Tag(cipher)>> \in Bytes
                 /\ Len(<<Version, Tag(cipher)>>) = 2
                 /\ <<Version, Tag(cipher)>>[1] = Version
                 /\ <<Version, Tag(cipher)>>[2] = Tag(cipher)
                 /\ Tag(cipher) \in 0 .. 255
<1>1. Magic \in Bytes /\ Len(Magic) = 4
  BY DEF Magic, Bytes
<1>2. ASSUME NEW cipher
      PROVE  /\ <<Version, Tag(cipher)>> \in Bytes
             /\ Tag(cipher) \in 0 .. 255
  <2>1. PICK t \in 0 .. 255 : t = Tag(cipher)
    BY DEF Tag
  <2>2. <<2, t>> \in Seq(0 .. 255)
    OBVIOUS
  <2> QED
    BY <2>1, <2>2 DEF Bytes, Version
<1> QED
  BY <1>1, <1>2

\* Two bytes that are those of a string from some place on.
LEMMA TwoBytes ==
  ASSUME NEW s \in Bytes, NEW from \in Nat, from + 2 <= Len(s),
         NEW t \in Bytes, Len(t) = 2, t[1] = s[from + 1], t[2] = s[from + 2]
  PROVE  Slice(s, from, from + 2) = t
<1>1. PICK to \in Nat : to = from + 2 /\ from <= to /\ to <= Len(s)
  OBVIOUS
<1>2. PICK u \in Bytes : u = Slice(s, from, to) /\ Cuts(u, s, from, to)
  BY <1>1, TheSlice, Zenon
<1>3. Len(u) = 2 /\ u[1] = t[1] /\ u[2] = t[2]
  <2>1. to - from = 2 /\ 1 \in 1 .. 2 /\ 2 \in 1 .. 2
    BY <1>1
  <2> QED
    BY <1>2, <2>1 DEF Cuts
<1>4. \A k \in 1 .. 2 : u[k] = t[k]
  BY <1>3
<1>5. u = t
  BY <1>3, <1>4, SameBytes
<1> QED
  BY <1>1, <1>2, <1>5, Zenon

\* Reading back what encode_envelope wrote.
LEMMA FrameParts ==
  ASSUME NEW cipher \in Cipher, NEW payload \in Bytes,
         NEW e, e = Frame(cipher, payload)
  PROVE  /\ e \in Bytes /\ Len(e) = 6 + Len(payload) /\ Unframes(e)
         /\ e[6] = Tag(cipher) /\ Slice(e, 6, Len(e)) = payload
<1>1. PICK magic \in Bytes : magic = Magic /\ Len(magic) = 4
  BY FixedParts
<1>2. PICK mark \in Bytes : /\ mark = <<Version, Tag(cipher)>> /\ Len(mark) = 2
                            /\ mark[1] = Version /\ mark[2] = Tag(cipher)
  BY FixedParts
<1>3. PICK n \in Nat, k \in Nat : n = Len(payload) /\ k = 6 + n
  BY LenProperties DEF Bytes
<1>4. PICK head \in Bytes :
        /\ head = magic \o mark /\ Len(head) = 6
        /\ head[5] = Version /\ head[6] = Tag(cipher)
  <2>1. PICK head \in Bytes : head = magic \o mark
    BY JoinBytes, Zenon
  <2>2. /\ Len(head) = Len(magic) + Len(mark)
        /\ \A i \in 1 .. Len(magic) + Len(mark) :
             head[i] = IF i <= Len(magic) THEN magic[i] ELSE mark[i - Len(magic)]
    BY <2>1, JoinBytes, Zenon
  <2>3. Len(head) = 6 /\ head[5] = mark[1] /\ head[6] = mark[2]
    BY <1>1, <1>2, <2>2
  <2> QED
    BY <1>2, <2>1, <2>3, Zenon
<1>5. e = head \o payload
  BY <1>1, <1>2, <1>4, Zenon DEF Frame
<1>6. e = magic \o (mark \o payload)
  <2>1. (magic \o mark) \o payload = magic \o (mark \o payload)
    BY JoinAssociative, Zenon
  <2> QED
    BY <1>4, <1>5, <2>1, Zenon
<1>7. Parts(e, magic, 4, mark, 6, payload, k)
  <2>1. 4 \in Nat /\ 6 \in Nat /\ 4 = Len(magic) /\ 6 = 4 + Len(mark) /\ k = 6 + Len(payload)
    BY <1>1, <1>2, <1>3
  <2>2. Parts(magic \o (mark \o payload), magic, 4, mark, 6, payload, k)
    BY <2>1, ThreeParts, Zenon
  <2> QED
    BY <1>6, <2>2, Zenon
<1>8. e \in Bytes /\ Len(e) = k /\ Slice(e, 0, 4) = magic /\ Slice(e, 6, k) = payload
  BY <1>7, Zenon DEF Parts
<1>9. e[5] = Version /\ e[6] = Tag(cipher)
  <2>1. e[5] = head[5] /\ e[6] = head[6]
    <3>1. \A i \in 1 .. Len(head) + Len(payload) :
            (head \o payload)[i]
              = IF i <= Len(head) THEN head[i] ELSE payload[i - Len(head)]
      BY JoinBytes
    <3> QED
      BY <1>3, <1>4, <1>5, <3>1
  <2> QED
    BY <1>4, <2>1, Zenon
<1>10. Unframes(e)
  <2>1. Len(e) >= 6
    BY <1>3, <1>8
  <2> QED
    BY <1>1, <1>8, <1>9, <2>1, Zenon DEF Unframes
<1> QED
  BY <1>3, <1>8, <1>9, <1>10, Zenon

\* What decode_envelope accepts is what encode_envelope wrote.
LEMMA FrameWhole ==
  ASSUME NEW e \in Bytes, Unframes(e), NEW cipher \in Cipher, e[6] = Tag(cipher)
  PROVE  /\ Slice(e, 6, Len(e)) \in Bytes
         /\ e = Frame(cipher, Slice(e, 6, Len(e)))
<1>1. PICK k \in Nat : k = Len(e) /\ 6 <= k /\ k <= Len(e) /\ 6 <= Len(e)
  <2>1. Len(e) \in Nat
    BY LenProperties DEF Bytes
  <2> QED
    BY <2>1 DEF Unframes
<1>2. PICK magic \in Bytes : magic = Magic
  BY FixedParts
<1>3. PICK mark \in Bytes : /\ mark = <<Version, Tag(cipher)>> /\ Len(mark) = 2
                            /\ mark[1] = Version /\ mark[2] = Tag(cipher)
  BY FixedParts
<1>4. PICK payload \in Bytes : payload = Slice(e, 6, k)
  <2>1. 6 \in Nat
    OBVIOUS
  <2> QED
    BY <1>1, <2>1, TheSlice, Zenon
<1>5. Slice(e, 4, 6) = mark
  <2>1. mark[1] = e[5] /\ mark[2] = e[6]
    BY <1>3, Zenon DEF Unframes
  <2>2. 4 + 2 = 6 /\ 4 + 1 = 5 /\ 4 \in Nat
    OBVIOUS
  <2> QED
    BY <1>1, <1>3, <2>1, <2>2, TwoBytes
<1>6. e = magic \o (mark \o payload)
  <2>1. 4 \in Nat /\ 6 \in Nat /\ 4 <= 6
    OBVIOUS
  <2>2. e = Slice(e, 0, 4) \o (Slice(e, 4, 6) \o Slice(e, 6, Len(e)))
    BY <1>1, <2>1, ThreeSlices, Zenon
  <2>3. Slice(e, 0, 4) = magic
    BY <1>2, Zenon DEF Unframes
  <2> QED
    BY <1>1, <1>4, <1>5, <2>2, <2>3, Zenon
<1>7. (magic \o mark) \o payload = magic \o (mark \o payload)
  BY JoinAssociative, Zenon
<1>8. Frame(cipher, payload) = (magic \o mark) \o payload
  BY <1>2, <1>3, Zenon DEF Frame
<1> QED
  BY <1>1, <1>4, <1>6, <1>7, <1>8, Zenon

LEMMA U16Bytes ==
  ASSUME NEW n \in Nat, U16(n)
  PROVE  \E a \in 0 .. 255, b \in 0 .. 255 :
           U16BigEndian(n) = <<a, b>> /\ U16Value(a, b) = n
<1>1. n \div 256 \in 0 .. 255 /\ n % 256 \in 0 .. 255
  BY SMT DEF U16
<1>2. 256 * (n \div 256) + (n % 256) = n
  BY SMT
<1>3. PICK a \in 0 .. 255, b \in 0 .. 255 : a = n \div 256 /\ b = n % 256
  BY <1>1
<1>4. U16BigEndian(n) = <<a, b>>
  BY <1>3, SMT DEF U16BigEndian
<1>5. U16Value(a, b) = n
  BY <1>2, <1>3, SMT DEF U16Value
<1> QED
  BY <1>4, <1>5

\* The bytes of a length are the only ones that read as it.
LEMMA U16Unique ==
  ASSUME NEW a \in 0 .. 255, NEW b \in 0 .. 255
  PROVE  U16BigEndian(U16Value(a, b)) = <<a, b>>
<1>1. PICK n \in Nat : n = 256 * a + b
  OBVIOUS
<1>2. n \div 256 = a /\ n % 256 = b
  BY <1>1
<1>3. U16Value(a, b) = n
  BY <1>1 DEF U16Value
<1> QED
  BY <1>2, <1>3, SMT DEF U16BigEndian

LEMMA PairOfBytes ==
  ASSUME NEW a \in 0 .. 255, NEW b \in 0 .. 255
  PROVE  \E len \in Bytes : len = <<a, b>> /\ Len(len) = 2 /\ len[1] = a /\ len[2] = b
<1>1. <<a, b>> \in Seq(0 .. 255)
  OBVIOUS
<1> QED
  BY <1>1 DEF Bytes

\* Where the KEM ciphertext of a payload ends.
KemEnd(p) == 2 + U16Value(p[1], p[2])

LEMMA KemPartIs ==
  ASSUME NEW p \in Bytes, Len(p) >= 2
  PROVE  /\ KemEnd(p) \in Nat /\ p[1] \in 0 .. 255 /\ p[2] \in 0 .. 255
         /\ U16Value(p[1], p[2]) \in Nat
         /\ KemPart(p).ct = Slice(p, 2, KemEnd(p))
         /\ KemPart(p).blob = Slice(p, KemEnd(p), Len(p))
         /\ KemPart(p).ok <=> KemEnd(p) <= Len(p)
<1>1. Len(p) \in Nat
  BY LenProperties DEF Bytes
<1>2. 1 \in 1 .. Len(p) /\ 2 \in 1 .. Len(p)
  BY <1>1
<1>3. p[1] \in 0 .. 255 /\ p[2] \in 0 .. 255
  BY <1>2, ElementOfSeq DEF Bytes
<1>4. KemEnd(p) = 2 + 256 * p[1] + p[2] /\ U16Value(p[1], p[2]) \in Nat /\ KemEnd(p) \in Nat
  <2>1. PICK a \in 0 .. 255, b \in 0 .. 255 : a = p[1] /\ b = p[2]
    BY <1>3
  <2>2. 2 + (256 * a + b) = 2 + 256 * a + b /\ 256 * a + b \in Nat /\ 2 + (256 * a + b) \in Nat
    OBVIOUS
  <2>3. U16Value(p[1], p[2]) = 256 * a + b
    BY <2>1, SMT DEF U16Value
  <2>4. KemEnd(p) = 2 + (256 * a + b)
    BY <2>3, SMT DEF KemEnd
  <2> QED
    BY <2>1, <2>2, <2>3, <2>4, SMT
<1>5. PICK end : end = KemEnd(p)
  OBVIOUS
<1>6. PICK fits : fits = (end <= Len(p))
  OBVIOUS
<1>7. KemPart(p) = [ct |-> Slice(p, 2, end), blob |-> Slice(p, end, Len(p)), ok |-> fits]
  BY <1>4, <1>5, <1>6, Zenon DEF KemPart
<1>8. /\ KemPart(p).ct = Slice(p, 2, end) /\ KemPart(p).blob = Slice(p, end, Len(p))
      /\ KemPart(p).ok = fits
  BY <1>7, SMT
<1> QED
  BY <1>3, <1>4, <1>5, <1>6, <1>8, Zenon

\* Reading back the KEM part that was written.
LEMMA KemParts ==
  ASSUME NEW ct \in Bytes, NEW n \in Nat, Len(ct) = n, U16(n), NEW blob \in Bytes,
         NEW p, p = XwingPayload(ct, blob)
  PROVE  /\ p \in Bytes /\ Len(p) = 2 + (n + Len(blob))
         /\ KemPart(p).ok /\ KemPart(p).ct = ct /\ KemPart(p).blob = blob
<1>1. PICK a \in 0 .. 255, b \in 0 .. 255 :
        U16BigEndian(n) = <<a, b>> /\ U16Value(a, b) = n
  BY U16Bytes, Zenon
<1>2. PICK len \in Bytes : len = <<a, b>> /\ Len(len) = 2 /\ len[1] = a /\ len[2] = b
  BY PairOfBytes
<1>3. PICK m \in Nat, i \in Nat, k \in Nat :
        m = Len(blob) /\ i = 2 + n /\ k = i + m /\ k = 2 + (n + m) /\ i <= k /\ 2 <= k
  <2>1. Len(blob) \in Nat
    BY LenProperties DEF Bytes
  <2> QED
    BY <2>1
<1>4. p = len \o (ct \o blob)
  <2>1. (len \o ct) \o blob = len \o (ct \o blob)
    BY JoinAssociative, Zenon
  <2>2. p = (len \o ct) \o blob
    BY <1>1, <1>2, Zenon DEF XwingPayload
  <2> QED
    BY <2>1, <2>2, Zenon
<1>5. Parts(p, len, 2, ct, i, blob, k)
  <2>1. 2 \in Nat /\ 2 = Len(len) /\ i = 2 + Len(ct) /\ k = i + Len(blob)
    BY <1>2, <1>3, Zenon
  <2>2. Parts(len \o (ct \o blob), len, 2, ct, i, blob, k)
    BY <2>1, ThreeParts, Zenon
  <2> QED
    BY <1>4, <2>2, Zenon
<1>6. p \in Bytes /\ Len(p) = k /\ Slice(p, 2, i) = ct /\ Slice(p, i, k) = blob
  BY <1>5, Zenon DEF Parts
<1>7. KemEnd(p) = i
  <2>1. PICK rest \in Bytes : rest = ct \o blob
    BY JoinBytes, Zenon
  <2>2. Len(rest) \in Nat
    BY LenProperties DEF Bytes
  <2>3. \A x \in 1 .. Len(len) + Len(rest) :
          (len \o rest)[x] = IF x <= Len(len) THEN len[x] ELSE rest[x - Len(len)]
    BY JoinBytes
  <2>4. p[1] = a /\ p[2] = b
    BY <1>2, <1>4, <2>1, <2>2, <2>3
  <2> QED
    BY <1>1, <1>3, <2>4, Zenon DEF KemEnd
<1> QED
  BY <1>3, <1>6, <1>7, KemPartIs

\* What the KEM part of any payload is, and that the payload is what was
\* written for it.
LEMMA KemWhole ==
  ASSUME NEW p \in Bytes, Len(p) >= 2, KemPart(p).ok
  PROVE  /\ ~(Panic \in {KemPart(p).ct, KemPart(p).blob})
         /\ KemPart(p).ct \in Bytes /\ KemPart(p).blob \in Bytes
         /\ p = XwingPayload(KemPart(p).ct, KemPart(p).blob)
<1>1. PICK k \in Nat : k = Len(p) /\ 2 <= k
  BY LenProperties DEF Bytes
<1>2. PICK a \in 0 .. 255, b \in 0 .. 255 : a = p[1] /\ b = p[2]
  BY KemPartIs
<1>3. PICK n \in Nat, i \in Nat :
        n = U16Value(a, b) /\ i = 2 + n /\ 2 <= i /\ i = KemEnd(p)
  BY <1>2, KemPartIs DEF KemEnd
<1>4. /\ KemPart(p).ct = Slice(p, 2, i) /\ KemPart(p).blob = Slice(p, i, k)
      /\ i <= k /\ i <= Len(p) /\ k <= Len(p)
  BY <1>1, <1>3, KemPartIs
<1>5. PICK ct \in Bytes : ct = Slice(p, 2, i) /\ ct # Panic /\ Cuts(ct, p, 2, i)
  <2>1. 2 \in Nat
    OBVIOUS
  <2> QED
    BY <1>3, <1>4, <2>1, SliceBytes, Zenon
<1>6. PICK blob \in Bytes : blob = Slice(p, i, k) /\ blob # Panic
  BY <1>4, SliceBytes, Zenon
<1>7. Len(ct) = n
  BY <1>3, <1>5 DEF Cuts
<1>8. PICK len \in Bytes : len = <<a, b>> /\ Len(len) = 2 /\ len[1] = a /\ len[2] = b
  BY PairOfBytes
<1>9. len = U16BigEndian(n)
  BY <1>3, <1>8, U16Unique, Zenon
<1>10. Slice(p, 0, 2) = len
  <2>1. PICK z \in Nat : z = 0 /\ z + 2 = 2 /\ z + 1 = 1 /\ z + 2 <= Len(p)
    BY <1>1
  <2>2. len[1] = p[z + 1] /\ len[2] = p[z + 2]
    BY <1>2, <1>8, <2>1, Zenon
  <2>3. Slice(p, z, z + 2) = len
    BY <1>8, <2>1, <2>2, TwoBytes, Zenon
  <2> QED
    BY <2>1, <2>3, Zenon
<1>11. p = len \o (ct \o blob)
  <2>1. 2 \in Nat
    OBVIOUS
  <2>2. p = Slice(p, 0, 2) \o (Slice(p, 2, i) \o Slice(p, i, Len(p)))
    BY <1>3, <1>4, <2>1, ThreeSlices, Zenon
  <2> QED
    BY <1>1, <1>5, <1>6, <1>10, <2>2, Zenon
<1>12. p = XwingPayload(ct, blob)
  <2>1. (len \o ct) \o blob = len \o (ct \o blob)
    BY JoinAssociative, Zenon
  <2> QED
    BY <1>7, <1>9, <1>11, <2>1, Zenon DEF XwingPayload
<1> QED
  BY <1>4, <1>5, <1>6, <1>12

-----------------------------------------------------------------------------
(* What is made.                                                           *)

Fields(share, cipher, payload, key, blob, bundle) ==
  /\ share.envelope = Frame(cipher, payload) /\ share.key = KeyBlob(cipher, key.secret)
  /\ share.sealed.key = key /\ share.sealed.blob = blob /\ share.sealed.data = bundle

\* The n-th share has the form of one of the two ciphers.
IsXchacha(share, n, bundle, nonce) ==
  Fields(share, "xchacha", SealedBlob(nonce), SymmetricKey(n), SealedBlob(nonce), bundle)

IsXwing(share, n, bundle, nonce, ct) ==
  Fields(share, "xwing", XwingPayload(ct, SealedBlob(nonce)), KemKey(n, ct),
         SealedBlob(nonce), bundle)

IsShare(share, n) ==
  \E bundle \in Bundle, nonce \in RandomBytes(NonceLen) :
    \/ IsXchacha(share, n, bundle, nonce)
    \/ \E ct \in RandomBytes(KemCtLen) : IsXwing(share, n, bundle, nonce, ct)

SharesMade == made \in Seq(ShareSet) /\ \A n \in DOMAIN made : made[n].sealed.key.secret = n

LEMMA MadeFields ==
  ASSUME NEW cipher, NEW payload, NEW key, NEW blob, NEW bundle
  PROVE  Fields(Made(cipher, payload, key, blob, bundle), cipher, payload, key, blob, bundle)
  BY DEF Made, Fields

LEMMA MadeIsShare ==
  ASSUME SharesMade, NEW n \in DOMAIN made
  PROVE  IsShare(made[n], n)
<1>1. made[n] \in ShareSet /\ made[n].sealed.key.secret = n
  <2>1. n \in 1 .. Len(made)
    BY LenProperties DEF SharesMade
  <2> QED
    BY <2>1, ElementOfSeq DEF SharesMade
<1>2. CASE \E m \in Nat, bundle \in Bundle, nonce \in RandomBytes(NonceLen) :
             made[n] = SymmetricShare(m, bundle, nonce)
  <2>1. PICK m \in Nat, bundle \in Bundle, nonce \in RandomBytes(NonceLen) :
          made[n] = SymmetricShare(m, bundle, nonce)
    BY <1>2
  <2>2. IsXchacha(made[n], m, bundle, nonce)
    BY <2>1, MadeFields, Zenon DEF SymmetricShare, IsXchacha
  <2>3. m = n
    BY <1>1, <2>2 DEF IsXchacha, Fields, SymmetricKey
  <2> QED
    BY <2>2, <2>3, Zenon DEF IsShare
<1>3. CASE \E m \in Nat, bundle \in Bundle, nonce \in RandomBytes(NonceLen),
             ct \in RandomBytes(KemCtLen) : made[n] = XwingShare(m, bundle, nonce, ct)
  <2>1. PICK m \in Nat, bundle \in Bundle, nonce \in RandomBytes(NonceLen),
             ct \in RandomBytes(KemCtLen) : made[n] = XwingShare(m, bundle, nonce, ct)
    BY <1>3
  <2>2. IsXwing(made[n], m, bundle, nonce, ct)
    BY <2>1, MadeFields, Zenon DEF XwingShare, IsXwing
  <2>3. m = n
    BY <1>1, <2>2 DEF IsXwing, Fields, KemKey
  <2> QED
    BY <2>2, <2>3, Zenon DEF IsShare
<1> QED
  BY <1>1, <1>2, <1>3 DEF ShareSet

\* The bytes of the n-th share.
LEMMA MadeBytes ==
  ASSUME SharesMade, NEW n \in DOMAIN made
  PROVE  /\ made[n].envelope \in Bytes /\ made[n].key \in KeyTexts
         /\ made[n].key.cipher \in Cipher /\ made[n].sealed.data \in Bundle
         /\ Len(made[n].envelope) = 6 + PayloadLen(made[n].key.cipher)
<1>1. PICK bundle \in Bundle, nonce \in RandomBytes(NonceLen) :
        \/ IsXchacha(made[n], n, bundle, nonce)
        \/ \E ct \in RandomBytes(KemCtLen) : IsXwing(made[n], n, bundle, nonce, ct)
  BY MadeIsShare, Zenon DEF IsShare
<1>2. PICK blob \in Bytes, m \in Nat :
        blob = SealedBlob(nonce) /\ Len(blob) = m /\ m = NonceLen + (DataLen + TagLen)
  BY BlobIsBytes, Lengths
<1>3. n \in Nat
  <2>1. n \in 1 .. Len(made) /\ Len(made) \in Nat
    BY LenProperties DEF SharesMade
  <2> QED
    BY <2>1
<1>4. ASSUME NEW cipher \in Cipher, NEW payload \in Bytes, NEW len \in Nat, NEW key,
             Len(payload) = len, len = PayloadLen(cipher), key.secret = n,
             Fields(made[n], cipher, payload, key, blob, bundle)
      PROVE  /\ made[n].envelope \in Bytes /\ made[n].key \in KeyTexts
             /\ made[n].key.cipher \in Cipher /\ made[n].sealed.data \in Bundle
             /\ Len(made[n].envelope) = 6 + PayloadLen(made[n].key.cipher)
  <2>1. PICK e : e = Frame(cipher, payload) /\ e \in Bytes /\ Len(e) = 6 + Len(payload)
    BY FrameParts
  <2>2. made[n].envelope = e /\ made[n].key = KeyBlob(cipher, n) /\ made[n].sealed.data = bundle
    BY <1>4, <2>1, Zenon DEF Fields
  <2>3. made[n].key \in KeyTexts /\ made[n].key.cipher = cipher
    BY <1>3, <2>2, Lengths DEF KeyBlob, KeyTexts
  <2> QED
    BY <1>4, <2>1, <2>2, <2>3, Zenon
<1>5. CASE IsXchacha(made[n], n, bundle, nonce)
  <2>1. SymmetricKey(n).secret = n /\ m = PayloadLen("xchacha") /\ "xchacha" \in Cipher
    BY <1>2, Lengths DEF SymmetricKey, PayloadLen, Cipher
  <2>2. Fields(made[n], "xchacha", blob, SymmetricKey(n), blob, bundle)
    BY <1>2, <1>5, Zenon DEF IsXchacha
  <2> QED
    BY <1>2, <1>4, <2>1, <2>2, Zenon
<1>6. CASE \E ct \in RandomBytes(KemCtLen) : IsXwing(made[n], n, bundle, nonce, ct)
  <2>1. PICK ct \in RandomBytes(KemCtLen) : IsXwing(made[n], n, bundle, nonce, ct)
    BY <1>6
  <2>2. ct \in Bytes /\ Len(ct) = KemCtLen
    BY RandomIsBytes, Lengths
  <2>3. PICK p \in Bytes : p = XwingPayload(ct, blob) /\ Len(p) = 2 + (KemCtLen + Len(blob))
    <3>1. PICK p : p = XwingPayload(ct, blob)
      OBVIOUS
    <3>2. KemCtLen \in Nat /\ U16(KemCtLen)
      BY Lengths
    <3> QED
      BY <2>2, <3>1, <3>2, KemParts
  <2>4. PICK len \in Nat : len = 2 + (KemCtLen + m) /\ len = PayloadLen("xwing") /\ Len(p) = len
    BY <1>2, <2>3, Lengths DEF PayloadLen
  <2>5. KemKey(n, ct).secret = n /\ "xwing" \in Cipher
    BY DEF KemKey, Cipher
  <2>6. Fields(made[n], "xwing", p, KemKey(n, ct), blob, bundle)
    BY <1>2, <2>1, <2>3, Zenon DEF IsXwing
  <2> QED
    BY <1>4, <2>4, <2>5, <2>6, Zenon
<1> QED
  BY <1>1, <1>5, <1>6

-----------------------------------------------------------------------------
(* The invariant.                                                          *)

LEMMA SharesInit == Init => SharesInv
<1>1. <<>> \in Seq(ShareSet) /\ Len(<<>>) = 0 /\ DOMAIN <<>> = {}
  BY EmptySeq
<1> QED
  BY <1>1, SharesAssumption DEF Init, SharesInv

LEMMA EncryptKeeps ==
  ASSUME SharesInv, NEW bundle \in Bundle, NEW cipher \in Cipher,
         EncryptShare(bundle, cipher)
  PROVE  SharesInv'
<1>1. PICK n : n = Len(made) + 1 /\ n \in Nat /\ Len(made) \in Nat
  BY LenProperties DEF SharesInv
<1>2. PICK share \in ShareSet : made' = Append(made, share) /\ share.sealed.key.secret = n
  <2>1. PICK nonce \in RandomBytes(NonceLen), ct \in RandomBytes(KemCtLen) :
          made' = Append(made, IF cipher = "xchacha" THEN SymmetricShare(n, bundle, nonce)
                                                     ELSE XwingShare(n, bundle, nonce, ct))
    <3>1. PICK nonce \in RandomBytes(NonceLen), ct \in RandomBytes(KemCtLen) :
            made' = Append(made,
              IF cipher = "xchacha"
                THEN Made(cipher, SealedBlob(nonce), SymmetricKey(n), SealedBlob(nonce), bundle)
                ELSE Made(cipher, U16BigEndian(Len(ct)) \o ct \o SealedBlob(nonce),
                          KemKey(n, ct), SealedBlob(nonce), bundle))
      BY <1>1, Zenon DEF EncryptShare
    <3>2. CASE cipher = "xchacha"
      BY <3>1, <3>2, Zenon DEF SymmetricShare
    <3>3. CASE cipher = "xwing"
      <4>1. cipher # "xchacha"
        BY <3>3
      <4> QED
        BY <3>1, <3>3, <4>1, Zenon DEF XwingShare, XwingPayload
    <3> QED
      BY <3>2, <3>3 DEF Cipher
  <2>2. SymmetricShare(n, bundle, nonce) \in ShareSet /\ XwingShare(n, bundle, nonce, ct) \in ShareSet
    BY <1>1 DEF ShareSet
  <2>3. /\ SymmetricShare(n, bundle, nonce).sealed.key.secret = n
        /\ XwingShare(n, bundle, nonce, ct).sealed.key.secret = n
    BY DEF SymmetricShare, XwingShare, Made, SymmetricKey, KemKey
  <2> QED
    BY <2>1, <2>2, <2>3, Zenon
<1>3. /\ made' \in Seq(ShareSet) /\ Len(made') = n
      /\ \A k \in 1 .. Len(made) : made'[k] = made[k]
      /\ made'[n] = share
  BY <1>1, <1>2, AppendProperties DEF SharesInv
<1>4. \A k \in DOMAIN made' : made'[k].sealed.key.secret = k
  <2> TAKE k \in DOMAIN made'
  <2>1. k \in 1 .. n
    BY <1>3, LenProperties
  <2>2. CASE k = n
    BY <1>2, <1>3, <2>2
  <2>3. CASE k # n
    <3>1. k \in 1 .. Len(made) /\ k \in DOMAIN made
      BY <1>1, <2>1, <2>3, LenProperties DEF SharesInv
    <3> QED
      BY <1>3, <3>1 DEF SharesInv
  <2> QED
    BY <2>2, <2>3
<1>5. Len(made') <= MaxShares
  BY <1>1, <1>3, SharesAssumption DEF EncryptShare
<1>6. wire' = None /\ wire = None /\ UNCHANGED <<damage, result>>
  BY DEF EncryptShare
<1> QED
  BY <1>3, <1>4, <1>5, <1>6 DEF SharesInv

LEMMA DeliverKeeps ==
  ASSUME SharesInv, NEW i \in DOMAIN made, NEW j \in DOMAIN made, Deliver(i, j)
  PROVE  SharesInv'
<1>1. made[i].envelope \in Bytes /\ made[j].key \in KeyTexts
  BY MadeBytes DEF SharesInv, SharesMade
<1>2. wire' \in [envelope : Bytes, key : KeyTexts]
  BY <1>1 DEF Deliver
<1>3. result' = None /\ UNCHANGED <<made, damage>>
  BY DEF Deliver, SharesInv
<1> QED
  BY <1>2, <1>3 DEF SharesInv

LEMMA DamageKeeps ==
  ASSUME SharesInv, Damage
  PROVE  SharesInv'
<1>1. wire \in [envelope : Bytes, key : KeyTexts] /\ result' = None /\ UNCHANGED made
  BY DEF Damage, SharesInv
<1>2. damage' \in 0 .. MaxDamage
  BY SharesAssumption DEF Damage, SharesInv
<1>3. {made[n].envelope : n \in DOMAIN made} \in SUBSET Bytes
  BY MadeBytes DEF SharesInv, SharesMade
<1>4. Damaged(wire.envelope, {made[n].envelope : n \in DOMAIN made}) \subseteq Bytes
  <2>1. PICK s \in Bytes, others \in SUBSET Bytes :
          s = wire.envelope /\ others = {made[n].envelope : n \in DOMAIN made}
    BY <1>1, <1>3
  <2>2. Damaged(s, others) \subseteq Bytes
    BY DamagedBytes, Lengths
  <2> QED
    BY <2>1, <2>2, Zenon
<1>5. DamagedKey(wire.key) \subseteq KeyTexts
  BY <1>1, Lengths DEF DamagedKey, KeyTexts
<1>6. wire' \in [envelope : Bytes, key : KeyTexts]
  <2>1. PICK envelopes \in SUBSET Bytes, keys \in SUBSET KeyTexts :
          wire' \in {[wire EXCEPT !.envelope = e] : e \in envelopes}
                      \cup {[wire EXCEPT !.key = k] : k \in keys}
    BY <1>4, <1>5 DEF Damage
  <2> QED
    BY <1>1, <2>1
<1> QED
  BY <1>1, <1>2, <1>6 DEF SharesInv

LEMMA SharesNext == SharesInv /\ [Next]_vars => SharesInv'
<1> SUFFICES ASSUME SharesInv, [Next]_vars PROVE SharesInv'
  OBVIOUS
<1>1. ASSUME NEW bundle \in Bundle, NEW cipher \in Cipher, EncryptShare(bundle, cipher)
      PROVE  SharesInv'
  BY <1>1, EncryptKeeps
<1>2. ASSUME NEW i \in DOMAIN made, NEW j \in DOMAIN made, Deliver(i, j)
      PROVE  SharesInv'
  BY <1>2, DeliverKeeps
<1>3. CASE Damage
  BY <1>3, DamageKeeps
<1>4. CASE Decrypt
  <2>1. /\ wire # None /\ UNCHANGED <<made, wire, damage>>
        /\ result' = DecryptShare(wire.envelope, wire.key)
    BY <1>4 DEF Decrypt
  <2>2. DecryptShare(wire.envelope, wire.key)' = DecryptShare(wire.envelope, wire.key)
    BY <2>1 DEF DecryptShare, OpenXwing, OpenXchacha, Sealed
  <2> QED
    BY <2>1, <2>2 DEF SharesInv
<1>5. CASE UNCHANGED vars
  <2>1. DecryptShare(wire.envelope, wire.key)' = DecryptShare(wire.envelope, wire.key)
    BY <1>5 DEF vars, DecryptShare, OpenXwing, OpenXchacha, Sealed
  <2> QED
    BY <1>5, <2>1 DEF vars, SharesInv
<1> QED
  BY <1>1, <1>2, <1>3, <1>4, <1>5 DEF Next

LEMMA SharesAlways == Spec => []SharesInv
  BY SharesInit, SharesNext, PTL DEF Spec

-----------------------------------------------------------------------------
(* The answer.                                                             *)

Payload(e) == Slice(e, 6, Len(e))

\* An envelope that gets as far as the AEAD, with either cipher.
AsXchacha(e, key) ==
  /\ Unframes(e) /\ key.cipher = "xchacha" /\ e[6] = Tag("xchacha") /\ key.len = KeyLen

AsXwing(e, key) ==
  /\ Unframes(e) /\ key.cipher = "xwing" /\ e[6] = Tag("xwing") /\ key.len = KeyLen
  /\ Len(Payload(e)) >= 2 /\ KemPart(Payload(e)).ok
  /\ Len(KemPart(Payload(e)).ct) = KemCtLen

OpenedXchacha(e, key) == OpenBlob(SymmetricKey(key.secret), Payload(e), Sealed)

OpenedXwing(e, key) ==
  OpenBlob(KemKey(key.secret, KemPart(Payload(e)).ct), KemPart(Payload(e)).blob, Sealed)

\* What decrypt_share comes down to, for any envelope and any key.
LEMMA Decrypted ==
  ASSUME NEW e \in Bytes, NEW key \in KeyTexts
  PROVE  \/ DecryptShare(e, key) = Err("decode")
         \/ AsXchacha(e, key)
         \/ AsXwing(e, key)
<1> SUFFICES ASSUME DecryptShare(e, key) # Err("decode")
             PROVE  AsXchacha(e, key) \/ AsXwing(e, key)
  OBVIOUS
<1>1. Unframes(e) /\ key.cipher \in Cipher /\ e[6] = Tag(key.cipher)
  BY Zenon DEF DecryptShare
<1>2. CASE key.cipher = "xchacha"
  <2>1. DecryptShare(e, key) = OpenXchacha(Payload(e), key)
    BY <1>1, <1>2, Zenon DEF DecryptShare, Payload
  <2> QED
    BY <1>1, <1>2, <2>1, Zenon DEF OpenXchacha, AsXchacha
<1>3. CASE key.cipher = "xwing"
  <2>1. DecryptShare(e, key) = OpenXwing(Payload(e), key)
    <3>1. key.cipher # "xchacha"
      BY <1>3
    <3> QED
      BY <1>1, <3>1, Zenon DEF DecryptShare, Payload
  <2>2. PICK p \in Bytes : p = Payload(e)
    BY <1>1, FrameWhole, Zenon DEF Payload
  <2>3. Len(p) >= 2
    <3>1. ~(Len(p) < 2)
      BY <2>1, <2>2, Zenon DEF OpenXwing
    <3> QED
      BY <3>1, LenProperties DEF Bytes
  <2>4. KemPart(p).ok /\ Len(KemPart(p).ct) = KemCtLen /\ key.len = KeyLen
    <3>1. ~(Len(p) < 2)
      BY <2>3, LenProperties DEF Bytes
    <3>2. PICK part : part = KemPart(p)
      OBVIOUS
    <3>3. DecryptShare(e, key) =
            CASE ~part.ok -> Err("decode")
              [] part.ok /\ Panic \in {part.ct, part.blob} -> Err("panic")
              [] part.ok /\ Panic \notin {part.ct, part.blob}
                   /\ (Len(part.ct) # KemCtLen \/ key.len # KeyLen) -> Err("decode")
              [] OTHER -> OpenBlob(KemKey(key.secret, part.ct), part.blob, Sealed)
      BY <2>1, <2>2, <3>1, <3>2, Zenon DEF OpenXwing
    <3>4. part.ok
      BY <3>3
    <3>5. Panic \notin {part.ct, part.blob}
      BY <2>3, <3>2, <3>4, KemWhole
    <3>6. ~(Len(part.ct) # KemCtLen \/ key.len # KeyLen)
      BY <3>3, <3>4, <3>5
    <3> QED
      BY <3>2, <3>4, <3>6, Zenon
  <2> QED
    BY <1>1, <1>3, <2>2, <2>3, <2>4, Zenon DEF AsXwing
<1> QED
  BY <1>1, <1>2, <1>3 DEF Cipher

LEMMA DecryptedXchacha ==
  ASSUME NEW e \in Bytes, NEW key, AsXchacha(e, key)
  PROVE  DecryptShare(e, key) = OpenedXchacha(e, key)
<1>1. "xchacha" \in Cipher
  BY DEF Cipher
<1> QED
  BY <1>1, Zenon DEF AsXchacha, DecryptShare, OpenXchacha, OpenedXchacha, Payload

LEMMA DecryptedXwing ==
  ASSUME NEW e \in Bytes, NEW key, AsXwing(e, key)
  PROVE  /\ DecryptShare(e, key) = OpenedXwing(e, key)
         /\ Payload(e) \in Bytes /\ KemPart(Payload(e)).blob \in Bytes
         /\ e = Frame("xwing", Payload(e))
         /\ Payload(e) = XwingPayload(KemPart(Payload(e)).ct, KemPart(Payload(e)).blob)
<1>1. "xwing" \in Cipher /\ "xwing" # "xchacha"
  BY DEF Cipher
<1>2. PICK p \in Bytes : p = Payload(e) /\ e = Frame("xwing", p)
  BY <1>1, FrameWhole, Zenon DEF Payload, AsXwing
<1>3. PICK part : part = KemPart(p)
  OBVIOUS
<1>4. /\ Len(p) >= 2 /\ part.ok /\ Len(part.ct) = KemCtLen /\ key.len = KeyLen
      /\ key.cipher = "xwing"
  BY <1>2, <1>3, Zenon DEF AsXwing
<1>5. /\ ~(Panic \in {part.ct, part.blob}) /\ part.blob \in Bytes
      /\ p = XwingPayload(part.ct, part.blob)
  BY <1>3, <1>4, KemWhole
<1>6. ~(Len(p) < 2)
  BY <1>4, LenProperties DEF Bytes
<1>7. OpenXwing(p, key) =
        CASE ~part.ok -> Err("decode")
          [] part.ok /\ Panic \in {part.ct, part.blob} -> Err("panic")
          [] part.ok /\ Panic \notin {part.ct, part.blob}
               /\ (Len(part.ct) # KemCtLen \/ key.len # KeyLen) -> Err("decode")
          [] OTHER -> OpenBlob(KemKey(key.secret, part.ct), part.blob, Sealed)
  BY <1>3, <1>6, Zenon DEF OpenXwing
<1>8. OpenXwing(p, key) = OpenBlob(KemKey(key.secret, part.ct), part.blob, Sealed)
  BY <1>4, <1>5, <1>7
<1>9. DecryptShare(e, key) = OpenXwing(p, key)
  <2>1. p = Slice(e, 6, Len(e))
    BY <1>2, Zenon DEF Payload
  <2>2. Unframes(e) /\ e[6] = Tag("xwing")
    BY Zenon DEF AsXwing
  <2> QED
    BY <1>1, <1>4, <2>1, <2>2, Zenon DEF DecryptShare
<1> QED
  BY <1>2, <1>3, <1>5, <1>8, <1>9, Zenon DEF OpenedXwing

\* No envelope is read out of bounds.
LEMMA NoPanic ==
  ASSUME NEW e \in Bytes, NEW key \in KeyTexts
  PROVE  DecryptShare(e, key).tag \in {"ok", "decode", "wrong_key"}
<1>1. CASE DecryptShare(e, key) = Err("decode")
  BY <1>1 DEF Err
<1>2. CASE AsXchacha(e, key)
  <2>1. Payload(e) \in Bytes
    BY <1>2, FrameWhole, Zenon DEF AsXchacha, Payload, Cipher
  <2>2. Payload(e) # Panic
    BY <2>1, BytesNoPanic, Zenon
  <2> QED
    BY <1>2, <2>2, DecryptedXchacha, OpenNoPanic, Zenon DEF OpenedXchacha
<1>3. CASE AsXwing(e, key)
  <2>1. KemPart(Payload(e)).blob # Panic
    <3>1. PICK blob \in Bytes : blob = KemPart(Payload(e)).blob
      BY <1>3, DecryptedXwing, Zenon
    <3>2. blob # Panic
      BY BytesNoPanic, Zenon
    <3> QED
      BY <3>1, <3>2, Zenon
  <2> QED
    <3>1. DecryptShare(e, key) = OpenedXwing(e, key)
      BY <1>3, DecryptedXwing, Zenon
    <3> QED
      BY <2>1, <3>1, OpenNoPanic, Zenon DEF OpenedXwing
<1> QED
  BY <1>1, <1>2, <1>3, Decrypted

\* A key text is that of a share if it has its cipher and its secret.
LEMMA KeyTextIs ==
  ASSUME NEW key \in KeyTexts, key.len = KeyLen
  PROVE  key = KeyBlob(key.cipher, key.secret)
  BY DEF KeyTexts, KeyBlob

\* What opens is a share, whole, with its own key.
LEMMA OpensWhole ==
  ASSUME SharesMade, NEW e \in Bytes, NEW key \in KeyTexts,
         DecryptShare(e, key).tag = "ok"
  PROVE  \E n \in DOMAIN made :
           /\ e = made[n].envelope /\ key = made[n].key
           /\ DecryptShare(e, key).value = made[n].sealed.data
<1>1. AsXchacha(e, key) \/ AsXwing(e, key)
  BY Decrypted DEF Err
<1>2. CASE AsXchacha(e, key)
  <2>1. PICK mine, blob : mine = SymmetricKey(key.secret) /\ blob = Payload(e)
    OBVIOUS
  <2>2. DecryptShare(e, key) = OpenBlob(mine, blob, Sealed)
    BY <1>2, <2>1, DecryptedXchacha, Zenon DEF OpenedXchacha
  <2>3. PICK s \in Sealed :
          s.key = mine /\ s.blob = blob /\ OpenBlob(mine, blob, Sealed).value = s.data
    <3>1. OpenBlob(mine, blob, Sealed).tag = "ok"
      BY <2>2, Zenon
    <3> QED
      BY <3>1, OpenedWasSealed
  <2>4. PICK n \in DOMAIN made : s = made[n].sealed
    BY <2>3 DEF Sealed
  <2>5. PICK bundle \in Bundle, nonce \in RandomBytes(NonceLen) :
          \/ IsXchacha(made[n], n, bundle, nonce)
          \/ \E ct \in RandomBytes(KemCtLen) : IsXwing(made[n], n, bundle, nonce, ct)
    BY MadeIsShare, Zenon DEF IsShare
  <2>6. ASSUME NEW ct \in RandomBytes(KemCtLen), IsXwing(made[n], n, bundle, nonce, ct)
        PROVE  FALSE
    <3>1. ct = <<>>
      BY <2>1, <2>3, <2>4, <2>6 DEF IsXwing, Fields, KemKey, SymmetricKey
    <3>2. ct \in Bytes /\ Len(ct) = KemCtLen
      BY RandomIsBytes, Lengths
    <3>3. Len(<<>>) = 0
      OBVIOUS
    <3> QED
      BY <3>1, <3>2, <3>3, Lengths
  <2>7. IsXchacha(made[n], n, bundle, nonce)
    BY <2>5, <2>6, Zenon
  <2>8. key.secret = n /\ blob = SealedBlob(nonce)
    BY <2>1, <2>3, <2>4, <2>7 DEF IsXchacha, Fields, SymmetricKey
  <2>9. made[n].envelope = Frame("xchacha", blob) /\ made[n].key = KeyBlob("xchacha", n)
    BY <2>7, <2>8 DEF IsXchacha, Fields, SymmetricKey
  <2>10. e = Frame("xchacha", blob)
    BY <1>2, <2>1, FrameWhole, Zenon DEF AsXchacha, Payload, Cipher
  <2>11. key = KeyBlob("xchacha", n)
    BY <1>2, <2>8, KeyTextIs, Zenon DEF AsXchacha
  <2> QED
    BY <2>2, <2>3, <2>4, <2>9, <2>10, <2>11, Zenon
<1>3. CASE AsXwing(e, key)
  <2>1. PICK ct, blob, mine : /\ ct = KemPart(Payload(e)).ct /\ blob = KemPart(Payload(e)).blob
                              /\ mine = KemKey(key.secret, ct)
    OBVIOUS
  <2>2. /\ DecryptShare(e, key) = OpenBlob(mine, blob, Sealed)
        /\ e = Frame("xwing", XwingPayload(ct, blob)) /\ Len(ct) = KemCtLen
    BY <1>3, <2>1, DecryptedXwing, Zenon DEF OpenedXwing, AsXwing
  <2>3. PICK s \in Sealed :
          s.key = mine /\ s.blob = blob /\ OpenBlob(mine, blob, Sealed).value = s.data
    <3>1. OpenBlob(mine, blob, Sealed).tag = "ok"
      BY <2>2, Zenon
    <3> QED
      BY <3>1, OpenedWasSealed
  <2>4. PICK n \in DOMAIN made : s = made[n].sealed
    BY <2>3 DEF Sealed
  <2>5. PICK bundle \in Bundle, nonce \in RandomBytes(NonceLen) :
          \/ IsXchacha(made[n], n, bundle, nonce)
          \/ \E c \in RandomBytes(KemCtLen) : IsXwing(made[n], n, bundle, nonce, c)
    BY MadeIsShare, Zenon DEF IsShare
  <2>6. ASSUME IsXchacha(made[n], n, bundle, nonce)
        PROVE  FALSE
    <3>1. ct = <<>>
      BY <2>1, <2>3, <2>4, <2>6 DEF IsXchacha, Fields, KemKey, SymmetricKey
    <3>2. Len(<<>>) = 0
      OBVIOUS
    <3> QED
      BY <2>2, <3>1, <3>2, Lengths
  <2>7. PICK c \in RandomBytes(KemCtLen) : IsXwing(made[n], n, bundle, nonce, c)
    BY <2>5, <2>6, Zenon
  <2>8. key.secret = n /\ ct = c /\ blob = SealedBlob(nonce)
    BY <2>1, <2>3, <2>4, <2>7 DEF IsXwing, Fields, KemKey
  <2>9. /\ made[n].envelope = Frame("xwing", XwingPayload(ct, blob))
        /\ made[n].key = KeyBlob("xwing", n)
    BY <2>7, <2>8 DEF IsXwing, Fields, KemKey
  <2>10. key = KeyBlob("xwing", n)
    BY <1>3, <2>8, KeyTextIs, Zenon DEF AsXwing
  <2> QED
    BY <2>2, <2>3, <2>4, <2>9, <2>10, Zenon
<1> QED
  BY <1>1, <1>2, <1>3

\* A share, whole, opens with its own key, to its bundle.
LEMMA WholeIsOpened ==
  ASSUME SharesMade, NEW n \in DOMAIN made
  PROVE  DecryptShare(made[n].envelope, made[n].key) = Ok(made[n].sealed.data)
<1>1. PICK bundle \in Bundle, nonce \in RandomBytes(NonceLen) :
        \/ IsXchacha(made[n], n, bundle, nonce)
        \/ \E ct \in RandomBytes(KemCtLen) : IsXwing(made[n], n, bundle, nonce, ct)
  BY MadeIsShare, Zenon DEF IsShare
<1>2. PICK blob \in Bytes :
        blob = SealedBlob(nonce) /\ ~(Len(blob) < NonceLen) /\ blob # Panic
  <2>1. PICK blob \in Bytes :
          blob = SealedBlob(nonce) /\ Len(blob) = NonceLen + (DataLen + TagLen)
    BY BlobIsBytes, Lengths
  <2>2. ~(Len(blob) < NonceLen) /\ blob # Panic
    BY <2>1, BytesNoPanic, Lengths
  <2> QED
    BY <2>1, <2>2, Zenon
<1>3. PICK e \in Bytes, key \in KeyTexts : e = made[n].envelope /\ key = made[n].key
  BY MadeBytes
<1>4. PICK s \in Sealed : s = made[n].sealed /\ s.data = made[n].sealed.data
  BY DEF Sealed
<1>5. ASSUME NEW mine, s.key = mine, s.blob = blob,
             DecryptShare(e, key) = OpenBlob(mine, blob, Sealed)
      PROVE  DecryptShare(e, key) = Ok(made[n].sealed.data)
  <2>1. OpenBlob(mine, blob, Sealed).tag = "ok"
    BY <1>2, <1>5, SealedOpens, Zenon
  <2>2. PICK m \in DOMAIN made :
          key = made[m].key /\ DecryptShare(e, key).value = made[m].sealed.data
    BY <1>5, <2>1, OpensWhole, Zenon
  <2>3. m = n
    <3>1. \A k \in DOMAIN made : made[k].key.secret = k
      <4> TAKE k \in DOMAIN made
      <4>1. PICK b \in Bundle, o \in RandomBytes(NonceLen) :
              \/ IsXchacha(made[k], k, b, o)
              \/ \E c \in RandomBytes(KemCtLen) : IsXwing(made[k], k, b, o, c)
        BY MadeIsShare, Zenon DEF IsShare
      <4>2. made[k].key \in {KeyBlob(cipher, k) : cipher \in {"xchacha", "xwing"}}
        <5>1. CASE IsXchacha(made[k], k, b, o)
          BY <5>1 DEF IsXchacha, Fields, SymmetricKey
        <5>2. ASSUME NEW c, IsXwing(made[k], k, b, o, c)
              PROVE  made[k].key \in {KeyBlob(cipher, k) : cipher \in {"xchacha", "xwing"}}
          BY <5>2 DEF IsXwing, Fields, KemKey
        <5> QED
          BY <4>1, <5>1, <5>2
      <4> QED
        BY <4>2 DEF KeyBlob
    <3> QED
      BY <1>3, <2>2, <3>1
  <2>4. OpenBlob(mine, blob, Sealed) = Ok(OpenBlob(mine, blob, Sealed).value)
    BY <2>1, OpenedIsOk, Zenon
  <2> QED
    BY <1>5, <2>2, <2>3, <2>4, Zenon
<1>6. CASE IsXchacha(made[n], n, bundle, nonce)
  <2>1. PICK mine : mine = SymmetricKey(n)
    OBVIOUS
  <2>2. /\ e = Frame("xchacha", blob) /\ key = KeyBlob("xchacha", mine.secret)
        /\ s.key = mine /\ s.blob = blob /\ mine.secret = n
    BY <1>2, <1>3, <1>4, <1>6, <2>1 DEF IsXchacha, Fields, SymmetricKey
  <2>3. key.cipher = "xchacha" /\ key.secret = n /\ key.len = KeyLen
    BY <2>2 DEF KeyBlob
  <2>4. Unframes(e) /\ e[6] = Tag("xchacha") /\ Payload(e) = blob
    BY <2>2, FrameParts, Zenon DEF Payload, Cipher
  <2>5. AsXchacha(e, key)
    BY <2>3, <2>4, Zenon DEF AsXchacha
  <2>6. DecryptShare(e, key) = OpenBlob(mine, blob, Sealed)
    <3>1. DecryptShare(e, key) = OpenedXchacha(e, key)
      BY <2>5, DecryptedXchacha, Zenon
    <3>2. OpenedXchacha(e, key) = OpenBlob(SymmetricKey(n), blob, Sealed)
      BY <2>3, <2>4, Zenon DEF OpenedXchacha
    <3> QED
      BY <2>1, <3>1, <3>2, Zenon
  <2>7. DecryptShare(e, key) = Ok(made[n].sealed.data)
    BY <1>5, <2>2, <2>6, Zenon
  <2> QED
    BY <1>3, <2>7, Zenon
<1>7. ASSUME NEW ct \in RandomBytes(KemCtLen), IsXwing(made[n], n, bundle, nonce, ct)
      PROVE  DecryptShare(e, key) = Ok(made[n].sealed.data)
  <2>1. PICK mine, p : mine = KemKey(n, ct) /\ p = XwingPayload(ct, blob)
    OBVIOUS
  <2>2. /\ e = Frame("xwing", p) /\ key = KeyBlob("xwing", mine.secret)
        /\ s.key = mine /\ s.blob = blob /\ mine.secret = n
    BY <1>2, <1>3, <1>4, <1>7, <2>1 DEF IsXwing, Fields, KemKey
  <2>3. key.cipher = "xwing" /\ key.secret = n /\ key.len = KeyLen
    BY <2>2 DEF KeyBlob
  <2>4. ct \in Bytes /\ Len(ct) = KemCtLen /\ KemCtLen \in Nat /\ U16(KemCtLen)
    BY RandomIsBytes, Lengths
  <2>5. /\ p \in Bytes /\ Len(p) = 2 + (KemCtLen + Len(blob))
        /\ KemPart(p).ok /\ KemPart(p).ct = ct /\ KemPart(p).blob = blob
    BY <2>1, <2>4, KemParts
  <2>6. Len(p) >= 2
    <3>1. Len(blob) \in Nat
      BY LenProperties DEF Bytes
    <3> QED
      BY <2>4, <2>5, <3>1
  <2>7. Unframes(e) /\ e[6] = Tag("xwing") /\ Payload(e) = p
    BY <2>2, <2>5, FrameParts, Zenon DEF Payload, Cipher
  <2>8. AsXwing(e, key)
    BY <2>3, <2>4, <2>5, <2>6, <2>7, Zenon DEF AsXwing
  <2>9. DecryptShare(e, key) = OpenBlob(mine, blob, Sealed)
    <3>1. DecryptShare(e, key) = OpenedXwing(e, key)
      BY <2>8, DecryptedXwing, Zenon
    <3>2. OpenedXwing(e, key) = OpenBlob(KemKey(n, ct), blob, Sealed)
      BY <2>3, <2>5, <2>7, Zenon DEF OpenedXwing
    <3> QED
      BY <2>1, <3>1, <3>2, Zenon
  <2> QED
    BY <1>5, <2>2, <2>9, Zenon
<1> QED
  BY <1>1, <1>3, <1>6, <1>7, Zenon

-----------------------------------------------------------------------------
(* The theorems.                                                           *)

\* Every share has the one format of src/share.rs for its cipher, whatever
\* travels is a string of bytes with a key text, and an answer is a bundle or
\* an error.
THEOREM SharesTypes == Spec => []TypeOK
<1>1. SharesInv => TypeOK
  <2> SUFFICES ASSUME SharesInv PROVE TypeOK
    OBVIOUS
  <2>1. \A n \in DOMAIN made :
          /\ made[n].key.cipher \in Cipher
          /\ made[n].envelope \in Seq(0 .. 255)
          /\ Len(made[n].envelope) = 6 + PayloadLen(made[n].key.cipher)
          /\ made[n].sealed.data \in Bundle
    BY MadeBytes DEF SharesInv, SharesMade, Bytes
  <2>2. wire # None => wire.envelope \in Seq(0 .. 255) /\ wire.key.len \in Nat
    BY DEF SharesInv, KeyTexts, Bytes
  <2>3. result # None => result.tag \in {"ok", "decode", "wrong_key", "panic"}
    <3>1. wire # None => wire.envelope \in Bytes /\ wire.key \in KeyTexts
      BY DEF SharesInv
    <3> QED
      BY <3>1, NoPanic DEF SharesInv
  <2> QED
    BY <2>1, <2>2, <2>3 DEF SharesInv, TypeOK
<1> QED
  BY <1>1, SharesAlways, PTL

\* Whatever became of an envelope and a key text, decrypt_share refuses them
\* or opens: no slice it takes, by a length that travelled with the data, is
\* out of bounds.
THEOREM AnEnvelopeIsReadWithinBounds == Spec => []NeverPanics
<1>1. SharesInv => NeverPanics
  <2> SUFFICES ASSUME SharesInv, result # None PROVE result.tag # "panic"
    BY DEF NeverPanics
  <2>1. wire.envelope \in Bytes /\ wire.key \in KeyTexts
    BY DEF SharesInv
  <2>2. result.tag \in {"ok", "decode", "wrong_key"}
    BY <2>1, NoPanic DEF SharesInv
  <2> QED
    BY <2>2
<1> QED
  BY <1>1, SharesAlways, PTL

\* What decrypt_share returns is the bundle of a share that arrived byte for
\* byte, with its own key, for any number of shares, any lengths and faults.
THEOREM OnlyAWholeShareOpens == Spec => []OpensOnlyWhole
<1>1. SharesInv => OpensOnlyWhole
  <2> SUFFICES ASSUME SharesInv, result # None, result.tag = "ok"
               PROVE  \E n \in DOMAIN made : Whole(n) /\ result.value = made[n].sealed.data
    BY DEF OpensOnlyWhole
  <2>1. /\ wire.envelope \in Bytes /\ wire.key \in KeyTexts
        /\ result = DecryptShare(wire.envelope, wire.key)
    BY DEF SharesInv
  <2> QED
    BY <2>1, OpensWhole DEF SharesInv, SharesMade, Whole
<1> QED
  BY <1>1, SharesAlways, PTL

\* A share that arrives whole opens to its bundle, whatever else was made.
THEOREM AWholeShareOpens == Spec => []WholeOpens
<1>1. SharesInv => WholeOpens
  <2> SUFFICES ASSUME SharesInv, result # None, NEW n \in DOMAIN made, Whole(n)
               PROVE  result = Ok(made[n].sealed.data)
    BY DEF WholeOpens
  <2>1. DecryptShare(made[n].envelope, made[n].key) = Ok(made[n].sealed.data)
    BY WholeIsOpened DEF SharesInv, SharesMade
  <2> QED
    BY <2>1, Zenon DEF SharesInv, Whole
<1> QED
  BY <1>1, SharesAlways, PTL

-----------------------------------------------------------------------------
(* Backups.                                                                *)

\* A backup, of whoever had this passphrase, salt and nonce.
BackupOf(passphrase, salt, nonce, n) ==
  [bytes  |-> Header(salt) \o SealedBlob(nonce),
   sealed |-> [key  |-> DeriveKek(passphrase, salt, Params("constrained")),
               blob |-> SealedBlob(nonce), data |-> n]]

BackupSet ==
  {BackupOf(passphrase, salt, nonce, n) :
     passphrase \in Passphrase, salt \in RandomBytes(SaltLen),
     nonce \in RandomBytes(NonceLen), n \in Nat}

\* What the flow makes of the answer to a file.
FlowResult(data, passphrase) ==
  LET r == ImportBackup(data, passphrase)
  IN  IF r.tag \in {"ok", "panic"} THEN r ELSE Err("flow")

\* The inductive invariant: what is exported is whole, the file is some byte
\* string, and the answer, if any, is the one to this very file.
BackupsInv ==
  /\ exported \in Seq(BackupSet) /\ Len(exported) <= MaxBackups
  /\ file # None => file \in Bytes
  /\ decay \in 0 .. MaxDecay
  /\ attempt # None =>
       file # None /\ attempt.result = FlowResult(file, attempt.passphrase)

-----------------------------------------------------------------------------
(* The format.                                                             *)

LEMMA BackupLengths ==
  /\ NonceLen \in Nat /\ DataLen \in Nat /\ TagLen \in Nat /\ SaltLen \in Nat
  /\ Noise \subseteq 0 .. 255 /\ Byte \subseteq 0 .. 255
  /\ MagicLen = 2 /\ MagicLen \in Nat
  /\ HeaderLen = (2 + SaltLen) + 3 /\ HeaderLen \in Nat
<1>1. MagicLen = 2
  BY DEF MagicLen, BackupMagic
<1> QED
  BY <1>1, BackupsAssumption DEF HeaderLen

LEMMA HeaderParts ==
  /\ BackupMagic \in Bytes /\ Len(BackupMagic) = 2
  /\ \A profile : Params(profile) \in Bytes /\ Len(Params(profile)) = 3
<1>1. BackupMagic \in Bytes /\ Len(BackupMagic) = 2
  BY DEF BackupMagic, Bytes
<1>2. <<2, 2, 1>> \in Bytes /\ Len(<<2, 2, 1>>) = 3
  BY DEF Bytes
<1>3. <<1, 1, 1>> \in Bytes /\ Len(<<1, 1, 1>>) = 3
  BY DEF Bytes
<1>4. \A profile : Params(profile) = <<2, 2, 1>> \/ Params(profile) = <<1, 1, 1>>
  BY DEF Params
<1> QED
  BY <1>1, <1>2, <1>3, <1>4, Zenon

\* The parts of a backup are where import_backup looks for them.
LEMMA BackupParts ==
  ASSUME NEW salt \in RandomBytes(SaltLen), NEW nonce \in RandomBytes(NonceLen),
         NEW e, e = Header(salt) \o SealedBlob(nonce)
  PROVE  /\ e \in Bytes /\ Len(e) = HeaderLen + (NonceLen + (DataLen + TagLen))
         /\ Slice(e, 0, MagicLen) = BackupMagic /\ Salt(e) = salt
         /\ StoredParams(e) = Params("constrained")
         /\ Slice(e, HeaderLen, Len(e)) = SealedBlob(nonce)
<1>1. salt \in Bytes /\ Len(salt) = SaltLen
  BY RandomIsBytes, BackupLengths
<1>2. PICK blob \in Bytes, m \in Nat :
        blob = SealedBlob(nonce) /\ Len(blob) = m /\ m = NonceLen + (DataLen + TagLen)
  BY BlobIsBytes, BackupLengths
<1>3. PICK params \in Bytes : params = Params("constrained") /\ Len(params) = 3
  BY HeaderParts
<1>4. PICK magic \in Bytes : magic = BackupMagic /\ Len(magic) = 2
  BY HeaderParts
<1>5. PICK front \in Bytes :
        front = magic \o salt /\ Len(front) = Len(magic) + Len(salt)
  BY <1>1, JoinBytes, Zenon
<1>6. PICK rest \in Bytes :
        rest = params \o blob /\ Len(rest) = Len(params) + Len(blob)
  BY JoinBytes, Zenon
<1>7. e = front \o (params \o blob) /\ e = magic \o (salt \o rest)
  <2>1. e = (front \o params) \o blob
    BY <1>2, <1>3, <1>4, <1>5, Zenon DEF Header
  <2>2. (front \o params) \o blob = front \o (params \o blob)
    BY JoinAssociative, ZenonT(60)
  <2>3. (magic \o salt) \o rest = magic \o (salt \o rest)
    BY <1>1, JoinAssociative, ZenonT(60)
  <2> QED
    BY <1>5, <1>6, <2>1, <2>2, <2>3, Zenon
<1>8. PICK j \in Nat, h \in Nat, k \in Nat :
        /\ j = 2 + Len(salt) /\ h = j + Len(params) /\ k = h + Len(blob)
        /\ j = Len(front) /\ k = j + Len(rest)
        /\ h = HeaderLen /\ j = MagicLen + SaltLen /\ k = HeaderLen + m
  <2>1. /\ Len(salt) = SaltLen /\ Len(params) = 3 /\ Len(blob) = m
        /\ Len(front) = 2 + SaltLen /\ Len(rest) = 3 + m
    BY <1>1, <1>2, <1>3, <1>4, <1>5, <1>6, Zenon
  <2>2. /\ 2 + SaltLen \in Nat /\ (2 + SaltLen) + 3 \in Nat
        /\ ((2 + SaltLen) + 3) + m \in Nat /\ (2 + SaltLen) + (3 + m) = ((2 + SaltLen) + 3) + m
    BY BackupLengths
  <2> QED
    BY <2>1, <2>2, BackupLengths, Zenon
<1>9. Parts(e, front, j, params, h, blob, k)
  BY <1>7, <1>8, ThreeParts, Zenon
<1>10. Parts(e, magic, 2, salt, j, rest, k)
  <2>1. 2 \in Nat /\ 2 = Len(magic)
    BY <1>4
  <2>2. j = 2 + Len(salt) /\ k = j + Len(rest) /\ salt \in Bytes
    BY <1>1, <1>8
  <2>3. Parts(magic \o (salt \o rest), magic, 2, salt, j, rest, k)
    BY <2>1, <2>2, ThreeParts, Zenon
  <2> QED
    BY <1>7, <2>3, Zenon
<1> QED
  BY <1>2, <1>3, <1>4, <1>8, <1>9, <1>10, BackupLengths, Zenon DEF Salt, StoredParams, Parts

-----------------------------------------------------------------------------
(* The invariant.                                                          *)

\* What is exported is a backup.
LEMMA MadeIsBackup ==
  ASSUME exported \in Seq(BackupSet), NEW n \in DOMAIN exported
  PROVE  \E passphrase \in Passphrase, salt \in RandomBytes(SaltLen),
            nonce \in RandomBytes(NonceLen), k \in Nat :
           exported[n] = BackupOf(passphrase, salt, nonce, k)
<1>1. n \in 1 .. Len(exported)
  BY LenProperties
<1>2. exported[n] \in BackupSet
  BY <1>1, ElementOfSeq
<1> QED
  BY <1>2 DEF BackupSet

LEMMA ExportedBytes ==
  ASSUME exported \in Seq(BackupSet), NEW n \in DOMAIN exported
  PROVE  /\ exported[n].bytes \in Bytes
         /\ Len(exported[n].bytes) = HeaderLen + (NonceLen + (DataLen + TagLen))
<1>1. PICK passphrase \in Passphrase, salt \in RandomBytes(SaltLen),
           nonce \in RandomBytes(NonceLen), k \in Nat :
        exported[n] = BackupOf(passphrase, salt, nonce, k)
  BY MadeIsBackup
<1>2. PICK e : e = Header(salt) \o SealedBlob(nonce)
  OBVIOUS
<1>3. exported[n].bytes = e
  BY <1>1, <1>2 DEF BackupOf
<1> QED
  BY <1>2, <1>3, BackupParts

LEMMA BackupsInit == InitBackups => BackupsInv
<1>1. <<>> \in Seq(BackupSet) /\ Len(<<>>) = 0
  BY EmptySeq
<1> QED
  BY <1>1, BackupsAssumption DEF InitBackups, BackupsInv

LEMMA ExportKeeps ==
  ASSUME BackupsInv, NEW passphrase \in Passphrase, ExportBackup(passphrase)
  PROVE  BackupsInv'
<1>1. PICK salt \in RandomBytes(SaltLen), nonce \in RandomBytes(NonceLen) :
        exported' = Append(exported, BackupOf(passphrase, salt, nonce, Len(exported) + 1))
  BY DEF ExportBackup, BackupOf
<1>2. Len(exported) \in Nat
  BY LenProperties DEF BackupsInv
<1>3. BackupOf(passphrase, salt, nonce, Len(exported) + 1) \in BackupSet
  BY <1>2 DEF BackupSet
<1>4. exported' \in Seq(BackupSet) /\ Len(exported') = Len(exported) + 1
  BY <1>1, <1>3, AppendProperties DEF BackupsInv
<1>5. Len(exported') <= MaxBackups
  BY <1>2, <1>4, BackupsAssumption DEF ExportBackup
<1>6. file' = None /\ file = None /\ UNCHANGED <<decay, attempt>>
  BY DEF ExportBackup
<1> QED
  BY <1>4, <1>5, <1>6 DEF BackupsInv

LEMMA BackupsNext == BackupsInv /\ [NextBackups]_backupVars => BackupsInv'
<1> SUFFICES ASSUME BackupsInv, [NextBackups]_backupVars PROVE BackupsInv'
  OBVIOUS
<1>1. ASSUME NEW passphrase \in Passphrase, ExportBackup(passphrase)
      PROVE  BackupsInv'
  BY <1>1, ExportKeeps
<1>2. ASSUME NEW passphrase \in Passphrase, Import(passphrase)
      PROVE  BackupsInv'
  <2>1. /\ file # None /\ UNCHANGED <<exported, file, decay>>
        /\ attempt'.passphrase = passphrase
        /\ attempt'.result = FlowResult(file, passphrase)
    BY <1>2 DEF Import, FlowResult
  <2>2. FlowResult(file, passphrase)' = FlowResult(file, passphrase)
    BY <2>1 DEF FlowResult, ImportBackup, SealedBackups
  <2> QED
    BY <2>1, <2>2 DEF BackupsInv, FlowResult, ImportBackup, SealedBackups
<1>3. ASSUME NEW n \in DOMAIN exported, Keep(n)
      PROVE  BackupsInv'
  <2>1. exported[n].bytes \in Bytes
    BY ExportedBytes DEF BackupsInv
  <2>2. attempt' = None /\ UNCHANGED <<exported, decay>> /\ file' = exported[n].bytes
    BY <1>3 DEF Keep, BackupsInv
  <2> QED
    BY <2>1, <2>2 DEF BackupsInv
<1>4. CASE Decay
  <2>1. {exported[n].bytes : n \in DOMAIN exported} \in SUBSET Bytes
    BY ExportedBytes DEF BackupsInv
  <2>2. file' \in Bytes
    BY <1>4, <2>1, DamagedBytes, BackupLengths DEF Decay, BackupsInv
  <2>3. decay' \in 0 .. MaxDecay
    BY <1>4, BackupsAssumption DEF Decay, BackupsInv
  <2> QED
    BY <1>4, <2>2, <2>3 DEF Decay, BackupsInv
<1>5. CASE UNCHANGED backupVars
  BY <1>5 DEF backupVars, BackupsInv, FlowResult, ImportBackup, SealedBackups
<1> QED
  BY <1>1, <1>2, <1>3, <1>4, <1>5 DEF NextBackups

LEMMA BackupsAlways == BackupsSpec => []BackupsInv
  BY BackupsInit, BackupsNext, PTL DEF BackupsSpec

-----------------------------------------------------------------------------
(* The answer.                                                             *)

\* The slices of a file that is recognised are within it.
LEMMA InBounds ==
  ASSUME NEW data \in Bytes, Recognises(data)
  PROVE  /\ Len(data) \in Nat /\ HeaderLen <= Len(data)
         /\ ~(Panic \in {Salt(data), StoredParams(data)})
         /\ Slice(data, HeaderLen, Len(data)) # Panic
<1>1. Len(data) \in Nat
  BY LenProperties DEF Bytes
<1>2. /\ HeaderLen <= Len(data) /\ Len(data) <= Len(data)
      /\ MagicLen + SaltLen \in Nat /\ MagicLen <= MagicLen + SaltLen
      /\ MagicLen + SaltLen <= Len(data) /\ MagicLen + SaltLen <= HeaderLen
  BY <1>1, BackupLengths DEF Recognises
<1>3. Salt(data) # Panic
  BY <1>2, BackupLengths, SliceBytes, Zenon DEF Salt
<1>4. StoredParams(data) # Panic
  BY <1>2, BackupLengths, SliceBytes, Zenon DEF StoredParams
<1>5. Slice(data, HeaderLen, Len(data)) # Panic
  BY <1>1, <1>2, BackupLengths, SliceBytes, Zenon
<1> QED
  BY <1>1, <1>2, <1>3, <1>4, <1>5

\* What import_backup comes down to for a file it recognises.
LEMMA Imported ==
  ASSUME NEW data \in Bytes, NEW passphrase
  PROVE  \/ ImportBackup(data, passphrase) = Err("decode")
         \/ /\ Recognises(data) /\ StoredParams(data) \in KnownParams
            /\ ImportBackup(data, passphrase) =
                 OpenBlob(DeriveKek(passphrase, Salt(data), StoredParams(data)),
                          Slice(data, HeaderLen, Len(data)), SealedBackups)
<1>1. CASE ~Recognises(data)
  BY <1>1 DEF ImportBackup
<1>2. CASE Recognises(data)
  <2>1. ~(Panic \in {Salt(data), StoredParams(data)})
    BY <1>2, InBounds
  <2>2. CASE StoredParams(data) \in KnownParams
    <3>1. StoredParams(data) # <<>>
      BY <2>2 DEF KnownParams, Params
    <3>2. ProfileParams(data) = StoredParams(data)
      BY <2>2 DEF ProfileParams
    <3> QED
      BY <1>2, <2>1, <2>2, <3>1, <3>2, Zenon DEF ImportBackup
  <2>3. CASE ~(StoredParams(data) \in KnownParams)
    <3>1. ProfileParams(data) = <<>>
      BY <2>3 DEF ProfileParams
    <3> QED
      BY <1>2, <2>1, <3>1, Zenon DEF ImportBackup
  <2> QED
    BY <2>2, <2>3
<1> QED
  BY <1>1, <1>2

\* No file is read out of bounds.
LEMMA ImportNoPanic ==
  ASSUME NEW data \in Bytes, NEW passphrase
  PROVE  FlowResult(data, passphrase).tag \in {"ok", "flow"}
<1>1. CASE ImportBackup(data, passphrase) = Err("decode")
  BY <1>1 DEF FlowResult, Err
<1>2. CASE /\ Recognises(data)
           /\ ImportBackup(data, passphrase) =
                OpenBlob(DeriveKek(passphrase, Salt(data), StoredParams(data)),
                         Slice(data, HeaderLen, Len(data)), SealedBackups)
  <2>1. ImportBackup(data, passphrase).tag \in {"ok", "decode", "wrong_key"}
    BY <1>2, InBounds, OpenNoPanic, Zenon
  <2> QED
    BY <2>1 DEF FlowResult, Err
<1> QED
  BY <1>1, <1>2, Imported

\* The recognised prefix of a file that has the header of a backup.
LEMMA HeaderAndBlob ==
  ASSUME NEW data \in Bytes, Recognises(data)
  PROVE  data = BackupMagic \o (Salt(data) \o (StoredParams(data) \o Slice(data, HeaderLen, Len(data))))
<1>1. PICK i \in Nat, j \in Nat, h \in Nat :
        i = MagicLen /\ j = MagicLen + SaltLen /\ h = HeaderLen
  BY BackupLengths
<1>2. PICK k \in Nat : k = Len(data) /\ h <= k
  BY <1>1, InBounds
<1>3. i <= j /\ j <= h /\ j <= k /\ i <= h /\ k <= Len(data)
  BY <1>1, <1>2, BackupLengths
<1>4. Slice(data, j, h) \o Slice(data, h, k) = Slice(data, j, k)
  BY <1>2, <1>3, SlicesJoin, Zenon
<1>5. data = Slice(data, 0, i) \o (Slice(data, i, j) \o Slice(data, j, k))
  BY <1>2, <1>3, ThreeSlices
<1>6. Slice(data, 0, i) = BackupMagic /\ Slice(data, i, j) = Salt(data)
      /\ Slice(data, j, h) = StoredParams(data)
  BY <1>1, Zenon DEF Recognises, Salt, StoredParams
<1> QED
  BY <1>1, <1>2, <1>4, <1>5, <1>6, Zenon

\* A file that opens is a backup, whole, and opens to what it was exported of.
LEMMA OpenedIsWhole ==
  ASSUME exported \in Seq(BackupSet), NEW data \in Bytes, NEW passphrase,
         ImportBackup(data, passphrase).tag = "ok"
  PROVE  \E n \in DOMAIN exported :
           /\ data = exported[n].bytes
           /\ passphrase = exported[n].sealed.key.passphrase
           /\ ImportBackup(data, passphrase).value = exported[n].sealed.data
<1>0. PICK key, blob :
        /\ key = DeriveKek(passphrase, Salt(data), StoredParams(data))
        /\ blob = Slice(data, HeaderLen, Len(data))
  OBVIOUS
<1>1. /\ Recognises(data)
      /\ ImportBackup(data, passphrase) = OpenBlob(key, blob, SealedBackups)
  <2>1. ImportBackup(data, passphrase) # Err("decode")
    BY DEF Err
  <2> QED
    BY <1>0, <2>1, Imported, Zenon
<1>2. PICK s \in SealedBackups :
        s.key = key /\ s.blob = blob /\ OpenBlob(key, blob, SealedBackups).value = s.data
  <2>1. OpenBlob(key, blob, SealedBackups).tag = "ok"
    BY <1>1, Zenon
  <2> QED
    BY <2>1, OpenedWasSealed
<1>3. PICK n \in DOMAIN exported : s = exported[n].sealed
  BY <1>2 DEF SealedBackups
<1>4. PICK p \in Passphrase, salt \in RandomBytes(SaltLen),
           nonce \in RandomBytes(NonceLen), m \in Nat :
        exported[n] = BackupOf(p, salt, nonce, m)
  BY <1>3, MadeIsBackup
<1>5. /\ exported[n].bytes = Header(salt) \o SealedBlob(nonce)
      /\ s.key = DeriveKek(p, salt, Params("constrained"))
      /\ s.blob = SealedBlob(nonce)
  BY <1>3, <1>4 DEF BackupOf
<1>6. /\ passphrase = s.key.passphrase /\ Salt(data) = salt
      /\ StoredParams(data) = Params("constrained")
  BY <1>0, <1>2, <1>5 DEF DeriveKek
<1>7. data = exported[n].bytes
  <2>1. PICK magic \in Bytes, params \in Bytes :
          magic = BackupMagic /\ params = Params("constrained")
    BY HeaderParts
  <2>2. salt \in Bytes /\ blob \in Bytes
    BY <1>2, <1>5, RandomIsBytes, BlobIsBytes, BackupLengths
  <2>3. \A x \in Bytes : (magic \o salt) \o x = magic \o (salt \o x)
    BY <2>2, JoinAssociative, Zenon
  <2>4. PICK rest \in Bytes : rest = params \o blob
    BY <2>2, JoinBytes, Zenon
  <2>5. PICK front \in Bytes : front = magic \o salt
    BY <2>2, JoinBytes, Zenon
  <2>6. data = magic \o (salt \o rest)
    BY <1>0, <1>1, <1>6, <2>1, <2>4, HeaderAndBlob, Zenon
  <2>7. (front \o params) \o blob = front \o (params \o blob)
    BY <2>2, JoinAssociative, Zenon
  <2>8. exported[n].bytes = (front \o params) \o blob
    BY <1>2, <1>5, <2>1, <2>5, Zenon DEF Header
  <2> QED
    BY <2>3, <2>4, <2>5, <2>6, <2>7, <2>8, Zenon
<1> QED
  BY <1>1, <1>2, <1>3, <1>6, <1>7, Zenon

\* A backup, whole, opens with its passphrase.
LEMMA WholeBackupOpens ==
  ASSUME exported \in Seq(BackupSet), NEW n \in DOMAIN exported
  PROVE  ImportBackup(exported[n].bytes, exported[n].sealed.key.passphrase).tag = "ok"
<1>1. PICK p \in Passphrase, salt \in RandomBytes(SaltLen),
           nonce \in RandomBytes(NonceLen), m \in Nat :
        exported[n] = BackupOf(p, salt, nonce, m)
  BY MadeIsBackup
<1>2. PICK e : e = Header(salt) \o SealedBlob(nonce)
  OBVIOUS
<1>3. PICK key, blob : key = DeriveKek(p, salt, Params("constrained")) /\ blob = SealedBlob(nonce)
  OBVIOUS
<1>4. /\ exported[n].bytes = e /\ exported[n].sealed.key = key /\ exported[n].sealed.blob = blob
      /\ key.passphrase = p
  BY <1>1, <1>2, <1>3 DEF BackupOf, DeriveKek
<1>5. /\ e \in Bytes /\ Len(e) = HeaderLen + (NonceLen + (DataLen + TagLen))
      /\ Slice(e, 0, MagicLen) = BackupMagic /\ Salt(e) = salt
      /\ StoredParams(e) = Params("constrained")
      /\ Slice(e, HeaderLen, Len(e)) = blob
  BY <1>2, <1>3, BackupParts
<1>6. Recognises(e)
  BY <1>5, BackupLengths DEF Recognises
<1>7. ImportBackup(e, p) = OpenBlob(key, blob, SealedBackups)
  <2>1. StoredParams(e) \in KnownParams /\ StoredParams(e) # <<>>
    BY <1>5 DEF KnownParams, Params
  <2>2. ProfileParams(e) = StoredParams(e)
    BY <2>1 DEF ProfileParams
  <2>3. ~(Panic \in {Salt(e), StoredParams(e)})
    BY <1>5, <1>6, InBounds
  <2> QED
    BY <1>3, <1>5, <1>6, <2>1, <2>2, <2>3, Zenon DEF ImportBackup
<1>8. blob # Panic /\ ~(Len(blob) < NonceLen)
  <2>1. Slice(e, HeaderLen, Len(e)) # Panic
    BY <1>5, <1>6, InBounds
  <2>2. Len(blob) = NonceLen + (DataLen + TagLen)
    BY <1>3, BlobIsBytes, BackupLengths
  <2> QED
    BY <1>5, <2>1, <2>2, BackupLengths
<1>9. OpenBlob(key, blob, SealedBackups).tag = "ok"
  <2>1. exported[n].sealed \in SealedBackups
    BY DEF SealedBackups
  <2> QED
    BY <1>4, <1>8, <2>1, SealedOpens, Zenon
<1> QED
  BY <1>4, <1>7, <1>9, Zenon

-----------------------------------------------------------------------------
(* The theorems.                                                           *)

\* Every backup exported has the one format of src/backup.rs, header and sealed
\* data, a file stays a string of bytes, and an answer is data or one error.
THEOREM BackupsTypes == BackupsSpec => []BackupsTypeOK
<1>1. BackupsInv => BackupsTypeOK
  <2> SUFFICES ASSUME BackupsInv PROVE BackupsTypeOK
    OBVIOUS
  <2>1. \A n \in DOMAIN exported :
          /\ exported[n].bytes \in Seq(0 .. 255)
          /\ Len(exported[n].bytes) = HeaderLen + NonceLen + DataLen + TagLen
    BY ExportedBytes, BackupLengths DEF BackupsInv, Bytes
  <2>2. attempt # None => attempt.result.tag \in {"ok", "flow", "panic"}
    BY ImportNoPanic DEF BackupsInv
  <2> QED
    BY <2>1, <2>2 DEF BackupsInv, BackupsTypeOK, Bytes
<1> QED
  BY <1>1, BackupsAlways, PTL

\* Whatever became of a file, import_backup refuses it or opens it: no slice
\* it takes is out of bounds, of any file of any length.
THEOREM AFileIsReadWithinBounds == BackupsSpec => []ImportNeverPanics
<1>1. BackupsInv => ImportNeverPanics
  BY ImportNoPanic DEF BackupsInv, ImportNeverPanics
<1> QED
  BY <1>1, BackupsAlways, PTL

\* What import_backup returns was exported, in a file that is that export
\* byte for byte, by who knew this passphrase: for any lengths and any
\* faults, although the header is not authenticated.
THEOREM OnlyAWholeBackupOpens == BackupsSpec => []RestoresOnlyWhole
<1>1. BackupsInv => RestoresOnlyWhole
  <2> SUFFICES ASSUME BackupsInv, attempt # None, attempt.result.tag = "ok"
               PROVE  \E n \in DOMAIN exported :
                        /\ file = exported[n].bytes
                        /\ attempt.passphrase = exported[n].sealed.key.passphrase
                        /\ attempt.result.value = exported[n].sealed.data
    BY DEF RestoresOnlyWhole
  <2>1. file \in Bytes /\ attempt.result = FlowResult(file, attempt.passphrase)
    BY DEF BackupsInv
  <2>2. attempt.result = ImportBackup(file, attempt.passphrase)
    BY <2>1 DEF FlowResult, Err
  <2> QED
    BY <2>1, <2>2, OpenedIsWhole DEF BackupsInv
<1> QED
  BY <1>1, BackupsAlways, PTL

\* A backup that is whole opens with its passphrase, whatever else was
\* exported, before or after it.
THEOREM AWholeBackupOpens == BackupsSpec => []WholeRestores
<1>1. BackupsInv => WholeRestores
  <2> SUFFICES ASSUME BackupsInv, attempt # None, NEW n \in DOMAIN exported,
                      file = exported[n].bytes,
                      attempt.passphrase = exported[n].sealed.key.passphrase
               PROVE  attempt.result.tag = "ok"
    BY DEF WholeRestores
  <2>1. attempt.result = FlowResult(file, attempt.passphrase)
    BY DEF BackupsInv
  <2>2. ImportBackup(file, attempt.passphrase).tag = "ok"
    BY WholeBackupOpens DEF BackupsInv
  <2> QED
    BY <2>1, <2>2 DEF FlowResult
<1> QED
  BY <1>1, BackupsAlways, PTL
=============================================================================
