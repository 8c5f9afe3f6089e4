---------------------------- MODULE BlobsProofs -----------------------------
(***************************************************************************)
(* What slices and faults do to byte strings, for the theorems about       *)
(* backups and shares.                                                     *)
(***************************************************************************)
EXTENDS Blobs, SequenceTheorems, TLAPS

Bytes == Seq(0 .. 255)

\* u is the bytes of s from here (exclusive) to there.
Cuts(u, s, from, to) ==
  /\ Len(u) = to - from
  /\ \A k \in 1 .. to - from : u[k] = s[from + k]

\* A slice within the string is no panic.
LEMMA SliceBytes ==
  ASSUME NEW s \in Bytes, NEW from \in Nat, NEW to \in Nat,
         from <= to, to <= Len(s)
  PROVE  /\ Slice(s, from, to) \in Bytes /\ Slice(s, from, to) # Panic
         /\ Cuts(Slice(s, from, to), s, from, to)
<1>1. PICK u : u = SubSeq(s, from + 1, to)
  OBVIOUS
<1>2. Slice(s, from, to) = u
  BY <1>1 DEF Slice
<1>3. \A k \in (from + 1) .. to : s[k] \in 0 .. 255
  <2> TAKE k \in (from + 1) .. to
  <2>1. Len(s) \in Nat
    BY LenProperties DEF Bytes
  <2>2. k \in 1 .. Len(s)
    BY <2>1
  <2> QED
    BY <2>2, ElementOfSeq DEF Bytes
<1>4. PICK m \in Int : m = from + 1 /\ to \in Int
  OBVIOUS
<1>5. \A k \in m .. to : s[k] \in 0 .. 255
  BY <1>3, <1>4
<1>6. /\ u \in Seq(0 .. 255)
      /\ Len(u) = IF m <= to THEN to - m + 1 ELSE 0
      /\ \A k \in 1 .. to - m + 1 : u[k] = s[m + k - 1]
  <2>1. /\ SubSeq(s, m, to) \in Seq(0 .. 255)
        /\ Len(SubSeq(s, m, to)) = IF m <= to THEN to - m + 1 ELSE 0
        /\ \A k \in 1 .. to - m + 1 : SubSeq(s, m, to)[k] = s[m + k - 1]
    BY <1>4, <1>5, SubSeqProperties
  <2> QED
    BY <1>1, <1>4, <2>1, Zenon
<1>7. Len(u) = to - from
  BY <1>4, <1>6
<1>8. \A k \in 1 .. to - from : u[k] = s[from + k]
  <2> TAKE k \in 1 .. to - from
  <2>1. k \in 1 .. to - m + 1 /\ m + k - 1 = from + k
    BY <1>4
  <2>2. u[k] = s[m + k - 1]
    BY <1>6, <2>1, Zenon
  <2> QED
    BY <2>1, <2>2, Zenon
<1>9. u # Panic
  <2>1. SUFFICES ASSUME u = Panic PROVE FALSE
    OBVIOUS
  <2>2. Len(u) = 1 /\ u[1] = 256
    BY <2>1 DEF Panic
  <2>3. 1 \in 1 .. Len(u)
    BY <2>2
  <2>4. u[1] \in 0 .. 255
    BY <1>6, <2>3, ElementOfSeq, Zenon
  <2> QED
    BY <2>2, <2>4
<1> QED
  BY <1>2, <1>6, <1>7, <1>8, <1>9, Zenon DEF Bytes, Cuts

\* The same, with a name.
LEMMA TheSlice ==
  ASSUME NEW s \in Bytes, NEW from \in Nat, NEW to \in Nat,
         from <= to, to <= Len(s)
  PROVE  \E u \in Bytes : u = Slice(s, from, to) /\ Cuts(u, s, from, to)
BY SliceBytes, Zenon

\* Two strings with the same bytes are the same.
LEMMA SameBytes ==
  ASSUME NEW s \in Bytes, NEW t \in Bytes, NEW n \in Nat, Len(s) = n, Len(t) = n,
         \A k \in 1 .. n : s[k] = t[k]
  PROVE  s = t
BY SeqEqual DEF Bytes

LEMMA JoinBytes ==
  ASSUME NEW s \in Bytes, NEW t \in Bytes
  PROVE  /\ s \o t \in Bytes /\ Len(s) \in Nat /\ Len(t) \in Nat
         /\ Len(s \o t) = Len(s) + Len(t)
         /\ \A k \in 1 .. Len(s) + Len(t) :
              (s \o t)[k] = IF k <= Len(s) THEN s[k] ELSE t[k - Len(s)]
<1>1. Len(s) \in Nat /\ Len(t) \in Nat
  BY LenProperties DEF Bytes
<1>2. /\ s \o t \in Seq(0 .. 255) /\ Len(s \o t) = Len(s) + Len(t)
      /\ \A k \in 1 .. Len(s) + Len(t) :
           (s \o t)[k] = IF k <= Len(s) THEN s[k] ELSE t[k - Len(s)]
  BY ConcatProperties, Zenon DEF Bytes
<1> QED
  BY <1>1, <1>2, Zenon DEF Bytes

\* A slice and the one after it.
LEMMA SlicesJoin ==
  ASSUME NEW s \in Bytes, NEW from \in Nat, NEW mid \in Nat, NEW to \in Nat,
         from <= mid, mid <= to, to <= Len(s)
  PROVE  Slice(s, from, mid) \o Slice(s, mid, to) = Slice(s, from, to)
<1>1. PICK len \in Nat : len = Len(s)
  BY LenProperties DEF Bytes
<1>2. mid <= len /\ from <= to /\ mid <= Len(s)
  BY <1>1
<1>3. PICK a \in Bytes :
        /\ a = Slice(s, from, mid) /\ Len(a) = mid - from
        /\ \A k \in 1 .. mid - from : a[k] = s[from + k]
  BY <1>2, TheSlice, Zenon DEF Cuts
<1>4. PICK b \in Bytes :
        /\ b = Slice(s, mid, to) /\ Len(b) = to - mid
        /\ \A k \in 1 .. to - mid : b[k] = s[mid + k]
  BY TheSlice, Zenon DEF Cuts
<1>5. PICK c \in Bytes :
        /\ c = Slice(s, from, to) /\ Len(c) = to - from
        /\ \A k \in 1 .. to - from : c[k] = s[from + k]
  BY <1>2, TheSlice, Zenon DEF Cuts
<1>6. PICK j \in Bytes :
        /\ j = a \o b /\ Len(j) = Len(a) + Len(b)
        /\ \A k \in 1 .. Len(a) + Len(b) : j[k] = IF k <= Len(a) THEN a[k] ELSE b[k - Len(a)]
  BY JoinBytes, Zenon
<1>7. to - from \in Nat /\ Len(j) = to - from /\ Len(a) + Len(b) = to - from
  BY <1>2, <1>3, <1>4, <1>6
<1>8. \A k \in 1 .. to - from : j[k] = c[k]
  <2> TAKE k \in 1 .. to - from
  <2>1. CASE k <= mid - from
    <3>1. j[k] = a[k]
      BY <1>3, <1>6, <1>7, <2>1
    <3> QED
      BY <1>3, <1>5, <2>1, <3>1
  <2>2. CASE ~(k <= mid - from)
    <3>1. j[k] = b[k - (mid - from)]
      BY <1>3, <1>6, <1>7, <2>2
    <3>2. k - (mid - from) \in 1 .. to - mid /\ mid + (k - (mid - from)) = from + k
      BY <2>2
    <3> QED
      BY <1>4, <1>5, <3>1, <3>2
  <2> QED
    BY <2>1, <2>2
<1>9. j = c
  BY <1>5, <1>7, <1>8, SameBytes
<1> QED
  BY <1>3, <1>4, <1>5, <1>6, <1>9, Zenon

LEMMA SliceAll ==
  ASSUME NEW s \in Bytes
  PROVE  Len(s) \in Nat /\ Slice(s, 0, Len(s)) = s
<1>1. Len(s) \in Nat
  BY LenProperties DEF Bytes
<1>2. Slice(s, 0, Len(s)) = SubSeq(s, 1, Len(s))
  BY <1>1 DEF Slice
<1> QED
  BY <1>1, <1>2, SubSeqFull DEF Bytes

\* The first part of a string of two.
LEMMA FirstSlice ==
  ASSUME NEW a \in Bytes, NEW b \in Bytes
  PROVE  Slice(a \o b, 0, Len(a)) = a
<1>1. PICK n \in Nat, m \in Nat : n = Len(a) /\ m = Len(b)
  BY LenProperties DEF Bytes
<1>2. PICK j \in Bytes :
        /\ j = a \o b /\ Len(j) = n + m
        /\ \A k \in 1 .. n + m : j[k] = IF k <= n THEN a[k] ELSE b[k - n]
  BY <1>1, JoinBytes, Zenon
<1>3. PICK u \in Bytes : u = Slice(j, 0, n) /\ Cuts(u, j, 0, n)
  <2>1. 0 \in Nat /\ 0 <= n /\ n <= Len(j)
    BY <1>1, <1>2
  <2> QED
    BY <2>1, TheSlice, Zenon
<1>4. Len(u) = n /\ \A k \in 1 .. n : u[k] = a[k]
  BY <1>1, <1>2, <1>3 DEF Cuts
<1>5. u = a
  BY <1>1, <1>4, SameBytes
<1> QED
  BY <1>1, <1>2, <1>3, <1>5, Zenon

\* What is within the second part.
LEMMA LaterSlice ==
  ASSUME NEW a \in Bytes, NEW b \in Bytes, NEW from \in Nat, NEW to \in Nat,
         from <= to, to <= Len(b)
  PROVE  Slice(a \o b, Len(a) + from, Len(a) + to) = Slice(b, from, to)
<1>1. PICK n \in Nat, m \in Nat : n = Len(a) /\ m = Len(b)
  BY LenProperties DEF Bytes
<1>2. PICK j \in Bytes :
        /\ j = a \o b /\ Len(j) = n + m
        /\ \A k \in 1 .. n + m : j[k] = IF k <= n THEN a[k] ELSE b[k - n]
  BY <1>1, JoinBytes, Zenon
<1>3. PICK len \in Nat : len = to - from
  OBVIOUS
<1>4. PICK u \in Bytes :
        u = Slice(j, n + from, n + to) /\ Cuts(u, j, n + from, n + to)
  <2>1. /\ n + from \in Nat /\ n + to \in Nat
        /\ n + from <= n + to /\ n + to <= Len(j)
    BY <1>1, <1>2
  <2> QED
    BY <2>1, TheSlice, Zenon
<1>5. PICK v \in Bytes : v = Slice(b, from, to) /\ Cuts(v, b, from, to)
  BY TheSlice, Zenon
<1>6. /\ Len(u) = len /\ \A k \in 1 .. len : u[k] = j[(n + from) + k]
      /\ Len(v) = len /\ \A k \in 1 .. len : v[k] = b[from + k]
  <2>1. (n + to) - (n + from) = len
    BY <1>3
  <2> QED
    BY <1>3, <1>4, <1>5, <2>1, Zenon DEF Cuts
<1>7. \A k \in 1 .. len : u[k] = v[k]
  <2> TAKE k \in 1 .. len
  <2>1. /\ (n + from) + k \in 1 .. n + m /\ ~((n + from) + k <= n)
        /\ ((n + from) + k) - n = from + k
    BY <1>1, <1>3
  <2> QED
    BY <1>2, <1>6, <2>1
<1>8. u = v
  BY <1>6, <1>7, SameBytes
<1> QED
  BY <1>1, <1>2, <1>4, <1>5, <1>8, Zenon

\* A fault leaves a byte string.
LEMMA DamagedBytes ==
  ASSUME NEW s \in Bytes, NEW others \in SUBSET Bytes, Byte \subseteq 0 .. 255
  PROVE  Damaged(s, others) \subseteq Bytes
<1>1. Len(s) \in Nat /\ DOMAIN s = 1 .. Len(s)
  BY LenProperties DEF Bytes
<1>2. ASSUME NEW u \in Bytes, NEW m \in Nat, NEW n \in Nat, n <= Len(u)
      PROVE  SubSeq(u, m + 1, n) \in Bytes
  <2>1. Len(u) \in Nat
    BY LenProperties DEF Bytes
  <2>2. PICK first \in Int : first = m + 1 /\ n \in Int
    OBVIOUS
  <2>3. \A i \in first .. n : u[i] \in 0 .. 255
    <3> TAKE i \in first .. n
    <3>1. i \in 1 .. Len(u)
      BY <1>2, <2>1, <2>2
    <3> QED
      BY <3>1, ElementOfSeq DEF Bytes
  <2>4. SubSeq(u, first, n) \in Seq(0 .. 255)
    BY <2>2, <2>3, SubSeqProperties
  <2> QED
    BY <2>2, <2>4 DEF Bytes
<1>3. ASSUME NEW k \in 0 .. Len(s)
      PROVE  SubSeq(s, 1, k) \in Bytes
  <2>1. k \in Nat /\ k <= Len(s) /\ 0 \in Nat /\ 0 + 1 = 1
    BY <1>1
  <2> QED
    BY <1>2, <2>1
<1>4. ASSUME NEW b \in Byte
      PROVE  Append(s, b) \in Bytes
  BY AppendProperties DEF Bytes
<1>5. ASSUME NEW k \in DOMAIN s, NEW b \in Byte
      PROVE  [s EXCEPT ![k] = b] \in Bytes
  <2>1. k \in 1 .. Len(s) /\ b \in 0 .. 255
    BY <1>1
  <2> QED
    BY <2>1, ExceptSeq DEF Bytes
<1>6. ASSUME NEW k \in 0 .. Len(s), NEW t \in others
      PROVE  Spliced(s, t, k) \in Bytes
  <2>1. t \in Bytes /\ Len(t) \in Nat /\ Len(t) <= Len(t) /\ k \in Nat
    BY <1>1, LenProperties DEF Bytes
  <2>2. SubSeq(t, k + 1, Len(t)) \in Bytes
    BY <1>2, <2>1
  <2> QED
    BY <1>3, <2>2, ConcatProperties DEF Bytes, Spliced
<1> SUFFICES ASSUME NEW u \in Damaged(s, others) PROVE u \in Bytes
  OBVIOUS
<1>7. \/ \E k \in 0 .. Len(s) : u = SubSeq(s, 1, k)
      \/ \E b \in Byte : u = Append(s, b)
      \/ \E k \in DOMAIN s, b \in Byte : u = [s EXCEPT ![k] = b]
      \/ \E k \in 0 .. Len(s), t \in others : u = Spliced(s, t, k)
  BY DEF Damaged
<1> QED
  BY <1>3, <1>4, <1>5, <1>6, <1>7, Zenon

\* What opens was sealed, under this key and as this very blob.
LEMMA OpenedWasSealed ==
  ASSUME NEW key, NEW blob, NEW sealed, OpenBlob(key, blob, sealed).tag = "ok"
  PROVE  \E s \in sealed :
           /\ s.key = key /\ s.blob = blob
           /\ OpenBlob(key, blob, sealed).value = s.data
<1> DEFINE Fits(s) == s.key = key /\ s.blob = blob
<1>1. CASE blob = Panic
  BY <1>1 DEF OpenBlob, Err
<1>2. CASE blob # Panic /\ Len(blob) < NonceLen
  BY <1>2 DEF OpenBlob, Err
<1>3. CASE ~(blob = Panic) /\ ~(blob # Panic /\ Len(blob) < NonceLen)
  <2>1. CASE \E s \in sealed : Fits(s)
    <3>1. PICK s : s = CHOOSE x \in sealed : Fits(x)
      OBVIOUS
    <3>2. s \in sealed /\ Fits(s)
      BY <2>1, <3>1
    <3>3. OpenBlob(key, blob, sealed) = Ok(s.data)
      BY <1>3, <2>1, <3>1 DEF OpenBlob
    <3> QED
      BY <3>2, <3>3 DEF Ok
  <2>2. CASE ~(\E s \in sealed : Fits(s))
    BY <1>3, <2>2 DEF OpenBlob, Err
  <2> QED
    BY <2>1, <2>2
<1> QED
  BY <1>1, <1>2, <1>3

\* What was sealed opens.
LEMMA SealedOpens ==
  ASSUME NEW key, NEW blob, NEW sealed, NEW s \in sealed,
         s.key = key, s.blob = blob, blob # Panic, ~(Len(blob) < NonceLen)
  PROVE  OpenBlob(key, blob, sealed).tag = "ok"
BY DEF OpenBlob, Ok

\* Opening panics on no blob but an impossible one.
LEMMA OpenNoPanic ==
  ASSUME NEW key, NEW blob, NEW sealed, blob # Panic
  PROVE  OpenBlob(key, blob, sealed).tag \in {"ok", "decode", "wrong_key"}
BY DEF OpenBlob, Ok, Err

LEMMA JoinAssociative ==
  ASSUME NEW a \in Bytes, NEW b \in Bytes, NEW c \in Bytes
  PROVE  (a \o b) \o c = a \o (b \o c)
BY ConcatAssociative DEF Bytes

\* e is a, b and c, which end at i, j and k.
Parts(e, a, i, b, j, c, k) ==
  /\ e \in Bytes /\ Len(e) = k
  /\ Slice(e, 0, i) = a /\ Slice(e, i, j) = b /\ Slice(e, j, k) = c

\* The parts of a string made of three, and of any string cut in three.
LEMMA ThreeParts ==
  ASSUME NEW a \in Bytes, NEW b \in Bytes, NEW c \in Bytes,
         NEW i \in Nat, NEW j \in Nat, NEW k \in Nat,
         i = Len(a), j = i + Len(b), k = j + Len(c)
  PROVE  Parts(a \o (b \o c), a, i, b, j, c, k)
<1>1. PICK m \in Nat, n \in Nat : m = Len(b) /\ n = Len(c)
  BY LenProperties DEF Bytes
<1>2. PICK r \in Bytes : r = b \o c /\ Len(r) = m + n
  BY <1>1, JoinBytes, Zenon
<1>3. a \o r \in Bytes /\ Len(a \o r) = k
  <2>1. a \o r \in Bytes /\ Len(a \o r) = Len(a) + Len(r)
    BY JoinBytes, Zenon
  <2>2. Len(a) + Len(r) = k
    BY <1>1, <1>2
  <2> QED
    BY <2>1, <2>2, Zenon
<1>4. Slice(r, 0, m) = b /\ Slice(r, m, m + n) = c
  <2>1. /\ 0 \in Nat /\ 0 <= n /\ n <= Len(c) /\ m + 0 = m
    BY <1>1
  <2>2. Slice(b \o c, 0, Len(b)) = b
    BY FirstSlice, Zenon
  <2>3. Slice(b \o c, Len(b) + 0, Len(b) + n) = Slice(c, 0, n)
    BY <2>1, LaterSlice
  <2>4. Slice(c, 0, n) = c
    BY <1>1, SliceAll, Zenon
  <2> QED
    BY <1>1, <1>2, <2>1, <2>2, <2>3, <2>4, Zenon
<1>5. Slice(a \o r, 0, i) = a
  BY FirstSlice, Zenon
<1>6. Slice(a \o r, i + 0, i + m) = b /\ Slice(a \o r, i + m, i + (m + n)) = c
  <2>1. /\ 0 \in Nat /\ 0 <= m /\ m <= Len(r)
        /\ m + n \in Nat /\ m <= m + n /\ m + n <= Len(r)
    BY <1>2
  <2>2. Slice(a \o r, Len(a) + 0, Len(a) + m) = Slice(r, 0, m)
    BY <2>1, LaterSlice
  <2>3. Slice(a \o r, Len(a) + m, Len(a) + (m + n)) = Slice(r, m, m + n)
    BY <2>1, LaterSlice
  <2> QED
    BY <1>4, <2>2, <2>3, Zenon
<1>7. i + 0 = i /\ i + m = j /\ i + (m + n) = k
  BY <1>1
<1> QED
  BY <1>2, <1>3, <1>5, <1>6, <1>7, Zenon DEF Parts

LEMMA ThreeSlices ==
  ASSUME NEW e \in Bytes, NEW i \in Nat, NEW j \in Nat, i <= j, j <= Len(e)
  PROVE  e = Slice(e, 0, i) \o (Slice(e, i, j) \o Slice(e, j, Len(e)))
<1>1. PICK k \in Nat : k = Len(e)
  BY LenProperties DEF Bytes
<1>2. 0 \in Nat /\ 0 <= i /\ i <= k /\ j <= k /\ k <= Len(e)
  BY <1>1
<1>3. Slice(e, i, j) \o Slice(e, j, k) = Slice(e, i, k)
  BY <1>2, SlicesJoin, Zenon
<1>4. Slice(e, 0, i) \o Slice(e, i, k) = Slice(e, 0, k)
  BY <1>2, SlicesJoin, Zenon
<1>5. Slice(e, 0, k) = e
  BY <1>1, SliceAll, Zenon
<1> QED
  BY <1>1, <1>3, <1>4, <1>5, Zenon

\* Random bytes and sealed blobs are byte strings of their length.
LEMMA RandomIsBytes ==
  ASSUME NEW n \in Nat, NEW r \in RandomBytes(n), Noise \subseteq 0 .. 255
  PROVE  r \in Bytes /\ Len(r) = n
<1>1. r \in [1 .. n -> 0 .. 255]
  BY DEF RandomBytes
<1>2. r \in Seq(0 .. 255)
  BY <1>1, SeqDef
<1> QED
  BY <1>1, <1>2, LenProperties DEF Bytes

LEMMA BlobIsBytes ==
  ASSUME NonceLen \in Nat, DataLen \in Nat, TagLen \in Nat, Noise \subseteq 0 .. 255,
         NEW nonce \in RandomBytes(NonceLen)
  PROVE  SealedBlob(nonce) \in Bytes /\ Len(SealedBlob(nonce)) = NonceLen + (DataLen + TagLen)
<1>1. PICK n \in Nat : n = DataLen + TagLen
  OBVIOUS
<1>2. PICK rest : rest = [k \in 1 .. n |-> 2]
  OBVIOUS
<1>3. rest \in [1 .. n -> 0 .. 255]
  BY <1>2
<1>4. rest \in Seq(0 .. 255)
  BY <1>3, SeqDef
<1>5. rest \in Bytes /\ Len(rest) = n
  BY <1>3, <1>4, LenProperties DEF Bytes
<1>6. nonce \in Bytes /\ Len(nonce) = NonceLen
  BY RandomIsBytes
<1>7. nonce \o rest \in Bytes /\ Len(nonce \o rest) = Len(nonce) + Len(rest)
  BY <1>5, <1>6, JoinBytes, Zenon
<1>8. SealedBlob(nonce) = nonce \o rest
  BY <1>1, <1>2, Zenon DEF SealedBlob
<1> QED
  BY <1>1, <1>5, <1>6, <1>7, <1>8, Zenon

\* What a slice out of bounds yields is no byte string.
LEMMA BytesNoPanic ==
  ASSUME NEW s \in Bytes
  PROVE  s # Panic
<1>1. Len(Panic) = 1 /\ Panic[1] = 256
  BY DEF Panic
<1>2. ASSUME Len(s) = 1 PROVE s[1] \in 0 .. 255
  <2>1. 1 \in 1 .. Len(s)
    BY <1>2
  <2> QED
    BY <2>1, ElementOfSeq DEF Bytes
<1> QED
  BY <1>1, <1>2

LEMMA OpenedIsOk ==
  ASSUME NEW key, NEW blob, NEW sealed, OpenBlob(key, blob, sealed).tag = "ok"
  PROVE  OpenBlob(key, blob, sealed) = Ok(OpenBlob(key, blob, sealed).value)
<1>1. PICK r : r = OpenBlob(key, blob, sealed)
  OBVIOUS
<1>2. r \in {Err("panic"), Err("decode"), Err("wrong_key")} \/ \E value : r = Ok(value)
  BY <1>1, Zenon DEF OpenBlob
<1>3. r.tag = "ok"
  BY <1>1, Zenon
<1>4. PICK value : r = Ok(value)
  BY <1>2, <1>3 DEF Err
<1>5. r.value = value
  BY <1>4 DEF Ok
<1> QED
  BY <1>1, <1>4, <1>5, Zenon
=============================================================================
