------------------------------- MODULE Blobs --------------------------------
(***************************************************************************)
(* Byte strings and the AEAD of src/aead.rs over them, for the two binary  *)
(* formats of the crate: shares and backups.                               *)
(*                                                                         *)
(* A byte is a number.  A sealed blob is a nonce, then bytes that mean     *)
(* nothing to who does not have the key; it opens only if this very blob   *)
(* was sealed under this very key.                                         *)
(***************************************************************************)
EXTENDS Naturals, Sequences

CONSTANTS
  None,
  Byte,       \* the bytes that occur
  Noise,      \* the values of random bytes
  NonceLen,
  TagLen,
  DataLen     \* length of the data sealed

\* What a call returns; `value' is there when `tag' is "ok".
Ok(value) == [tag |-> "ok", value |-> value]
Err(tag) == [tag |-> tag, value |-> None]

\* The bytes from (inclusive, counted from 0) to (exclusive).  A range that
\* is not within the string is a panic, and 256 is no byte.
Panic == <<256>>

Slice(s, from, to) ==
  IF from <= to /\ to <= Len(s) THEN SubSeq(s, from + 1, to) ELSE Panic

RandomBytes(len) == [1 .. len -> Noise]

\* nonce || ciphertext || tag, the last two opaque.
SealedBlob(nonce) == nonce \o [k \in 1 .. DataLen + TagLen |-> 2]

\* Opening `blob', when `sealed' is what was sealed before.
OpenBlob(key, blob, sealed) ==
  CASE blob = Panic -> Err("panic")
    [] blob # Panic /\ Len(blob) < NonceLen -> Err("decode")
    [] OTHER ->
         IF \E s \in sealed : s.key = key /\ s.blob = blob
           THEN Ok((CHOOSE s \in sealed : s.key = key /\ s.blob = blob).data)
           ELSE Err("wrong_key")

\* The first k bytes of one, and those of another after them.
Spliced(s, t, k) == SubSeq(s, 1, k) \o SubSeq(t, k + 1, Len(t))

\* A byte string, whole or not, after one fault in transit: cut short, one
\* byte more, one byte changed, or continued by another from some place on.
Damaged(s, others) ==
  {SubSeq(s, 1, k) : k \in 0 .. Len(s)}
    \cup {Append(s, b) : b \in Byte}
    \cup {[s EXCEPT ![k] = b] : k \in DOMAIN s, b \in Byte}
    \cup {Spliced(s, t, k) : k \in 0 .. Len(s), t \in others}
=============================================================================
