--------------------------- MODULE CallsProperties ---------------------------
(***************************************************************************)
(* What a caller may conclude from what a call returns.                    *)
(***************************************************************************)
EXTENDS Calls

\* The arguments that have one of these faults.
Having(kinds) == {a \in Arguments(adapter) : faults[a] \in kinds}

Faulty == {a \in Arguments(adapter) : faults[a] # "none"}

\* What one has to know, as opposed to what one has been given to keep.
Credentials ==
  {"passphrase", "old_passphrase", "new_passphrase", "recovery_code", "prf_secret_b64",
   "secret_key_b64", "old_secret_key_b64", "identity_secret_b64", "key_b64", "nk_b64",
   "key_blob", "salt_b64", "aad"}

\* The faults the core cannot notice: of what a new secret is made from, of what
\* is only signed, hashed or looked at, and of a signature, which the answer
\* itself says does not match; and those parameters of a wrapped AUK that do not
\* matter to how it opens: any that are not Native's stand for Constrained
\* (auk.rs:74), and a wrap under a key has none that are read (auk.rs:86-93).
TakenAsGiven ==
  ({"create_vault", "create_vault_profile", "export_backup"}
     \X {"passphrase"} \X {"wrong"})
    \union ({"reset_passphrase", "change_passphrase"} \X {"new_passphrase"} \X {"wrong"})
    \union ({"verify_message"} \X {"sign_pubkey_b64", "msg", "sig_b64"} \X {"wrong"})
    \union ({"sign_message", "amk_sign", "amk_sign_prf"} \X {"msg"} \X {"wrong"})
    \union ({"seal_symmetric"} \X {"key_b64", "aad"} \X {"wrong"})
    \union ({"ns_wrap_nk"} \X {"nk_b64", "passphrase", "salt_b64"} \X {"wrong"})
    \union ({"ns_wrap_nk", "ns_nk_hash"} \X {"nk_b64"} \X {"wrong", "length"})
    \union ({"ns_is_protected"} \X {"protected"} \X Faults("protected"))
    \union ({"unlock_vault", "change_passphrase", "rotate_secret_key",
             "rotate_recovery_code", "rotate_identity", "enroll_prf", "amk_ensure",
             "amk_sign"} \X {"wrapped_auk_json"} \X {"params"})
    \union ({"unlock_recovery", "reset_passphrase"}
              \X {"wrapped_recovery_json"} \X {"params"})
    \union ({"unlock_prf", "amk_ensure_prf", "amk_sign_prf"}
              \X {"wrapped_auk_prf_json"} \X {"params"})
    \union {<<"reset_passphrase", "secret_key_b64", "wrong">>,
            <<"enroll_prf", "prf_secret_b64", "wrong">>,
            <<"sign_message", "identity_secret_b64", "wrong">>,
            <<"ns_protect_value", "nk_b64", "wrong">>,
            <<"message_digest", "aad", "wrong">>}

Unnoticed(a) == <<adapter, a, faults[a]>> \in TakenAsGiven

\* In these blobs every fault is put down to the credential they open with.
Lumped ==
  {"wrapped_auk_json", "wrapped_recovery_json", "wrapped_auk_prf_json", "data", "blob"}

-----------------------------------------------------------------------------
\* Both bindings give the same result, the same flow over the same arguments,
\* or fail with the same text: "the wasm, UniFFI and native surfaces stay
\* byte-for-byte identical" (wasm.rs:1-3).
SurfacesAgree ==
  answer # None =>
    \/ answer.uniffi.ok /\ answer.wasm = answer.uniffi
    \/ /\ ~answer.uniffi.ok /\ ~answer.wasm.ok
       /\ answer.wasm.failure.message = answer.uniffi.failure.message

\* A call that succeeds had nothing wrong with its arguments but what the core
\* cannot notice, and gave each to the parameter that is meant: no order of the
\* checks, no early return and no adapter lets one past.  It is no promise that
\* every damaged wrap is refused: one whose parameters are damaged and stand for
\* Constrained before and after opens, as TakenAsGiven says.
NothingBadOpens ==
  answer # None /\ answer.uniffi.ok =>
    /\ \A a \in Faulty : Unnoticed(a)
    /\ \A p \in DOMAIN answer.uniffi.bound : answer.uniffi.bound[p] = p

\* A failure's category can be believed.  Where only credentials are wrong, each
\* well-formed and of its kind, it says so, while a key blob for the other cipher,
\* a credential too, is an encoding at fault (share.rs:146-148); and where it says so, a credential is wrong, a ciphertext was
\* changed, or the fault is in a blob whose every fault is put down to the
\* credential (flows.rs:135-136, error.rs:57-64).  No call ends in "Other".
BlameIsDeserved ==
  /\ answer # None /\ Faulty # {}
       /\ (\A a \in Faulty : faults[a] = "wrong" /\ a \in Credentials /\ ~Unnoticed(a))
     => Failed("WrongCredential")
  /\ Failed("WrongCredential") =>
       \/ Having({"wrong"}) \intersect Credentials # {}
       \/ Having({"altered"}) # {}
       \/ Faulty \intersect Lumped # {}
  /\ Failed("Json") => Having({"json"}) # {}
  /\ Failed("Encoding") =>
       Having({"text", "version", "envelope", "cipher", "shape", "short", "length", "utf8"})
         # {}
  /\ Failed("InvalidInput") => Having({"length", "shape", "unknown", "empty", "utf8"}) # {}
  /\ ~Failed("Other")

\* A caller that goes by the category alone gets its result in the end,
\* whatever was wrong and however much of it: every fault is reported in a
\* category that makes it replace what is at fault.
EveryCallSettles == <>(answer # None /\ answer.uniffi.ok)
=============================================================================
