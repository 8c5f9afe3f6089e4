------------------------------- MODULE Flows --------------------------------
(***************************************************************************)
(* What each flow of src/flows.rs examines, in which order, and what it    *)
(* says when it finds a fault.  Vault, Items, Shares and Backups have the  *)
(* successful path of most of these flows; here are all of them, with      *)
(* their failures.                                                         *)
(*                                                                         *)
(* An argument has at most one fault:                                      *)
(*   wrong     well-formed, but not the one the rest was made with         *)
(*   text      base64 that does not decode                                 *)
(*   shape     a part of the text is missing or unknown                    *)
(*   json      not JSON of the expected shape                              *)
(*   version   a version or magic number not known, or parameters that are *)
(*             refused for it                                              *)
(*   envelope  the version of an item's wrap is not known                  *)
(*   cipher    a key blob, but for the cipher that the envelope is not of  *)
(*   salt      a salt too short for Argon2                                 *)
(*   kdf       a salt, or parameters, that make another key than the true  *)
(*   params    parameters that are wrong and make the same key, or that,   *)
(*             like a wrap's method, are not read: see unwrap_with_kek and *)
(*             the profile that unwrap_with_passphrase reconstructs        *)
(*   short     a sealed blob shorter than its nonce                        *)
(*   altered   a ciphertext that was changed, or another's                 *)
(*   length    it, or what is sealed or encoded in it, has a wrong length  *)
(*   utf8      what was sealed is no text, or no bundle                    *)
(*   empty     no recipients                                               *)
(*   unknown   an identifier that is not listed                            *)
(***************************************************************************)
EXTENDS Errors

\* One check: any of these arguments has any of these faults, and what is
\* returned then.
Checks(params, faults, error) ==
  <<[params |-> params, faults |-> faults, error |-> error]>>

Check(param, fault, error) == Checks({param}, {fault}, error)

\* Mutant: lets the failure through as it is.
Unfolded(checks, error) == checks

\* map_err(|_| error): whatever fails, this is what is said.
Folded(checks, error) == [k \in DOMAIN checks |-> [checks[k] EXCEPT !.error = error]]

-----------------------------------------------------------------------------
(* The helpers the flows share.                                            *)

FromJson(param) == Check(param, "json", Json)

Unb64(param) == Check(param, "text", Encoding)

ParseSk(param) == Unb64(param) \o Check(param, "length", Flow("bad secret key"))

\* A wrong key and an altered blob are the same to the AEAD.
OpenAead(keys, blob) ==
  Check(blob, "short", Decode)
    \o Checks({blob}, {"altered"}, WrongKey) \o Checks(keys, {"wrong"}, WrongKey)

\* Salt, parameters and method are not read.
UnwrapWithKek(wrap, kek) ==
  Checks({wrap}, {"version", "text"}, Decode)
    \o OpenAead({kek}, wrap) \o Check(wrap, "length", Decode)

\* Mutant: takes any version.
UnwrapAnyVersion(wrap, passphrase, secret_key) ==
  Check(wrap, "text", Decode) \o Check(wrap, "salt", Kdf)
    \o OpenAead({passphrase, secret_key}, wrap) \o Check(wrap, "kdf", WrongKey)
    \o Check(wrap, "length", Decode)

\* The version is checked, the parameters are not: those of Native mean Native,
\* any others Constrained.  So a native wrap with damaged ones does not open, as
\* if with a wrong passphrase, and a constrained wrap opens all the same.
UnwrapWithPassphrase(wrap, passphrase, secret_key) ==
  Checks({wrap}, {"version", "text"}, Decode) \o Check(wrap, "salt", Kdf)
    \o OpenAead({passphrase, secret_key}, wrap) \o Check(wrap, "kdf", WrongKey)
    \o Check(wrap, "length", Decode)

OpenWithPassphrase(passphrase, secret_key) ==
  Folded(UnwrapWithPassphrase("wrapped_auk_json", passphrase, secret_key),
         Flow("wrong passphrase or secret key"))

UnlockAuk(passphrase, secret_key) ==
  FromJson("wrapped_auk_json") \o ParseSk(secret_key)
    \o OpenWithPassphrase(passphrase, secret_key)

AukFromPrf ==
  FromJson("wrapped_auk_prf_json") \o Unb64("prf_secret_b64")
    \o Folded(UnwrapWithKek("wrapped_auk_prf_json", "prf_secret_b64"),
              Flow("touch id unlock failed"))

AukFromRecovery ==
  FromJson("wrapped_recovery_json")
    \o Folded(UnwrapWithKek("wrapped_recovery_json", "recovery_code"),
              Flow("wrong recovery code"))

\* Not folded: the AUK is right by now, so the blob is at fault.
UnwrapIdentity(wrapped) ==
  Check(wrapped, "text", Decode) \o OpenAead({}, wrapped) \o Check(wrapped, "length", Decode)

UnwrapAmk(wrapped) ==
  Check(wrapped, "text", Decode) \o OpenAead({}, wrapped)
    \o Check(wrapped, "length", Flow("bad amk length"))

IdentitySecret ==
  Unb64("identity_secret_b64") \o Check("identity_secret_b64", "length", Decode)

SymmetricKey ==
  Unb64("key_b64") \o Check("key_b64", "length", Flow("bad symmetric key length"))

PublicBlobs(param) == Checks({param}, {"version", "text", "length"}, Decode)

\* recover_dek, then the item: its first wrap for the key is looked up before
\* anything in it is decoded.
OpenItem ==
  Check("item_json", "version", Decode)
    \o Check("identity_secret_b64", "wrong", WrongKey)
    \o Checks({"item_json"}, {"envelope", "text", "length"}, Decode)
    \o OpenAead({}, "item_json")
    \o Check("item_json", "utf8", FromUtf8Error)

\* A key for the other cipher is told from a wrong one, before its length is
\* looked at.
OpenShare ==
  Checks({"envelope_b64"}, {"shape", "version"}, Decode)
    \o Checks({"key_blob"}, {"shape", "text"}, Decode) \o Check("key_blob", "cipher", Decode)
    \o Checks({"envelope_b64", "key_blob"}, {"length"}, Decode)
    \o OpenAead({"key_blob"}, "envelope_b64") \o Check("envelope_b64", "utf8", Decode)

\* Here parameters that are not known are refused.
OpenBackup ==
  Folded(Checks({"data"}, {"shape", "version"}, Decode)
           \o OpenAead({"passphrase"}, "data") \o Check("data", "kdf", WrongKey),
         Flow("wrong passphrase or corrupted backup"))
    \o Check("data", "utf8", FromUtf8Error)

-----------------------------------------------------------------------------
(* Namespaces: nscrypto.rs, and its wrappers, which decode the same way.   *)

NkKey == Check("nk_b64", "length", InvalidInput("namespace key must be 32 bytes"))

AesDecrypt(keys, blob) ==
  Check(blob, "shape", InvalidInput("malformed pns1 blob")) \o Unb64(blob)
    \o Check(blob, "length", InvalidInput("malformed pns1 blob"))
    \o Checks({blob}, {"altered"}, Flow("wrong namespace passphrase"))
    \o Checks(keys, {"wrong"}, Flow("wrong namespace passphrase"))

-----------------------------------------------------------------------------
(* The flows: their parameters in order, and their checks.                 *)

Signature(params, checks) == [params |-> params, checks |-> checks]

IdentityFlows ==
  [generate_identity |-> Signature(<<>>, <<>>),
   encrypt_item |->
     Signature(<<"value", "recipient_pub_blobs_json">>,
       FromJson("recipient_pub_blobs_json") \o PublicBlobs("recipient_pub_blobs_json")
         \o Check("recipient_pub_blobs_json", "empty",
                  InvalidInput("at least one recipient required"))),
   decrypt_item |->
     Signature(<<"item_json", "identity_secret_b64">>,
       FromJson("item_json") \o IdentitySecret \o OpenItem),
   encrypt_share |->
     Signature(<<"bundle_json", "cipher_id">>,
       FromJson("bundle_json") \o Check("cipher_id", "unknown", Flow("unknown cipher id"))),
   decrypt_share |->
     Signature(<<"envelope_b64", "key_blob">>, Unb64("envelope_b64") \o OpenShare)]

VaultFlows ==
  [create_vault |-> Signature(<<"passphrase">>, <<>>),
   create_vault_profile |->
     Signature(<<"passphrase", "profile_id">>,
       Check("profile_id", "unknown", InvalidInput("unknown kdf profile"))),
   unlock_vault |->
     Signature(<<"passphrase", "secret_key_b64", "wrapped_auk_json", "wrapped_identity_b64">>,
       ParseSk("secret_key_b64") \o FromJson("wrapped_auk_json")
         \o OpenWithPassphrase("passphrase", "secret_key_b64")
         \o UnwrapIdentity("wrapped_identity_b64")),
   unlock_recovery |->
     Signature(<<"recovery_code", "wrapped_recovery_json", "wrapped_identity_b64">>,
       AukFromRecovery \o UnwrapIdentity("wrapped_identity_b64")),
   reset_passphrase |->
     Signature(<<"recovery_code", "wrapped_recovery_json", "secret_key_b64", "new_passphrase">>,
       AukFromRecovery \o ParseSk("secret_key_b64"))]

\* A signature that does not verify is no failure, verify_message returns false.
MessageFlows ==
  [generate_symmetric_key |-> Signature(<<>>, <<>>),
   seal_symmetric |-> Signature(<<"key_b64", "plaintext", "aad">>, SymmetricKey),
   open_symmetric |->
     Signature(<<"key_b64", "blob", "aad">>,
       SymmetricKey \o Folded(OpenAead({"key_b64", "aad"}, "blob"),
                              Flow("decrypt failed (wrong key or tampered)"))),
   sign_message |-> Signature(<<"identity_secret_b64", "msg">>, IdentitySecret),
   verify_message |->
     Signature(<<"sign_pubkey_b64", "msg", "sig_b64">>,
       Unb64("sign_pubkey_b64")
         \o Check("sign_pubkey_b64", "length", Flow("bad sign pubkey length"))
         \o Unb64("sig_b64") \o Check("sig_b64", "length", Flow("bad signature length")))]

RewrapFlows ==
  [change_passphrase |->
     Signature(<<"old_passphrase", "secret_key_b64", "wrapped_auk_json", "new_passphrase">>,
       UnlockAuk("old_passphrase", "secret_key_b64")),
   rotate_secret_key |->
     Signature(<<"passphrase", "old_secret_key_b64", "wrapped_auk_json">>,
       UnlockAuk("passphrase", "old_secret_key_b64")),
   rotate_recovery_code |->
     Signature(<<"passphrase", "secret_key_b64", "wrapped_auk_json">>,
       UnlockAuk("passphrase", "secret_key_b64")),
   rotate_identity |->
     Signature(<<"passphrase", "secret_key_b64", "wrapped_auk_json",
                 "old_wrapped_identity_b64">>,
       UnlockAuk("passphrase", "secret_key_b64")
         \o UnwrapIdentity("old_wrapped_identity_b64"))]

BackupFlows ==
  [export_backup |-> Signature(<<"json", "passphrase">>, <<>>),
   import_backup |-> Signature(<<"data", "passphrase">>, OpenBackup)]

PasskeyFlows ==
  [enroll_prf |->
     Signature(<<"passphrase", "secret_key_b64", "wrapped_auk_json", "prf_secret_b64">>,
       ParseSk("secret_key_b64") \o FromJson("wrapped_auk_json")
         \o OpenWithPassphrase("passphrase", "secret_key_b64") \o Unb64("prf_secret_b64")),
   unlock_prf |->
     Signature(<<"prf_secret_b64", "wrapped_auk_prf_json", "wrapped_identity_b64">>,
       AukFromPrf \o UnwrapIdentity("wrapped_identity_b64"))]

\* Without an existing AMK, amk_ensure mints one, and has nothing to unwrap.
AmkFlows ==
  [amk_ensure |->
     Signature(<<"passphrase", "secret_key_b64", "wrapped_auk_json", "existing_wrapped_amk">>,
       UnlockAuk("passphrase", "secret_key_b64") \o UnwrapAmk("existing_wrapped_amk")),
   amk_sign |->
     Signature(<<"passphrase", "secret_key_b64", "wrapped_auk_json", "wrapped_amk", "msg">>,
       UnlockAuk("passphrase", "secret_key_b64") \o UnwrapAmk("wrapped_amk")),
   amk_ensure_prf |->
     Signature(<<"prf_secret_b64", "wrapped_auk_prf_json", "existing_wrapped_amk">>,
       AukFromPrf \o UnwrapAmk("existing_wrapped_amk")),
   amk_sign_prf |->
     Signature(<<"prf_secret_b64", "wrapped_auk_prf_json", "wrapped_amk", "msg">>,
       AukFromPrf \o UnwrapAmk("wrapped_amk"))]

DigestFlows == [message_digest |-> Signature(<<"aad", "ct">>, <<>>)]

NamespaceFlows ==
  [ns_random_nk |-> Signature(<<>>, <<>>),
   ns_random_salt |-> Signature(<<>>, <<>>),
   ns_random_recovery_code |-> Signature(<<>>, <<>>),
   ns_wrap_nk |->
     Signature(<<"nk_b64", "passphrase", "salt_b64">>, Unb64("nk_b64") \o Unb64("salt_b64")),
   ns_unwrap_nk |->
     Signature(<<"wrapped", "passphrase", "salt_b64">>,
       Unb64("salt_b64") \o AesDecrypt({"passphrase", "salt_b64"}, "wrapped")),
   ns_protect_value |-> Signature(<<"nk_b64", "value">>, Unb64("nk_b64") \o NkKey),
   ns_unprotect_value |->
     Signature(<<"nk_b64", "protected">>,
       Unb64("nk_b64") \o NkKey \o AesDecrypt({"nk_b64"}, "protected")
         \o Check("protected", "utf8", FromUtf8Error)),
   ns_nk_hash |-> Signature(<<"nk_b64">>, Unb64("nk_b64")),
   ns_is_protected |-> Signature(<<"protected">>, <<>>)]

KeyLogFlows ==
  [cert_bytes_json |-> Signature(<<"cert_json">>, FromJson("cert_json")),
   leaf_bytes_json |-> Signature(<<"leaf_json">>, FromJson("leaf_json")),
   sth_message_json |-> Signature(<<"sth_json">>, FromJson("sth_json")),
   verify_cert_json |->
     Signature(<<"cert_json", "sigs_json", "custodians_json", "threshold">>,
       FromJson("cert_json") \o FromJson("sigs_json") \o FromJson("custodians_json"))]
=============================================================================
