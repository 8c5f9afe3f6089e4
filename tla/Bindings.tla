------------------------------ MODULE Bindings ------------------------------
(***************************************************************************)
(* The two surfaces in front of Flows: the adapters of src/uniffi_api.rs   *)
(* and those of src/wasm.rs, whose names begin with wasm_.  Most of what   *)
(* they forward is text, so that no type tells one argument from another.  *)
(*                                                                         *)
(* A row has the flow an adapter calls and the arguments it gives it, in   *)
(* the order in which it gives them.                                       *)
(***************************************************************************)
EXTENDS Flows

\* The table that has the rows of all these.
Table(parts) ==
  [name \in UNION {DOMAIN part : part \in parts} |->
     (CHOOSE part \in parts : name \in DOMAIN part)[name]]

FlowTable ==
  Table({IdentityFlows, VaultFlows, MessageFlows, RewrapFlows, BackupFlows,
         PasskeyFlows, AmkFlows, DigestFlows, NamespaceFlows, KeyLogFlows})

-----------------------------------------------------------------------------
(* UniFFI.                                                                 *)

UniffiIdentity ==
  [generate_identity |-> <<"generate_identity">>,
   encrypt_item      |-> <<"encrypt_item", "value", "recipient_pub_blobs_json">>,
   decrypt_item      |-> <<"decrypt_item", "item_json", "identity_secret_b64">>,
   encrypt_share     |-> <<"encrypt_share", "bundle_json", "cipher_id">>,
   decrypt_share     |-> <<"decrypt_share", "envelope_b64", "key_blob">>]

UniffiVault ==
  [create_vault |-> <<"create_vault", "passphrase">>,
   unlock_vault |->
     <<"unlock_vault", "passphrase", "secret_key_b64", "wrapped_auk_json",
       "wrapped_identity_b64">>,
   unlock_recovery |->
     <<"unlock_recovery", "recovery_code", "wrapped_recovery_json",
       "wrapped_identity_b64">>,
   reset_passphrase |->
     <<"reset_passphrase", "recovery_code", "wrapped_recovery_json",
       "secret_key_b64", "new_passphrase">>,
   change_passphrase |->
     <<"change_passphrase", "old_passphrase", "secret_key_b64",
       "wrapped_auk_json", "new_passphrase">>,
   rotate_secret_key |->
     <<"rotate_secret_key", "passphrase", "old_secret_key_b64", "wrapped_auk_json">>,
   rotate_recovery_code |->
     <<"rotate_recovery_code", "passphrase", "secret_key_b64", "wrapped_auk_json">>,
   rotate_identity |->
     <<"rotate_identity", "passphrase", "secret_key_b64", "wrapped_auk_json",
       "old_wrapped_identity_b64">>]

UniffiMessages ==
  [generate_symmetric_key |-> <<"generate_symmetric_key">>,
   seal_symmetric |-> <<"seal_symmetric", "key_b64", "plaintext", "aad">>,
   open_symmetric |-> <<"open_symmetric", "key_b64", "blob", "aad">>,
   sign_message   |-> <<"sign_message", "identity_secret_b64", "msg">>,
   verify_message |-> <<"verify_message", "sign_pubkey_b64", "msg", "sig_b64">>,
   export_backup  |-> <<"export_backup", "json", "passphrase">>,
   import_backup  |-> <<"import_backup", "data", "passphrase">>]

UniffiPasskeyAndAmk ==
  [enroll_prf |->
     <<"enroll_prf", "passphrase", "secret_key_b64", "wrapped_auk_json", "prf_secret_b64">>,
   unlock_prf |->
     <<"unlock_prf", "prf_secret_b64", "wrapped_auk_prf_json", "wrapped_identity_b64">>,
   amk_ensure |->
     <<"amk_ensure", "passphrase", "secret_key_b64", "wrapped_auk_json",
       "existing_wrapped_amk">>,
   amk_sign |->
     <<"amk_sign", "passphrase", "secret_key_b64", "wrapped_auk_json", "wrapped_amk", "msg">>,
   amk_ensure_prf |->
     <<"amk_ensure_prf", "prf_secret_b64", "wrapped_auk_prf_json", "existing_wrapped_amk">>,
   amk_sign_prf |->
     <<"amk_sign_prf", "prf_secret_b64", "wrapped_auk_prf_json", "wrapped_amk", "msg">>]

UniffiDigestAndProfile ==
  [message_digest |-> <<"message_digest", "aad", "ct">>,
   create_vault_profile |-> <<"create_vault_profile", "passphrase", "profile_id">>]

UniffiNamespace ==
  [ns_random_nk            |-> <<"ns_random_nk">>,
   ns_random_salt          |-> <<"ns_random_salt">>,
   ns_random_recovery_code |-> <<"ns_random_recovery_code">>,
   ns_wrap_nk         |-> <<"ns_wrap_nk", "nk_b64", "passphrase", "salt_b64">>,
   ns_unwrap_nk       |-> <<"ns_unwrap_nk", "wrapped", "passphrase", "salt_b64">>,
   ns_protect_value   |-> <<"ns_protect_value", "nk_b64", "value">>,
   ns_unprotect_value |-> <<"ns_unprotect_value", "nk_b64", "protected">>,
   ns_nk_hash         |-> <<"ns_nk_hash", "nk_b64">>,
   ns_is_protected    |-> <<"ns_is_protected", "protected">>]

UniffiKeyLog ==
  [cert_bytes  |-> <<"cert_bytes_json", "cert_json">>,
   leaf_bytes  |-> <<"leaf_bytes_json", "leaf_json">>,
   sth_message |-> <<"sth_message_json", "sth_json">>,
   verify_cert |->
     <<"verify_cert_json", "cert_json", "sigs_json", "custodians_json", "threshold">>]

Uniffi ==
  Table({UniffiIdentity, UniffiVault, UniffiMessages, UniffiPasskeyAndAmk,
         UniffiDigestAndProfile, UniffiNamespace, UniffiKeyLog})

-----------------------------------------------------------------------------
(* WebAssembly.                                                            *)

WasmIdentity ==
  [generate_identity |-> <<"generate_identity">>,
   encrypt_item |-> <<"encrypt_item", "value", "recipient_pub_blobs_json">>,
   decrypt_item |-> <<"decrypt_item", "item_json", "identity_secret_b64">>,
   encrypt_share |-> <<"encrypt_share", "bundle_json", "cipher_id">>,
   decrypt_share |-> <<"decrypt_share", "envelope_b64", "key_blob">>]

WasmVault ==
  [create_vault |-> <<"create_vault", "passphrase">>,
   unlock_vault |->
     <<"unlock_vault", "passphrase", "secret_key_b64", "wrapped_auk_json",
       "wrapped_identity_b64">>,
   unlock_recovery |->
     <<"unlock_recovery", "recovery_code", "wrapped_recovery_json",
       "wrapped_identity_b64">>,
   reset_passphrase |->
     <<"reset_passphrase", "recovery_code", "wrapped_recovery_json", "secret_key_b64",
       "new_passphrase">>]

WasmMessages ==
  [generate_symmetric_key |-> <<"generate_symmetric_key">>,
   seal_symmetric |-> <<"seal_symmetric", "key_b64", "plaintext", "aad">>,
   open_symmetric |-> <<"open_symmetric", "key_b64", "blob", "aad">>,
   sign_message |-> <<"sign_message", "identity_secret_b64", "msg">>,
   verify_message |-> <<"verify_message", "sign_pubkey_b64", "msg", "sig_b64">>]

\* Mutant: the two passphrases in each other's place, which the types allow.
WasmRotationsSwapped ==
  [change_passphrase |->
     <<"change_passphrase", "new_passphrase", "secret_key_b64", "wrapped_auk_json",
       "old_passphrase">>,
   rotate_secret_key |->
     <<"rotate_secret_key", "passphrase", "old_secret_key_b64", "wrapped_auk_json">>,
   rotate_recovery_code |->
     <<"rotate_recovery_code", "passphrase", "secret_key_b64", "wrapped_auk_json">>,
   rotate_identity |->
     <<"rotate_identity", "passphrase", "secret_key_b64", "wrapped_auk_json",
       "old_wrapped_identity_b64">>]

WasmRotations ==
  [change_passphrase |->
     <<"change_passphrase", "old_passphrase", "secret_key_b64", "wrapped_auk_json",
       "new_passphrase">>,
   rotate_secret_key |->
     <<"rotate_secret_key", "passphrase", "old_secret_key_b64", "wrapped_auk_json">>,
   rotate_recovery_code |->
     <<"rotate_recovery_code", "passphrase", "secret_key_b64", "wrapped_auk_json">>,
   rotate_identity |->
     <<"rotate_identity", "passphrase", "secret_key_b64", "wrapped_auk_json",
       "old_wrapped_identity_b64">>]

WasmBackupAndPasskey ==
  [export_backup |-> <<"export_backup", "json", "passphrase">>,
   import_backup |-> <<"import_backup", "data", "passphrase">>,
   enroll_prf |->
     <<"enroll_prf", "passphrase", "secret_key_b64", "wrapped_auk_json",
       "prf_secret_b64">>,
   unlock_prf |->
     <<"unlock_prf", "prf_secret_b64", "wrapped_auk_prf_json", "wrapped_identity_b64">>]

WasmAmk ==
  [amk_ensure |->
     <<"amk_ensure", "passphrase", "secret_key_b64", "wrapped_auk_json",
       "existing_wrapped_amk">>,
   amk_sign |->
     <<"amk_sign", "passphrase", "secret_key_b64", "wrapped_auk_json", "wrapped_amk",
       "msg">>,
   amk_ensure_prf |->
     <<"amk_ensure_prf", "prf_secret_b64", "wrapped_auk_prf_json",
       "existing_wrapped_amk">>,
   amk_sign_prf |->
     <<"amk_sign_prf", "prf_secret_b64", "wrapped_auk_prf_json", "wrapped_amk", "msg">>]

WasmDigestAndProfile ==
  [message_digest |-> <<"message_digest", "aad", "ct">>,
   create_vault_profile |-> <<"create_vault_profile", "passphrase", "profile_id">>]

WasmNamespace ==
  [ns_random_nk |-> <<"ns_random_nk">>,
   ns_random_salt |-> <<"ns_random_salt">>,
   ns_random_recovery_code |-> <<"ns_random_recovery_code">>,
   ns_wrap_nk |-> <<"ns_wrap_nk", "nk_b64", "passphrase", "salt_b64">>,
   ns_unwrap_nk |-> <<"ns_unwrap_nk", "wrapped", "passphrase", "salt_b64">>,
   ns_protect_value |-> <<"ns_protect_value", "nk_b64", "value">>,
   ns_unprotect_value |-> <<"ns_unprotect_value", "nk_b64", "protected">>,
   ns_nk_hash |-> <<"ns_nk_hash", "nk_b64">>,
   ns_is_protected |-> <<"ns_is_protected", "protected">>]

WasmKeyLog ==
  [cert_bytes |-> <<"cert_bytes_json", "cert_json">>,
   leaf_bytes |-> <<"leaf_bytes_json", "leaf_json">>,
   sth_message |-> <<"sth_message_json", "sth_json">>,
   verify_cert |->
     <<"verify_cert_json", "cert_json", "sigs_json", "custodians_json", "threshold">>]

Wasm ==
  Table({WasmIdentity, WasmVault, WasmMessages, WasmRotations, WasmBackupAndPasskey,
         WasmAmk, WasmDigestAndProfile, WasmNamespace, WasmKeyLog})
=============================================================================
