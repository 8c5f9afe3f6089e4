------------------------------- MODULE Errors -------------------------------
(***************************************************************************)
(* The failures of the crate and what a caller is shown of them:           *)
(* src/error.rs, the error type of src/uniffi_api.rs, and the conversion   *)
(* of src/wasm.rs.  A text is kept where something depends on it; "..."    *)
(* stands for the text of a library.                                       *)
(***************************************************************************)
EXTENDS Sequences

CoreError(variant, text) == [variant |-> variant, text |-> text]

Flow(text) == CoreError("Flow", text)
InvalidInput(text) == CoreError("InvalidInput", text)
Decode == CoreError("Decode", "...")
Encoding == CoreError("Encoding", "...")
Json == CoreError("Json", "...")
Kdf == CoreError("Kdf", "...")
WrongKey == CoreError("WrongKey", "wrong key or corrupted ciphertext")

\* from_utf8 of what was decrypted: a message no table lists.
FromUtf8Error == Flow("...")

-----------------------------------------------------------------------------
(* What a caller is shown.                                                 *)

WRONG_CREDENTIAL_MESSAGES ==
  {"wrong passphrase or secret key",
   "wrong recovery code",
   "wrong passphrase or corrupted backup",
   "decrypt failed (wrong key or tampered)",
   "touch id unlock failed",
   "wrong namespace passphrase"}

\* Mutant: a table that misses a message.
ClassWithoutNamespaces(e) ==
  CASE e.variant \in {"Aead", "WrongKey"}       -> "WrongCredential"
    [] e.variant \in {"Decode", "Encoding"}     -> "Encoding"
    [] e.variant \in {"Json", "InvalidInput"}   -> e.variant
    [] e.variant \in {"Kdf", "Kem", "Signature"} -> "Other"
    [] e.variant = "Flow" ->
         IF e.text \in WRONG_CREDENTIAL_MESSAGES \ {"wrong namespace passphrase"}
           THEN "WrongCredential" ELSE "InvalidInput"

\* The category UniFFI callers branch on.
Class(e) ==
  CASE e.variant \in {"Aead", "WrongKey"}       -> "WrongCredential"
    [] e.variant \in {"Decode", "Encoding"}     -> "Encoding"
    [] e.variant \in {"Json", "InvalidInput"}   -> e.variant
    [] e.variant \in {"Kdf", "Kem", "Signature"} -> "Other"
    [] e.variant = "Flow" ->
         IF e.text \in WRONG_CREDENTIAL_MESSAGES THEN "WrongCredential"
                                                 ELSE "InvalidInput"

\* The text of a failure: its variant shows, except that a flow's message and
\* the fixed texts stand alone.
Display(e) ==
  IF e.variant \in {"Flow", "Aead", "Kem", "Signature", "WrongKey"}
    THEN <<e.text>> ELSE <<e.variant, e.text>>

PockCoreError(e) == [class |-> Class(e), message |-> Display(e)]

\* A JavaScript caller has the text alone.
JsError(e) == [message |-> Display(e)]
=============================================================================
