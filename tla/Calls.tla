-------------------------------- MODULE Calls --------------------------------
(***************************************************************************)
(* One call through the bindings, made on both surfaces with the same      *)
(* arguments, and a caller (external) that goes by the category of a       *)
(* failure alone, as the comment on PockCoreError invites it to: it        *)
(* "can branch on `the user typed the wrong secret' versus `the caller     *)
(* passed garbage' without string-matching".                               *)
(***************************************************************************)
EXTENDS Bindings, Naturals, SequencesExt

CONSTANTS
  None,
  Faults(_),   \* the faults that an argument of this name is given, of those it can have
  Typed,       \* names of the arguments the user types; the caller keeps the others
  MaxSlips     \* bound: how often the user mistypes again

-----------------------------------------------------------------------------
(* What can be wrong with an argument, by the format it has.               *)

WrapFaults == {"json", "version", "text", "short", "altered", "length"}

Kinds(a) ==
  CASE a \in {"passphrase", "old_passphrase", "new_passphrase", "recovery_code",
              "aad", "msg"} -> {"wrong"}
    [] a \in {"prf_secret_b64", "salt_b64"} -> {"text", "wrong"}
    [] a \in {"secret_key_b64", "old_secret_key_b64", "identity_secret_b64", "key_b64",
              "nk_b64", "sign_pubkey_b64", "sig_b64"} -> {"text", "length", "wrong"}
    [] a = "wrapped_auk_json" -> WrapFaults \union {"salt", "kdf", "params"}
    [] a \in {"wrapped_recovery_json", "wrapped_auk_prf_json"} ->
           WrapFaults \union {"params"}
    [] a \in {"wrapped_identity_b64", "old_wrapped_identity_b64", "wrapped_amk",
              "existing_wrapped_amk"} -> {"text", "short", "altered", "length"}
    [] a = "item_json" -> WrapFaults \union {"envelope", "utf8"}
    [] a = "recipient_pub_blobs_json" -> {"json", "version", "text", "length", "empty"}
    [] a \in {"bundle_json", "cert_json", "leaf_json", "sth_json", "sigs_json",
              "custodians_json"} -> {"json"}
    [] a \in {"cipher_id", "profile_id"} -> {"unknown"}
    [] a = "envelope_b64" -> {"text", "shape", "version", "length", "short", "altered", "utf8"}
    [] a = "key_blob" -> {"shape", "text", "cipher", "length", "wrong"}
    [] a = "data" -> {"shape", "version", "short", "altered", "kdf", "utf8"}
    [] a = "blob" -> {"short", "altered"}
    [] a = "wrapped" -> {"shape", "text", "length", "altered"}
    [] a = "protected" -> {"shape", "text", "length", "altered", "utf8"}
    [] a \in {"value", "plaintext", "ct", "json", "threshold"} -> {}

Arguments(name) == Range(Tail(Uniffi[name]))

ASSUME CallsAssumption ==
  /\ \A name \in DOMAIN Uniffi : \A a \in Arguments(name) : Faults(a) \subseteq Kinds(a)
  /\ MaxSlips \in Nat

-----------------------------------------------------------------------------
VARIABLES
  adapter,   \* the adapter that is called
  faults,    \* per argument its fault, or "none"
  answer,    \* what the two surfaces returned, or None
  slips      \* how often the user has mistyped again

vars == <<adapter, faults, answer, slips>>

FaultyAsMayBe(f) == \A a \in DOMAIN f : f[a] \in {"none"} \union Faults(a)

-----------------------------------------------------------------------------
(* A call.                                                                 *)

\* A surface's adapters with their flows.  The k-th parameter of a flow is bound
\* to the k-th argument that the adapter gives it.
Wired(surface) ==
  [name \in DOMAIN surface |->
     LET row    == surface[name]
         params == FlowTable[Head(row)].params
     IN  [flow   |-> Head(row),
          bound  |-> [p \in Range(params) |->
                        row[1 + CHOOSE k \in DOMAIN params : params[k] = p]],
          checks |-> FlowTable[Head(row)].checks]]

WiredUniffi == Wired(Uniffi)
WiredWasm == Wired(Wasm)

\* What the flow returns: its checks run in order, and the first that fires ends it.
Outcome(wired) ==
  LET Fires(check) == \E p \in check.params : faults[wired.bound[p]] \in check.faults
      firing == {k \in DOMAIN wired.checks : Fires(wired.checks[k])}
  IN  IF firing = {} THEN [ok |-> TRUE, flow |-> wired.flow, bound |-> wired.bound]
                     ELSE [ok |-> FALSE, error |-> wired.checks[Min(firing)].error]

UniffiAnswer(outcome) ==
  IF outcome.ok THEN outcome ELSE [ok |-> FALSE, failure |-> PockCoreError(outcome.error)]

WasmAnswer(outcome) ==
  IF outcome.ok THEN outcome ELSE [ok |-> FALSE, failure |-> JsError(outcome.error)]

Invoke ==
  /\ answer = None
  /\ \E u \in {Outcome(WiredUniffi[adapter])}, w \in {Outcome(WiredWasm[adapter])} :
       answer' = [uniffi |-> UniffiAnswer(u), wasm |-> WasmAnswer(w)]
  /\ UNCHANGED <<adapter, faults, slips>>

-----------------------------------------------------------------------------
(* The caller.                                                             *)

Failed(class) ==
  answer # None /\ ~answer.uniffi.ok /\ answer.uniffi.failure.class = class

\* The credential is at fault: the user types it again, this time right, or
\* mistypes it once more.
AskAgain ==
  /\ Failed("WrongCredential")
  /\ Typed \intersect Arguments(adapter) # {}
  /\ \E slip \in BOOLEAN :
       /\ slip => slips < MaxSlips
       /\ slips' = IF slip THEN slips + 1 ELSE slips
       /\ faults' = [a \in Arguments(adapter) |->
                       IF a \notin Typed THEN faults[a]
                       ELSE IF slip /\ "wrong" \in Faults(a) THEN "wrong" ELSE "none"]
  /\ answer' = None
  /\ UNCHANGED adapter

\* What was passed is at fault: the caller fetches anew what it keeps.  A wrong
\* credential "may equally mean the stored blob was corrupted".
ReadAgain ==
  /\ \E class \in {"WrongCredential", "InvalidInput", "Json", "Encoding"} : Failed(class)
  /\ faults' = [a \in Arguments(adapter) |-> IF a \in Typed THEN faults[a] ELSE "none"]
  /\ answer' = None
  /\ UNCHANGED <<adapter, slips>>

-----------------------------------------------------------------------------
Init ==
  /\ adapter \in DOMAIN Uniffi
  /\ faults \in {f \in [Arguments(adapter) ->
                         {"none"} \union UNION {Faults(a) : a \in Arguments(adapter)}] :
                   FaultyAsMayBe(f)}
  /\ answer = None
  /\ slips = 0

Next == Invoke \/ AskAgain \/ ReadAgain

Spec == Init /\ [][Next]_vars

\* A call returns; a caller that is refused again and again neither asks for
\* ever nor reads for ever.  The first conjunct is WF_vars(Invoke): Invoke is
\* enabled as long as there is no answer, and nothing else can happen then.
FairSpec ==
  Spec /\ []<>(answer # None) /\ SF_vars(AskAgain) /\ SF_vars(ReadAgain)
=============================================================================
