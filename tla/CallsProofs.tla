----------------------------- MODULE CallsProofs -----------------------------
(***************************************************************************)
(* Theorems about Calls, whatever faults the arguments have of those they  *)
(* can have, whatever the user types and however often it is mistyped.     *)
(*                                                                         *)
(* What a list of checks looks at is a set of pairs, an argument and a     *)
(* fault: two lists one after the other look at the pairs of both, and     *)
(* folding changes none.  So a flow is looked at helper by helper, as      *)
(* flows.rs puts it together.                                              *)
(***************************************************************************)
EXTENDS CallsProperties, SequenceTheorems, WellFoundedInduction, TLAPS

IsCheck(r) == r = [params |-> r.params, faults |-> r.faults, error |-> r.error]

IsChecks(checks) ==
  \E n \in Nat : /\ checks = [k \in 1 .. n |-> checks[k]]
                 /\ \A k \in 1 .. n : IsCheck(checks[k])

\* Some check of the list fires when the parameter has the fault.
Catches(checks, param, fault) ==
  \E k \in DOMAIN checks : param \in checks[k].params /\ fault \in checks[k].faults

\* A list of checks that looks at these pairs of a parameter and a fault.
LooksAt(checks, pairs) ==
  /\ IsChecks(checks)
  /\ \A param, fault : Catches(checks, param, fault) <=> <<param, fault>> \in pairs

\* What BlameIsDeserved asks of a failure, when a parameter has this one fault.
Deserved(param, fault, error) ==
  /\ fault # "none"
  /\ fault = "wrong" => Class(error) = "WrongCredential"
  /\ Class(error) = "WrongCredential" =>
       (fault = "wrong" /\ param \in Credentials) \/ fault = "altered" \/ param \in Lumped
  /\ Class(error) = "Json" => fault = "json"
  /\ Class(error) = "Encoding" =>
       fault \in {"text", "version", "envelope", "cipher", "shape", "short", "length",
                  "utf8"}
  /\ Class(error) = "InvalidInput" =>
       fault \in {"length", "shape", "unknown", "empty", "utf8"}
  /\ Class(error) \in {"WrongCredential", "Json", "Encoding", "InvalidInput"}

Believable(checks) ==
  \A k \in DOMAIN checks :
    \A param \in checks[k].params, fault \in checks[k].faults :
      Deserved(param, fault, checks[k].error)

Examines(checks, pairs) == LooksAt(checks, pairs) /\ Believable(checks)

-----------------------------------------------------------------------------
(* Lists of checks.                                                        *)

LEMMA NoCheck == Examines(<<>>, {})
<1>1. <<>> = [k \in 1 .. 0 |-> <<>>[k]]
  OBVIOUS
<1>2. IsChecks(<<>>) /\ DOMAIN <<>> = {}
  BY <1>1 DEF IsChecks
<1> QED
  BY <1>2 DEF Examines, LooksAt, Believable, Catches

LEMMA OneCheck ==
  ASSUME NEW params, NEW kinds, NEW error
  PROVE  /\ LooksAt(Checks(params, kinds, error), params \X kinds)
         /\ (\A p \in params, f \in kinds : Deserved(p, f, error)) =>
              Examines(Checks(params, kinds, error), params \X kinds)
<1> DEFINE check == [params |-> params, faults |-> kinds, error |-> error]
           c == Checks(params, kinds, error)
<1>1. IsCheck(check) /\ check.params = params /\ check.faults = kinds /\ check.error = error
  BY DEF IsCheck
<1>2. c = <<check>>
  BY DEF Checks
<1> HIDE DEF check, c
<1>3. c = [k \in 1 .. 1 |-> c[k]] /\ DOMAIN c = 1 .. 1 /\ c[1] = check
  BY <1>2
<1>4. IsChecks(c)
  BY <1>1, <1>3 DEF IsChecks
<1>5. LooksAt(c, params \X kinds)
  BY <1>1, <1>3, <1>4 DEF LooksAt, Catches
<1>6. (\A p \in params, f \in kinds : Deserved(p, f, error)) => Believable(c)
  BY <1>1, <1>3 DEF Believable
<1> QED
  BY <1>5, <1>6 DEF Examines, c

LEMMA TwoLists ==
  ASSUME NEW c, NEW d, NEW left, NEW right
  PROVE  /\ LooksAt(c, left) /\ LooksAt(d, right) => LooksAt(c \o d, left \union right)
         /\ Examines(c, left) /\ Examines(d, right) =>
              Examines(c \o d, left \union right)
<1> SUFFICES ASSUME LooksAt(c, left), LooksAt(d, right)
             PROVE  /\ LooksAt(c \o d, left \union right)
                    /\ Believable(c) /\ Believable(d) => Believable(c \o d)
  BY DEF Examines
<1>1. PICK m \in Nat : c = [k \in 1 .. m |-> c[k]] /\ \A k \in 1 .. m : IsCheck(c[k])
  BY DEF LooksAt, IsChecks
<1>2. PICK n \in Nat : d = [k \in 1 .. n |-> d[k]] /\ \A k \in 1 .. n : IsCheck(d[k])
  BY DEF LooksAt, IsChecks
<1>3. PICK S : (\A k \in 1 .. m : c[k] \in S) /\ (\A k \in 1 .. n : d[k] \in S)
  <2>1. \A k \in 1 .. m : c[k] \in {c[j] : j \in 1 .. m} \union {d[j] : j \in 1 .. n}
    OBVIOUS
  <2>2. \A k \in 1 .. n : d[k] \in {c[j] : j \in 1 .. m} \union {d[j] : j \in 1 .. n}
    OBVIOUS
  <2> QED
    BY <2>1, <2>2
<1>4. c \in Seq(S) /\ Len(c) = m /\ d \in Seq(S) /\ Len(d) = n
  <2>1. [k \in 1 .. m |-> c[k]] \in Seq(S) /\ [k \in 1 .. n |-> d[k]] \in Seq(S)
    BY <1>3, IsASeq
  <2>2. c \in Seq(S) /\ d \in Seq(S)
    BY <1>1, <1>2, <2>1
  <2>3. DOMAIN c = 1 .. m /\ DOMAIN d = 1 .. n
    BY <1>1, <1>2
  <2> QED
    BY <2>2, <2>3
<1>5. /\ c \o d = [k \in 1 .. m + n |-> (c \o d)[k]]
      /\ DOMAIN (c \o d) = 1 .. m + n
      /\ \A k \in 1 .. m + n : (c \o d)[k] = IF k <= m THEN c[k] ELSE d[k - m]
  <2>1. c \o d \in Seq(S) /\ Len(c \o d) = m + n
    BY <1>4
  <2>2. DOMAIN (c \o d) = 1 .. m + n
    BY <2>1
  <2>3. c \o d = [k \in DOMAIN (c \o d) |-> (c \o d)[k]]
    <3>1. c \o d \in [1 .. Len(c \o d) -> S]
      BY <2>1, LenProperties
    <3> QED
      BY <3>1
  <2>4. \A k \in 1 .. m + n : (c \o d)[k] = IF k <= m THEN c[k] ELSE d[k - m]
    BY <1>4
  <2> QED
    BY <2>2, <2>3, <2>4, Zenon
<1>6. DOMAIN c = 1 .. m /\ DOMAIN d = 1 .. n
  BY <1>1, <1>2
<1>7. \A k \in DOMAIN c : k \in DOMAIN (c \o d) /\ (c \o d)[k] = c[k]
  BY <1>5, <1>6
<1>8. \A k \in DOMAIN d : k + m \in DOMAIN (c \o d) /\ (c \o d)[k + m] = d[k]
  BY <1>5, <1>6
<1>9. \A k \in DOMAIN (c \o d) :
        \/ k \in DOMAIN c /\ (c \o d)[k] = c[k]
        \/ \E j \in DOMAIN d : (c \o d)[k] = d[j]
  <2> SUFFICES ASSUME NEW k \in DOMAIN (c \o d), k \notin DOMAIN c
               PROVE  \E j \in DOMAIN d : (c \o d)[k] = d[j]
    BY <1>7
  <2>1. k - m \in DOMAIN d /\ (c \o d)[k] = d[k - m]
    BY <1>5, <1>6
  <2> QED
    BY <2>1
<1>10. IsChecks(c \o d)
  <2>1. \A k \in 1 .. m + n : IsCheck((c \o d)[k])
    BY <1>1, <1>2, <1>5, <1>6, <1>9
  <2>2. m + n \in Nat
    OBVIOUS
  <2> QED
    BY <2>1, <2>2, <1>5 DEF IsChecks
<1>11. \A p, f : Catches(c \o d, p, f) <=> Catches(c, p, f) \/ Catches(d, p, f)
  BY <1>7, <1>8, <1>9 DEF Catches
<1>12. Believable(c) /\ Believable(d) => Believable(c \o d)
  BY <1>9 DEF Believable
<1>13. \A p, f : <<p, f>> \in left \union right <=> <<p, f>> \in left \/ <<p, f>> \in right
  OBVIOUS
<1>14. LooksAt(c \o d, left \union right)
  BY <1>10, <1>11, <1>13 DEF LooksAt
<1> QED
  BY <1>12, <1>14

\* map_err leaves the checks where they are, and says one thing for all.
LEMMA FoldedList ==
  ASSUME NEW c, NEW pairs, NEW error, LooksAt(c, pairs),
         \A p, f : <<p, f>> \in pairs => Deserved(p, f, error)
  PROVE  Examines(Folded(c, error), pairs)
<1> DEFINE folded == Folded(c, error)
<1>1. PICK n \in Nat : c = [k \in 1 .. n |-> c[k]] /\ \A k \in 1 .. n : IsCheck(c[k])
  BY DEF LooksAt, IsChecks
<1>2. DOMAIN c = 1 .. n
  BY <1>1
<1>3. folded = [k \in 1 .. n |-> [c[k] EXCEPT !.error = error]]
  BY <1>2 DEF Folded
<1> HIDE DEF folded
<1>4. \A k \in 1 .. n : /\ IsCheck(folded[k])
                        /\ folded[k].params = c[k].params
                        /\ folded[k].faults = c[k].faults
                        /\ folded[k].error = error
  BY <1>1, <1>3 DEF IsCheck
<1>5. DOMAIN folded = 1 .. n /\ folded = [k \in 1 .. n |-> folded[k]]
  BY <1>3
<1>6. IsChecks(folded)
  BY <1>4, <1>5 DEF IsChecks
<1>7. \A p, f : Catches(folded, p, f) <=> Catches(c, p, f)
  BY <1>2, <1>4, <1>5 DEF Catches
<1>8. \A p, f : Catches(folded, p, f) <=> <<p, f>> \in pairs
  BY <1>7 DEF LooksAt
<1>9. Believable(folded)
  <2> SUFFICES ASSUME NEW k \in DOMAIN folded, NEW p \in folded[k].params,
                      NEW f \in folded[k].faults
               PROVE  Deserved(p, f, folded[k].error)
    BY DEF Believable
  <2>1. <<p, f>> \in pairs
    BY <1>8 DEF Catches
  <2> QED
    BY <2>1, <1>4, <1>5
<1> QED
  BY <1>6, <1>8, <1>9 DEF Examines, LooksAt, folded

-----------------------------------------------------------------------------
(* The category of every failure a flow can end in.                        *)

LEMMA Classes ==
  /\ Class(Decode) = "Encoding" /\ Class(Encoding) = "Encoding" /\ Class(Json) = "Json"
  /\ Class(WrongKey) = "WrongCredential" /\ Class(FromUtf8Error) = "InvalidInput"
  /\ \A text : Class(InvalidInput(text)) = "InvalidInput"
  /\ \A text : Class(Flow(text)) = IF text \in WRONG_CREDENTIAL_MESSAGES
                                     THEN "WrongCredential" ELSE "InvalidInput"
<1>1. Class(Decode) = "Encoding" /\ Class(Encoding) = "Encoding" /\ Class(Json) = "Json"
  BY DEF Class, CoreError, Decode, Encoding, Json
<1>2. Class(WrongKey) = "WrongCredential" /\ Class(FromUtf8Error) = "InvalidInput"
  BY DEF Class, CoreError, WrongKey, FromUtf8Error, Flow, WRONG_CREDENTIAL_MESSAGES
<1>3. \A text : Class(InvalidInput(text)) = "InvalidInput"
  BY DEF Class, CoreError, InvalidInput
<1>4. \A text : Class(Flow(text)) = IF text \in WRONG_CREDENTIAL_MESSAGES
                                      THEN "WrongCredential" ELSE "InvalidInput"
  BY DEF Class, CoreError, Flow
<1> QED
  BY <1>1, <1>2, <1>3, <1>4

\* Checks whose error is of the category that their faults deserve.
LEMMA EncodingCheck ==
  ASSUME NEW params, NEW error, Class(error) = "Encoding",
         NEW kinds \in SUBSET {"text", "version", "envelope", "cipher", "shape", "short",
                               "length", "utf8"}
  PROVE  Examines(Checks(params, kinds, error), params \X kinds)
<1>1. \A p \in params, f \in kinds : Deserved(p, f, error)
  BY DEF Deserved
<1> QED
  BY <1>1, OneCheck

LEMMA InvalidCheck ==
  ASSUME NEW params, NEW error, Class(error) = "InvalidInput",
         NEW kinds \in SUBSET {"length", "shape", "unknown", "empty", "utf8"}
  PROVE  Examines(Checks(params, kinds, error), params \X kinds)
<1>1. \A p \in params, f \in kinds : Deserved(p, f, error)
  BY DEF Deserved
<1> QED
  BY <1>1, OneCheck

LEMMA WrongCheck ==
  ASSUME NEW error, Class(error) = "WrongCredential", NEW blob,
         NEW keys \in SUBSET Credentials
  PROVE  /\ Examines(Checks(keys, {"wrong"}, error), keys \X {"wrong"})
         /\ Examines(Checks({blob}, {"altered"}, error), {blob} \X {"altered"})
<1>1. \A p \in keys, f \in {"wrong"} : Deserved(p, f, error)
  BY DEF Deserved
<1>2. \A p \in {blob}, f \in {"altered"} : Deserved(p, f, error)
  BY DEF Deserved
<1> QED
  BY <1>1, <1>2, OneCheck

-----------------------------------------------------------------------------
(* The helpers the flows share.                                            *)

LEMMA FromJsonExamines ==
  ASSUME NEW param PROVE Examines(FromJson(param), {param} \X {"json"})
<1>1. \A p \in {param}, f \in {"json"} : Deserved(p, f, Json)
  BY Classes DEF Deserved
<1> QED
  BY <1>1, OneCheck DEF FromJson, Check

LEMMA Unb64Examines ==
  ASSUME NEW param PROVE Examines(Unb64(param), {param} \X {"text"})
BY EncodingCheck, Classes DEF Unb64, Check

LEMMA ParseSkExamines ==
  ASSUME NEW param PROVE Examines(ParseSk(param), {param} \X {"text", "length"})
<1>1. Examines(Check(param, "length", Flow("bad secret key")), {param} \X {"length"})
  BY InvalidCheck, Classes DEF Check, WRONG_CREDENTIAL_MESSAGES
<1>2. Examines(ParseSk(param), ({param} \X {"text"}) \union ({param} \X {"length"}))
  BY <1>1, Unb64Examines, TwoLists DEF ParseSk
<1>3. ({param} \X {"text"}) \union ({param} \X {"length"}) = {param} \X {"text", "length"}
  OBVIOUS
<1> QED
  BY <1>2, <1>3

LEMMA OpenAeadExamines ==
  ASSUME NEW keys \in SUBSET Credentials, NEW blob
  PROVE  Examines(OpenAead(keys, blob),
                  ({blob} \X {"short", "altered"}) \union (keys \X {"wrong"}))
<1>1. Examines(Check(blob, "short", Decode), {blob} \X {"short"})
  BY EncodingCheck, Classes DEF Check
<1>2. /\ Examines(Checks({blob}, {"altered"}, WrongKey), {blob} \X {"altered"})
      /\ Examines(Checks(keys, {"wrong"}, WrongKey), keys \X {"wrong"})
  BY WrongCheck, Classes
<1>3. Examines(Check(blob, "short", Decode) \o Checks({blob}, {"altered"}, WrongKey),
               ({blob} \X {"short"}) \union ({blob} \X {"altered"}))
  BY <1>1, <1>2, TwoLists
<1>4. Examines(OpenAead(keys, blob),
        (({blob} \X {"short"}) \union ({blob} \X {"altered"})) \union (keys \X {"wrong"}))
  BY <1>2, <1>3, TwoLists DEF OpenAead
<1>5. ({blob} \X {"short"}) \union ({blob} \X {"altered"}) = {blob} \X {"short", "altered"}
  OBVIOUS
<1> QED
  BY <1>4, <1>5

\* Nothing to go wrong but the blob, when the key is right by now.
LEMMA OpenBlobExamines ==
  ASSUME NEW blob PROVE Examines(OpenAead({}, blob), {blob} \X {"short", "altered"})
<1>1. Examines(OpenAead({}, blob), ({blob} \X {"short", "altered"}) \union ({} \X {"wrong"}))
  BY OpenAeadExamines
<1>2. ({blob} \X {"short", "altered"}) \union ({} \X {"wrong"})
        = {blob} \X {"short", "altered"}
  OBVIOUS
<1> QED
  BY <1>1, <1>2

LEMMA UnwrapWithKekExamines ==
  ASSUME NEW wrap, NEW kek \in Credentials
  PROVE  Examines(UnwrapWithKek(wrap, kek),
                  ({wrap} \X {"version", "text", "short", "altered", "length"})
                    \union ({kek} \X {"wrong"}))
<1>1. Examines(Checks({wrap}, {"version", "text"}, Decode), {wrap} \X {"version", "text"})
  BY EncodingCheck, Classes
<1>2. Examines(OpenAead({kek}, wrap),
               ({wrap} \X {"short", "altered"}) \union ({kek} \X {"wrong"}))
  BY OpenAeadExamines
<1>3. Examines(Check(wrap, "length", Decode), {wrap} \X {"length"})
  BY EncodingCheck, Classes DEF Check
<1>4. Examines(Checks({wrap}, {"version", "text"}, Decode) \o OpenAead({kek}, wrap),
               ({wrap} \X {"version", "text"})
                 \union (({wrap} \X {"short", "altered"}) \union ({kek} \X {"wrong"})))
  BY <1>1, <1>2, TwoLists
<1>5. Examines(UnwrapWithKek(wrap, kek),
               (({wrap} \X {"version", "text"})
                  \union (({wrap} \X {"short", "altered"}) \union ({kek} \X {"wrong"})))
                 \union ({wrap} \X {"length"}))
  BY <1>3, <1>4, TwoLists DEF UnwrapWithKek
<1>6. (({wrap} \X {"version", "text"})
         \union (({wrap} \X {"short", "altered"}) \union ({kek} \X {"wrong"})))
        \union ({wrap} \X {"length"})
        = ({wrap} \X {"version", "text", "short", "altered", "length"})
            \union ({kek} \X {"wrong"})
  OBVIOUS
<1> QED
  BY <1>5, <1>6

\* The salt is looked at before the key is derived; what it is said to be wrong
\* with is no matter, as this is always folded.
LEMMA UnwrapWithPassphraseLooks ==
  ASSUME NEW wrap, NEW passphrase \in Credentials, NEW secret_key \in Credentials
  PROVE  LooksAt(UnwrapWithPassphrase(wrap, passphrase, secret_key),
                 ({wrap} \X {"version", "text", "salt", "kdf", "short", "altered", "length"})
                   \union ({passphrase, secret_key} \X {"wrong"}))
<1> DEFINE keys == {passphrase, secret_key}
           opened == ({wrap} \X {"short", "altered"}) \union (keys \X {"wrong"})
<1>1. LooksAt(Checks({wrap}, {"version", "text"}, Decode), {wrap} \X {"version", "text"})
  BY OneCheck
<1>2. LooksAt(Check(wrap, "salt", Kdf), {wrap} \X {"salt"})
  BY OneCheck DEF Check
<1>3. LooksAt(OpenAead(keys, wrap), opened)
  BY OpenAeadExamines DEF Examines
<1>4. LooksAt(Check(wrap, "length", Decode), {wrap} \X {"length"})
  BY OneCheck DEF Check
<1> HIDE DEF opened
<1>5. LooksAt(Checks({wrap}, {"version", "text"}, Decode) \o Check(wrap, "salt", Kdf),
              ({wrap} \X {"version", "text"}) \union ({wrap} \X {"salt"}))
  BY <1>1, <1>2, TwoLists
<1>6. LooksAt((Checks({wrap}, {"version", "text"}, Decode) \o Check(wrap, "salt", Kdf))
                \o OpenAead(keys, wrap),
              (({wrap} \X {"version", "text"}) \union ({wrap} \X {"salt"})) \union opened)
  BY <1>3, <1>5, TwoLists
<1>7. LooksAt(Check(wrap, "kdf", WrongKey), {wrap} \X {"kdf"})
  BY OneCheck DEF Check
<1>8. LooksAt(((Checks({wrap}, {"version", "text"}, Decode) \o Check(wrap, "salt", Kdf))
                 \o OpenAead(keys, wrap)) \o Check(wrap, "kdf", WrongKey),
              ((({wrap} \X {"version", "text"}) \union ({wrap} \X {"salt"})) \union opened)
                \union ({wrap} \X {"kdf"}))
  BY <1>6, <1>7, TwoLists
<1>9. LooksAt(UnwrapWithPassphrase(wrap, passphrase, secret_key),
              (((({wrap} \X {"version", "text"}) \union ({wrap} \X {"salt"}))
                  \union opened) \union ({wrap} \X {"kdf"}))
                \union ({wrap} \X {"length"}))
  BY <1>4, <1>8, TwoLists DEF UnwrapWithPassphrase
<1>10. (((({wrap} \X {"version", "text"}) \union ({wrap} \X {"salt"})) \union opened)
          \union ({wrap} \X {"kdf"})) \union ({wrap} \X {"length"})
        = ({wrap} \X {"version", "text", "salt", "kdf", "short", "altered", "length"})
            \union (keys \X {"wrong"})
  BY DEF opened
<1> QED
  BY <1>9, <1>10

LEMMA OpenWithPassphraseExamines ==
  ASSUME NEW passphrase \in Credentials, NEW secret_key \in Credentials
  PROVE  Examines(OpenWithPassphrase(passphrase, secret_key),
                  ({"wrapped_auk_json"}
                     \X {"version", "text", "salt", "kdf", "short", "altered", "length"})
                    \union ({passphrase, secret_key} \X {"wrong"}))
<1> DEFINE pairs ==
      ({"wrapped_auk_json"}
         \X {"version", "text", "salt", "kdf", "short", "altered", "length"})
        \union ({passphrase, secret_key} \X {"wrong"})
           error == Flow("wrong passphrase or secret key")
<1>1. LooksAt(UnwrapWithPassphrase("wrapped_auk_json", passphrase, secret_key), pairs)
  BY UnwrapWithPassphraseLooks
<1>2. Class(error) = "WrongCredential"
  BY Classes DEF WRONG_CREDENTIAL_MESSAGES
<1>3. \A p, f : <<p, f>> \in pairs => Deserved(p, f, error)
  BY <1>2 DEF Deserved, Lumped
<1> QED
  BY <1>1, <1>3, FoldedList DEF OpenWithPassphrase

LEMMA UnlockAukExamines ==
  ASSUME NEW passphrase \in Credentials, NEW secret_key \in Credentials
  PROVE  Examines(UnlockAuk(passphrase, secret_key),
                  (({"wrapped_auk_json"} \X
          (WrapFaults \union {"salt", "kdf"}))
                     \union ({secret_key} \X {"text", "length", "wrong"}))
                    \union ({passphrase} \X {"wrong"}))
<1> DEFINE opened ==
      ({"wrapped_auk_json"}
         \X {"version", "text", "salt", "kdf", "short", "altered", "length"})
        \union ({passphrase, secret_key} \X {"wrong"})
<1>1. Examines(FromJson("wrapped_auk_json") \o ParseSk(secret_key),
               ({"wrapped_auk_json"} \X {"json"}) \union ({secret_key} \X {"text", "length"}))
  BY FromJsonExamines, ParseSkExamines, TwoLists
<1>2. Examines(OpenWithPassphrase(passphrase, secret_key), opened)
  BY OpenWithPassphraseExamines
<1> HIDE DEF opened
<1>3. Examines(UnlockAuk(passphrase, secret_key),
               (({"wrapped_auk_json"} \X {"json"})
                  \union ({secret_key} \X {"text", "length"})) \union opened)
  BY <1>1, <1>2, TwoLists DEF UnlockAuk
<1>4. (({"wrapped_auk_json"} \X {"json"}) \union ({secret_key} \X {"text", "length"}))
        \union opened
        = (({"wrapped_auk_json"} \X
          (WrapFaults \union {"salt", "kdf"}))
             \union ({secret_key} \X {"text", "length", "wrong"}))
            \union ({passphrase} \X {"wrong"})
  BY DEF opened, WrapFaults
<1> QED
  BY <1>3, <1>4

LEMMA AukFromPrfExamines ==
  Examines(AukFromPrf, ({"wrapped_auk_prf_json"} \X WrapFaults)
                         \union ({"prf_secret_b64"} \X {"text", "wrong"}))
<1> DEFINE pairs ==
      ({"wrapped_auk_prf_json"} \X {"version", "text", "short", "altered", "length"})
        \union ({"prf_secret_b64"} \X {"wrong"})
           error == Flow("touch id unlock failed")
           folded == Folded(UnwrapWithKek("wrapped_auk_prf_json", "prf_secret_b64"), error)
<1>1. LooksAt(UnwrapWithKek("wrapped_auk_prf_json", "prf_secret_b64"), pairs)
  BY UnwrapWithKekExamines DEF Examines, Credentials
<1>2. Class(error) = "WrongCredential"
  BY Classes DEF WRONG_CREDENTIAL_MESSAGES
<1>3. \A p, f : <<p, f>> \in pairs => Deserved(p, f, error)
  BY <1>2 DEF Deserved, Lumped, Credentials
<1>4. Examines(folded, pairs)
  BY <1>1, <1>3, FoldedList
<1> HIDE DEF pairs
<1>5. Examines(FromJson("wrapped_auk_prf_json") \o Unb64("prf_secret_b64"),
               ({"wrapped_auk_prf_json"} \X {"json"}) \union ({"prf_secret_b64"} \X {"text"}))
  BY FromJsonExamines, Unb64Examines, TwoLists
<1>6. Examines((FromJson("wrapped_auk_prf_json") \o Unb64("prf_secret_b64")) \o folded,
               (({"wrapped_auk_prf_json"} \X {"json"})
                  \union ({"prf_secret_b64"} \X {"text"})) \union pairs)
  BY <1>4, <1>5, TwoLists
<1>7. (({"wrapped_auk_prf_json"} \X {"json"}) \union ({"prf_secret_b64"} \X {"text"}))
        \union pairs
        = ({"wrapped_auk_prf_json"} \X WrapFaults)
            \union ({"prf_secret_b64"} \X {"text", "wrong"})
  BY DEF pairs, WrapFaults
<1> QED
  BY <1>6, <1>7 DEF AukFromPrf

LEMMA AukFromRecoveryExamines ==
  Examines(AukFromRecovery, ({"wrapped_recovery_json"} \X WrapFaults)
                              \union ({"recovery_code"} \X {"wrong"}))
<1> DEFINE pairs ==
      ({"wrapped_recovery_json"} \X {"version", "text", "short", "altered", "length"})
        \union ({"recovery_code"} \X {"wrong"})
           error == Flow("wrong recovery code")
           folded == Folded(UnwrapWithKek("wrapped_recovery_json", "recovery_code"), error)
<1>1. LooksAt(UnwrapWithKek("wrapped_recovery_json", "recovery_code"), pairs)
  BY UnwrapWithKekExamines DEF Examines, Credentials
<1>2. Class(error) = "WrongCredential"
  BY Classes DEF WRONG_CREDENTIAL_MESSAGES
<1>3. \A p, f : <<p, f>> \in pairs => Deserved(p, f, error)
  BY <1>2 DEF Deserved, Lumped, Credentials
<1>4. Examines(folded, pairs)
  BY <1>1, <1>3, FoldedList
<1> HIDE DEF pairs
<1>5. Examines(FromJson("wrapped_recovery_json") \o folded,
               ({"wrapped_recovery_json"} \X {"json"}) \union pairs)
  BY <1>4, FromJsonExamines, TwoLists
<1>6. ({"wrapped_recovery_json"} \X {"json"}) \union pairs
        = ({"wrapped_recovery_json"} \X WrapFaults) \union ({"recovery_code"} \X {"wrong"})
  BY DEF pairs, WrapFaults
<1> QED
  BY <1>5, <1>6 DEF AukFromRecovery

LEMMA UnwrapIdentityExamines ==
  ASSUME NEW wrapped
  PROVE  Examines(UnwrapIdentity(wrapped),
                  {wrapped} \X {"text", "short", "altered", "length"})
<1>1. /\ Examines(Check(wrapped, "text", Decode), {wrapped} \X {"text"})
      /\ Examines(Check(wrapped, "length", Decode), {wrapped} \X {"length"})
  BY EncodingCheck, Classes DEF Check
<1>2. Examines(Check(wrapped, "text", Decode) \o OpenAead({}, wrapped),
               ({wrapped} \X {"text"}) \union ({wrapped} \X {"short", "altered"}))
  BY <1>1, OpenBlobExamines, TwoLists
<1>3. Examines(UnwrapIdentity(wrapped),
               (({wrapped} \X {"text"}) \union ({wrapped} \X {"short", "altered"}))
                 \union ({wrapped} \X {"length"}))
  BY <1>1, <1>2, TwoLists DEF UnwrapIdentity
<1>4. (({wrapped} \X {"text"}) \union ({wrapped} \X {"short", "altered"}))
        \union ({wrapped} \X {"length"})
        = {wrapped} \X {"text", "short", "altered", "length"}
  OBVIOUS
<1> QED
  BY <1>3, <1>4

LEMMA UnwrapAmkExamines ==
  ASSUME NEW wrapped
  PROVE  Examines(UnwrapAmk(wrapped), {wrapped} \X {"text", "short", "altered", "length"})
<1>1. Examines(Check(wrapped, "text", Decode), {wrapped} \X {"text"})
  BY EncodingCheck, Classes DEF Check
<1>2. Examines(Check(wrapped, "length", Flow("bad amk length")), {wrapped} \X {"length"})
  BY InvalidCheck, Classes DEF Check, WRONG_CREDENTIAL_MESSAGES
<1>3. Examines(Check(wrapped, "text", Decode) \o OpenAead({}, wrapped),
               ({wrapped} \X {"text"}) \union ({wrapped} \X {"short", "altered"}))
  BY <1>1, OpenBlobExamines, TwoLists
<1>4. Examines(UnwrapAmk(wrapped),
               (({wrapped} \X {"text"}) \union ({wrapped} \X {"short", "altered"}))
                 \union ({wrapped} \X {"length"}))
  BY <1>2, <1>3, TwoLists DEF UnwrapAmk
<1>5. (({wrapped} \X {"text"}) \union ({wrapped} \X {"short", "altered"}))
        \union ({wrapped} \X {"length"})
        = {wrapped} \X {"text", "short", "altered", "length"}
  OBVIOUS
<1> QED
  BY <1>4, <1>5

LEMMA IdentitySecretExamines ==
  Examines(IdentitySecret, {"identity_secret_b64"} \X {"text", "length"})
<1>1. Examines(Check("identity_secret_b64", "length", Decode),
               {"identity_secret_b64"} \X {"length"})
  BY EncodingCheck, Classes DEF Check
<1>2. Examines(IdentitySecret, ({"identity_secret_b64"} \X {"text"})
                                 \union ({"identity_secret_b64"} \X {"length"}))
  BY <1>1, Unb64Examines, TwoLists DEF IdentitySecret
<1>3. ({"identity_secret_b64"} \X {"text"}) \union ({"identity_secret_b64"} \X {"length"})
        = {"identity_secret_b64"} \X {"text", "length"}
  OBVIOUS
<1> QED
  BY <1>2, <1>3

LEMMA SymmetricKeyExamines == Examines(SymmetricKey, {"key_b64"} \X {"text", "length"})
<1>1. Examines(Check("key_b64", "length", Flow("bad symmetric key length")),
               {"key_b64"} \X {"length"})
  BY InvalidCheck, Classes DEF Check, WRONG_CREDENTIAL_MESSAGES
<1>2. Examines(SymmetricKey, ({"key_b64"} \X {"text"}) \union ({"key_b64"} \X {"length"}))
  BY <1>1, Unb64Examines, TwoLists DEF SymmetricKey
<1>3. ({"key_b64"} \X {"text"}) \union ({"key_b64"} \X {"length"})
        = {"key_b64"} \X {"text", "length"}
  OBVIOUS
<1> QED
  BY <1>2, <1>3

LEMMA PublicBlobsExamines ==
  ASSUME NEW param
  PROVE  Examines(PublicBlobs(param), {param} \X {"version", "text", "length"})
BY EncodingCheck, Classes DEF PublicBlobs

LEMMA OpenItemExamines ==
  Examines(OpenItem,
    ({"item_json"} \X {"version", "envelope", "text", "length", "short", "altered", "utf8"})
      \union ({"identity_secret_b64"} \X {"wrong"}))
<1> DEFINE version == Check("item_json", "version", Decode)
           found   == Check("identity_secret_b64", "wrong", WrongKey)
           decoded == Checks({"item_json"}, {"envelope", "text", "length"}, Decode)
           text    == Check("item_json", "utf8", FromUtf8Error)
<1>1. /\ Examines(version, {"item_json"} \X {"version"})
      /\ Examines(decoded, {"item_json"} \X {"envelope", "text", "length"})
  BY EncodingCheck, Classes DEF Check
<1>2. Examines(found, {"identity_secret_b64"} \X {"wrong"})
  BY WrongCheck, Classes DEF Check, Credentials
<1>3. Examines(text, {"item_json"} \X {"utf8"})
  BY InvalidCheck, Classes DEF Check
<1>4. OpenItem = version \o found \o decoded \o OpenAead({}, "item_json") \o text
  BY DEF OpenItem
<1> HIDE DEF version, found, decoded, text
<1>5. Examines(version \o found, ({"item_json"} \X {"version"})
                                   \union ({"identity_secret_b64"} \X {"wrong"}))
  BY <1>1, <1>2, TwoLists
<1>6. Examines((version \o found) \o decoded,
               (({"item_json"} \X {"version"}) \union ({"identity_secret_b64"} \X {"wrong"}))
                 \union ({"item_json"} \X {"envelope", "text", "length"}))
  BY <1>1, <1>5, TwoLists
<1>7. Examines(((version \o found) \o decoded) \o OpenAead({}, "item_json"),
               ((({"item_json"} \X {"version"})
                  \union ({"identity_secret_b64"} \X {"wrong"}))
                 \union ({"item_json"} \X {"envelope", "text", "length"}))
                 \union ({"item_json"} \X {"short", "altered"}))
  BY <1>6, OpenBlobExamines, TwoLists
<1>8. Examines(OpenItem,
               (((({"item_json"} \X {"version"})
                  \union ({"identity_secret_b64"} \X {"wrong"}))
                 \union ({"item_json"} \X {"envelope", "text", "length"}))
                 \union ({"item_json"} \X {"short", "altered"}))
                 \union ({"item_json"} \X {"utf8"}))
  BY <1>3, <1>4, <1>7, TwoLists
<1>9. (((({"item_json"} \X {"version"}) \union ({"identity_secret_b64"} \X {"wrong"}))
          \union ({"item_json"} \X {"envelope", "text", "length"}))
          \union ({"item_json"} \X {"short", "altered"})) \union ({"item_json"} \X {"utf8"})
        = ({"item_json"}
             \X {"version", "envelope", "text", "length", "short", "altered", "utf8"})
            \union ({"identity_secret_b64"} \X {"wrong"})
  OBVIOUS
<1> QED
  BY <1>8, <1>9

LEMMA OpenShareExamines ==
  Examines(OpenShare,
    ({"envelope_b64"} \X {"shape", "version", "length", "short", "altered", "utf8"})
      \union ({"key_blob"} \X {"shape", "text", "cipher", "length", "wrong"}))
<1> DEFINE header == Checks({"envelope_b64"}, {"shape", "version"}, Decode)
           key    == Checks({"key_blob"}, {"shape", "text"}, Decode)
           cipher == Check("key_blob", "cipher", Decode)
           length == Checks({"envelope_b64", "key_blob"}, {"length"}, Decode)
           bundle == Check("envelope_b64", "utf8", Decode)
           first  == ({"envelope_b64"} \X {"shape", "version"})
                       \union ({"key_blob"} \X {"shape", "text"})
           opened == ({"envelope_b64"} \X {"short", "altered"})
                       \union ({"key_blob"} \X {"wrong"})
<1>1. /\ Examines(header, {"envelope_b64"} \X {"shape", "version"})
      /\ Examines(key, {"key_blob"} \X {"shape", "text"})
      /\ Examines(cipher, {"key_blob"} \X {"cipher"})
      /\ Examines(length, {"envelope_b64", "key_blob"} \X {"length"})
      /\ Examines(bundle, {"envelope_b64"} \X {"utf8"})
  BY EncodingCheck, Classes DEF Check
<1>2. Examines(OpenAead({"key_blob"}, "envelope_b64"), opened)
  BY OpenAeadExamines DEF Credentials
<1>3. OpenShare = header \o key \o cipher \o length
                    \o OpenAead({"key_blob"}, "envelope_b64") \o bundle
  BY DEF OpenShare
<1> HIDE DEF header, key, cipher, length, bundle, opened
<1>4. Examines(header \o key, first)
  BY <1>1, TwoLists
<1> HIDE DEF first
<1>5. Examines((header \o key) \o cipher, first \union ({"key_blob"} \X {"cipher"}))
  BY <1>1, <1>4, TwoLists
<1>6. Examines(((header \o key) \o cipher) \o length,
               (first \union ({"key_blob"} \X {"cipher"}))
                 \union ({"envelope_b64", "key_blob"} \X {"length"}))
  BY <1>1, <1>5, TwoLists
<1>7. Examines((((header \o key) \o cipher) \o length)
                 \o OpenAead({"key_blob"}, "envelope_b64"),
               ((first \union ({"key_blob"} \X {"cipher"}))
                 \union ({"envelope_b64", "key_blob"} \X {"length"})) \union opened)
  BY <1>2, <1>6, TwoLists
<1>8. Examines(OpenShare,
               (((first \union ({"key_blob"} \X {"cipher"}))
                   \union ({"envelope_b64", "key_blob"} \X {"length"})) \union opened)
                 \union ({"envelope_b64"} \X {"utf8"}))
  BY <1>1, <1>3, <1>7, TwoLists
<1>9. (((first \union ({"key_blob"} \X {"cipher"}))
          \union ({"envelope_b64", "key_blob"} \X {"length"})) \union opened)
        \union ({"envelope_b64"} \X {"utf8"})
        = ({"envelope_b64"} \X {"shape", "version", "length", "short", "altered", "utf8"})
            \union ({"key_blob"} \X {"shape", "text", "cipher", "length", "wrong"})
  BY DEF first, opened
<1> QED
  BY <1>8, <1>9

LEMMA OpenBackupExamines ==
  Examines(OpenBackup, ({"data"} \X {"shape", "version", "short", "altered", "kdf", "utf8"})
                         \union ({"passphrase"} \X {"wrong"}))
<1> DEFINE header == Checks({"data"}, {"shape", "version"}, Decode)
           error  == Flow("wrong passphrase or corrupted backup")
           pairs  == ({"data"} \X {"shape", "version"})
                       \union (({"data"} \X {"short", "altered"})
                                 \union ({"passphrase"} \X {"wrong"}))
           all    == pairs \union ({"data"} \X {"kdf"})
           kdf    == Check("data", "kdf", WrongKey)
           folded == Folded(header \o OpenAead({"passphrase"}, "data") \o kdf, error)
<1>1. LooksAt(header, {"data"} \X {"shape", "version"})
  BY OneCheck
<1>2. LooksAt(OpenAead({"passphrase"}, "data"),
              ({"data"} \X {"short", "altered"}) \union ({"passphrase"} \X {"wrong"}))
  BY OpenAeadExamines DEF Examines, Credentials
<1>3. LooksAt(header \o OpenAead({"passphrase"}, "data"), pairs)
  BY <1>1, <1>2, TwoLists
<1>4. LooksAt(kdf, {"data"} \X {"kdf"})
  BY OneCheck DEF Check
<1>5. LooksAt((header \o OpenAead({"passphrase"}, "data")) \o kdf, all)
  BY <1>3, <1>4, TwoLists
<1>6. Class(error) = "WrongCredential"
  BY Classes DEF WRONG_CREDENTIAL_MESSAGES
<1>7. \A p, f : <<p, f>> \in all => Deserved(p, f, error)
  BY <1>6 DEF Deserved, Lumped, Credentials
<1>8. Examines(folded, all)
  BY <1>5, <1>7, FoldedList
<1>9. Examines(Check("data", "utf8", FromUtf8Error), {"data"} \X {"utf8"})
  BY InvalidCheck, Classes DEF Check
<1>10. Examines(folded \o Check("data", "utf8", FromUtf8Error),
               all \union ({"data"} \X {"utf8"}))
  BY <1>8, <1>9, TwoLists
<1>11. all \union ({"data"} \X {"utf8"})
        = ({"data"} \X {"shape", "version", "short", "altered", "kdf", "utf8"})
            \union ({"passphrase"} \X {"wrong"})
  OBVIOUS
<1> QED
  BY <1>10, <1>11 DEF OpenBackup

LEMMA NkKeyExamines == Examines(NkKey, {"nk_b64"} \X {"length"})
BY InvalidCheck, Classes DEF NkKey, Check

LEMMA AesDecryptExamines ==
  ASSUME NEW keys \in SUBSET Credentials, NEW blob
  PROVE  Examines(AesDecrypt(keys, blob),
                  ({blob} \X {"shape", "text", "length", "altered"})
                    \union (keys \X {"wrong"}))
<1> DEFINE malformed == InvalidInput("malformed pns1 blob")
           error     == Flow("wrong namespace passphrase")
<1>1. /\ Examines(Check(blob, "shape", malformed), {blob} \X {"shape"})
      /\ Examines(Check(blob, "length", malformed), {blob} \X {"length"})
  BY InvalidCheck, Classes DEF Check
<1>2. Class(error) = "WrongCredential"
  BY Classes DEF WRONG_CREDENTIAL_MESSAGES
<1>3. /\ Examines(Checks({blob}, {"altered"}, error), {blob} \X {"altered"})
      /\ Examines(Checks(keys, {"wrong"}, error), keys \X {"wrong"})
  BY <1>2, WrongCheck
<1>4. AesDecrypt(keys, blob)
        = Check(blob, "shape", malformed) \o Unb64(blob) \o Check(blob, "length", malformed)
            \o Checks({blob}, {"altered"}, error) \o Checks(keys, {"wrong"}, error)
  BY DEF AesDecrypt
<1> HIDE DEF malformed, error
<1>5. Examines(Check(blob, "shape", malformed) \o Unb64(blob),
               ({blob} \X {"shape"}) \union ({blob} \X {"text"}))
  BY <1>1, Unb64Examines, TwoLists
<1>6. Examines((Check(blob, "shape", malformed) \o Unb64(blob))
                 \o Check(blob, "length", malformed),
               (({blob} \X {"shape"}) \union ({blob} \X {"text"}))
                 \union ({blob} \X {"length"}))
  BY <1>1, <1>5, TwoLists
<1>7. Examines(((Check(blob, "shape", malformed) \o Unb64(blob))
                 \o Check(blob, "length", malformed)) \o Checks({blob}, {"altered"}, error),
               ((({blob} \X {"shape"}) \union ({blob} \X {"text"}))
                 \union ({blob} \X {"length"})) \union ({blob} \X {"altered"}))
  BY <1>3, <1>6, TwoLists
<1>8. ((({blob} \X {"shape"}) \union ({blob} \X {"text"})) \union ({blob} \X {"length"}))
        \union ({blob} \X {"altered"}) = {blob} \X {"shape", "text", "length", "altered"}
  OBVIOUS
<1>9. Examines(((Check(blob, "shape", malformed) \o Unb64(blob))
                 \o Check(blob, "length", malformed)) \o Checks({blob}, {"altered"}, error),
               {blob} \X {"shape", "text", "length", "altered"})
  BY <1>7, <1>8
<1>10. Examines((((Check(blob, "shape", malformed) \o Unb64(blob))
                   \o Check(blob, "length", malformed))
                   \o Checks({blob}, {"altered"}, error)) \o Checks(keys, {"wrong"}, error),
                ({blob} \X {"shape", "text", "length", "altered"}) \union (keys \X {"wrong"}))
  BY <1>3, <1>9, TwoLists
<1> QED
  BY <1>4, <1>10

-----------------------------------------------------------------------------
(* The flows.                                                              *)

\* What an adapter's flow must do for NothingBadOpens and BlameIsDeserved: look
\* at nothing but its parameters, notice every fault they can have but those the
\* core cannot notice, and put down each to what deserves it.
Serves(name, signature) ==
  /\ IsChecks(signature.checks)
  /\ Believable(signature.checks)
  /\ \A p, f : Catches(signature.checks, p, f) => p \in Range(signature.params)
  /\ \A p \in Range(signature.params) : \A f \in Kinds(p) :
       f \in Faults(p) => \/ Catches(signature.checks, p, f)
                          \/ <<name, p, f>> \in TakenAsGiven

\* A flow serves if it looks at these pairs.
LEMMA ServesBy ==
  ASSUME NEW name, NEW params, NEW checks, NEW pairs, Examines(checks, pairs),
         \A p, f : <<p, f>> \in pairs => p \in Range(params),
         \A p \in Range(params) : \A f \in Kinds(p) :
           f \in Faults(p) => <<p, f>> \in pairs \/ <<name, p, f>> \in TakenAsGiven
  PROVE  Serves(name, Signature(params, checks))
<1> DEFINE s == Signature(params, checks)
<1>1. s.params = params /\ s.checks = checks
  BY DEF Signature
<1> HIDE DEF s
<1>2. Serves(name, s)
  BY <1>1 DEF Serves, Examines, LooksAt
<1> QED
  BY <1>2 DEF s

\* The one flow that folds the AEAD itself.
LEMMA OpenSymmetricExamines ==
  Examines(Folded(OpenAead({"key_b64", "aad"}, "blob"),
                  Flow("decrypt failed (wrong key or tampered)")),
           ({"blob"} \X {"short", "altered"}) \union ({"key_b64", "aad"} \X {"wrong"}))
<1> DEFINE error == Flow("decrypt failed (wrong key or tampered)")
           pairs == ({"blob"} \X {"short", "altered"})
                      \union ({"key_b64", "aad"} \X {"wrong"})
<1>1. LooksAt(OpenAead({"key_b64", "aad"}, "blob"), pairs)
  BY OpenAeadExamines DEF Examines, Credentials
<1>2. Class(error) = "WrongCredential"
  BY Classes DEF WRONG_CREDENTIAL_MESSAGES
<1>3. \A p, f : <<p, f>> \in pairs => Deserved(p, f, error)
  BY <1>2 DEF Deserved, Lumped, Credentials
<1> QED
  BY <1>1, <1>3, FoldedList

\* The sets of the parameters of a flow.
LEMMA Ranges ==
  /\ Range(<<>>) = {}
  /\ \A a : Range(<<a>>) = {a}
  /\ \A a, b : Range(<<a, b>>) = {a, b}
  /\ \A a, b, c : Range(<<a, b, c>>) = {a, b, c}
  /\ \A a, b, c, d : Range(<<a, b, c, d>>) = {a, b, c, d}
  /\ \A a, b, c, d, e : Range(<<a, b, c, d, e>>) = {a, b, c, d, e}
BY DEF Range

\* Row by row, the table of what can be wrong.
LEMMA KindsAre ==
  /\ \A a \in {"passphrase", "old_passphrase", "new_passphrase", "recovery_code", "aad",
               "msg"} : Kinds(a) = {"wrong"}
  /\ \A a \in {"prf_secret_b64", "salt_b64"} : Kinds(a) = {"text", "wrong"}
  /\ \A a \in {"secret_key_b64", "old_secret_key_b64", "identity_secret_b64", "key_b64",
               "nk_b64", "sign_pubkey_b64", "sig_b64"} :
       Kinds(a) = {"text", "length", "wrong"}
  /\ Kinds("wrapped_auk_json") = WrapFaults \union {"salt", "kdf", "params"}
  /\ \A a \in {"wrapped_recovery_json", "wrapped_auk_prf_json"} :
       Kinds(a) = WrapFaults \union {"params"}
  /\ \A a \in {"wrapped_identity_b64", "old_wrapped_identity_b64", "wrapped_amk",
               "existing_wrapped_amk"} : Kinds(a) = {"text", "short", "altered", "length"}
  /\ Kinds("item_json") = WrapFaults \union {"envelope", "utf8"}
  /\ Kinds("recipient_pub_blobs_json") = {"json", "version", "text", "length", "empty"}
  /\ \A a \in {"bundle_json", "cert_json", "leaf_json", "sth_json", "sigs_json",
               "custodians_json"} : Kinds(a) = {"json"}
  /\ \A a \in {"cipher_id", "profile_id"} : Kinds(a) = {"unknown"}
  /\ Kinds("envelope_b64")
       = {"text", "shape", "version", "length", "short", "altered", "utf8"}
  /\ Kinds("key_blob") = {"shape", "text", "cipher", "length", "wrong"}
  /\ Kinds("data") = {"shape", "version", "short", "altered", "kdf", "utf8"}
  /\ Kinds("blob") = {"short", "altered"}
  /\ Kinds("wrapped") = {"shape", "text", "length", "altered"}
  /\ Kinds("protected") = {"shape", "text", "length", "altered", "utf8"}
  /\ \A a \in {"value", "plaintext", "ct", "json", "threshold"} : Kinds(a) = {}
BY DEF Kinds

\* What TakenAsGiven says of each flow.
LEMMA TakenAre ==
  /\ \A name \in {"create_vault", "create_vault_profile", "export_backup"} :
       <<name, "passphrase", "wrong">> \in TakenAsGiven
  /\ \A name \in {"reset_passphrase", "change_passphrase"} :
       <<name, "new_passphrase", "wrong">> \in TakenAsGiven
  /\ \A a \in {"sign_pubkey_b64", "msg", "sig_b64"} :
       <<"verify_message", a, "wrong">> \in TakenAsGiven
  /\ \A name \in {"sign_message", "amk_sign", "amk_sign_prf"} :
       <<name, "msg", "wrong">> \in TakenAsGiven
  /\ \A a \in {"key_b64", "aad"} : <<"seal_symmetric", a, "wrong">> \in TakenAsGiven
  /\ \A a \in {"nk_b64", "passphrase", "salt_b64"} :
       <<"ns_wrap_nk", a, "wrong">> \in TakenAsGiven
  /\ \A name \in {"ns_wrap_nk", "ns_nk_hash"}, f \in {"wrong", "length"} :
       <<name, "nk_b64", f>> \in TakenAsGiven
  /\ \A f \in Faults("protected") : <<"ns_is_protected", "protected", f>> \in TakenAsGiven
  /\ \A name \in {"unlock_vault", "change_passphrase", "rotate_secret_key",
                  "rotate_recovery_code", "rotate_identity", "enroll_prf", "amk_ensure",
                  "amk_sign"} : <<name, "wrapped_auk_json", "params">> \in TakenAsGiven
  /\ \A name \in {"unlock_recovery", "reset_passphrase"} :
       <<name, "wrapped_recovery_json", "params">> \in TakenAsGiven
  /\ \A name \in {"unlock_prf", "amk_ensure_prf", "amk_sign_prf"} :
       <<name, "wrapped_auk_prf_json", "params">> \in TakenAsGiven
  /\ <<"reset_passphrase", "secret_key_b64", "wrong">> \in TakenAsGiven
  /\ <<"enroll_prf", "prf_secret_b64", "wrong">> \in TakenAsGiven
  /\ <<"sign_message", "identity_secret_b64", "wrong">> \in TakenAsGiven
  /\ <<"ns_protect_value", "nk_b64", "wrong">> \in TakenAsGiven
  /\ <<"message_digest", "aad", "wrong">> \in TakenAsGiven
BY DEF TakenAsGiven

\* Every flow serves its adapter, group by group as Flows has them.
LEMMA IdentityFlowsServe ==
  /\ Serves("generate_identity", IdentityFlows.generate_identity)
  /\ Serves("encrypt_item", IdentityFlows.encrypt_item)
  /\ Serves("decrypt_item", IdentityFlows.decrypt_item)
  /\ Serves("encrypt_share", IdentityFlows.encrypt_share)
  /\ Serves("decrypt_share", IdentityFlows.decrypt_share)
<1>1. Serves("generate_identity", Signature(<<>>, <<>>))
  BY NoCheck, Ranges, ServesBy
<1>2. Serves("encrypt_item", Signature(<<"value", "recipient_pub_blobs_json">>,
        FromJson("recipient_pub_blobs_json") \o PublicBlobs("recipient_pub_blobs_json") \o
        Check("recipient_pub_blobs_json", "empty",
        InvalidInput("at least one recipient required"))))
  <2> DEFINE checks == FromJson("recipient_pub_blobs_json")
             \o PublicBlobs("recipient_pub_blobs_json") \o
             Check("recipient_pub_blobs_json", "empty",
             InvalidInput("at least one recipient required"))
  <2>1. Examines(Check("recipient_pub_blobs_json", "empty",
          InvalidInput("at least one recipient required")), {"recipient_pub_blobs_json"}
          \X {"empty"})
    BY InvalidCheck, Classes DEF Check, WRONG_CREDENTIAL_MESSAGES
  <2>2. Examines(checks, (({"recipient_pub_blobs_json"} \X {"json"})
          \union ({"recipient_pub_blobs_json"} \X {"version", "text", "length"}))
          \union ({"recipient_pub_blobs_json"} \X {"empty"}))
    BY <2>1, FromJsonExamines, PublicBlobsExamines, TwoLists
  <2>3. Range(<<"value", "recipient_pub_blobs_json">>) = {"value",
        "recipient_pub_blobs_json"}
    BY Ranges
  <2>4. /\ Kinds("value") = {}
        /\ Kinds("recipient_pub_blobs_json") = {"json", "version", "text", "length", "empty"}
    BY KindsAre
  <2> HIDE DEF checks
  <2>5. Serves("encrypt_item", Signature(<<"value", "recipient_pub_blobs_json">>, checks))
    BY <2>2, <2>3, <2>4, ServesBy
  <2> QED
    BY <2>5 DEF checks
<1>3. Serves("decrypt_item", Signature(<<"item_json", "identity_secret_b64">>,
        FromJson("item_json") \o IdentitySecret \o OpenItem))
  <2>1. Examines(FromJson("item_json") \o IdentitySecret
          \o OpenItem, (({"item_json"} \X {"json"})
          \union ({"identity_secret_b64"} \X {"text", "length"})) \union (({"item_json"}
          \X {"version", "envelope", "text", "length", "short", "altered", "utf8"})
          \union ({"identity_secret_b64"} \X {"wrong"})))
    BY FromJsonExamines, IdentitySecretExamines, OpenItemExamines, TwoLists
  <2>2. Range(<<"item_json", "identity_secret_b64">>) = {"item_json",
        "identity_secret_b64"}
    BY Ranges
  <2>3. /\ Kinds("item_json") = WrapFaults \union {"envelope", "utf8"}
        /\ Kinds("identity_secret_b64") = {"text", "length", "wrong"}
    BY KindsAre DEF WrapFaults
  <2> QED
    BY <2>1, <2>2, <2>3, ServesBy DEF WrapFaults
<1>4. Serves("encrypt_share", Signature(<<"bundle_json", "cipher_id">>,
        FromJson("bundle_json")
        \o Check("cipher_id", "unknown", Flow("unknown cipher id"))))
  <2> DEFINE checks == FromJson("bundle_json")
             \o Check("cipher_id", "unknown", Flow("unknown cipher id"))
  <2>1. Examines(Check("cipher_id", "unknown", Flow("unknown cipher id")), {"cipher_id"}
          \X {"unknown"})
    BY InvalidCheck, Classes DEF Check, WRONG_CREDENTIAL_MESSAGES
  <2>2. Examines(checks, ({"bundle_json"} \X {"json"})
          \union ({"cipher_id"} \X {"unknown"}))
    BY <2>1, FromJsonExamines, TwoLists
  <2>3. Range(<<"bundle_json", "cipher_id">>) = {"bundle_json", "cipher_id"}
    BY Ranges
  <2>4. /\ Kinds("bundle_json") = {"json"}
        /\ Kinds("cipher_id") = {"unknown"}
    BY KindsAre
  <2> HIDE DEF checks
  <2>5. Serves("encrypt_share", Signature(<<"bundle_json", "cipher_id">>, checks))
    BY <2>2, <2>3, <2>4, ServesBy
  <2> QED
    BY <2>5 DEF checks
<1>5. Serves("decrypt_share", Signature(<<"envelope_b64", "key_blob">>,
        Unb64("envelope_b64") \o OpenShare))
  <2>1. Examines(Unb64("envelope_b64") \o OpenShare, ({"envelope_b64"} \X {"text"}) \union
          (({"envelope_b64"} \X {"shape", "version", "length", "short", "altered",
          "utf8"}) \union ({"key_blob"} \X {"shape", "text", "cipher", "length", "wrong"})))
    BY OpenShareExamines, Unb64Examines, TwoLists
  <2>2. Range(<<"envelope_b64", "key_blob">>) = {"envelope_b64", "key_blob"}
    BY Ranges
  <2>3. /\ Kinds("envelope_b64")
             = {"text", "shape", "version", "length", "short", "altered", "utf8"}
        /\ Kinds("key_blob") = {"shape", "text", "cipher", "length", "wrong"}
    BY KindsAre
  <2> QED
    BY <2>1, <2>2, <2>3, ServesBy
<1> QED
  BY <1>1, <1>2, <1>3, <1>4, <1>5 DEF IdentityFlows

LEMMA VaultFlowsServe ==
  /\ Serves("create_vault", VaultFlows.create_vault)
  /\ Serves("create_vault_profile", VaultFlows.create_vault_profile)
  /\ Serves("unlock_vault", VaultFlows.unlock_vault)
  /\ Serves("unlock_recovery", VaultFlows.unlock_recovery)
  /\ Serves("reset_passphrase", VaultFlows.reset_passphrase)
<1>1. Serves("create_vault", Signature(<<"passphrase">>, <<>>))
  <2>1. Range(<<"passphrase">>) = {"passphrase"}
    BY Ranges
  <2>2. Kinds("passphrase") = {"wrong"}
    BY KindsAre
  <2>3. <<"create_vault", "passphrase", "wrong">> \in TakenAsGiven
    BY TakenAre
  <2> QED
    BY NoCheck, <2>1, <2>2, <2>3, ServesBy
<1>2. Serves("create_vault_profile", Signature(<<"passphrase", "profile_id">>,
        Check("profile_id", "unknown", InvalidInput("unknown kdf profile"))))
  <2> DEFINE checks == Check("profile_id", "unknown", InvalidInput("unknown kdf profile"))
  <2>1. Examines(checks, {"profile_id"} \X {"unknown"})
    BY InvalidCheck, Classes DEF Check, WRONG_CREDENTIAL_MESSAGES
  <2>2. Range(<<"passphrase", "profile_id">>) = {"passphrase", "profile_id"}
    BY Ranges
  <2>3. /\ Kinds("passphrase") = {"wrong"}
        /\ Kinds("profile_id") = {"unknown"}
    BY KindsAre
  <2>4. <<"create_vault_profile", "passphrase", "wrong">> \in TakenAsGiven
    BY TakenAre
  <2> HIDE DEF checks
  <2>5. Serves("create_vault_profile", Signature(<<"passphrase", "profile_id">>, checks))
    BY <2>1, <2>2, <2>3, <2>4, ServesBy
  <2> QED
    BY <2>5 DEF checks
<1>3. Serves("unlock_vault", Signature(<<"passphrase", "secret_key_b64",
        "wrapped_auk_json", "wrapped_identity_b64">>, ParseSk("secret_key_b64")
        \o FromJson("wrapped_auk_json")
        \o OpenWithPassphrase("passphrase", "secret_key_b64")
        \o UnwrapIdentity("wrapped_identity_b64")))
  <2>1. Examines(OpenWithPassphrase("passphrase", "secret_key_b64"), ({"wrapped_auk_json"}
          \X {"version", "text", "salt", "kdf", "short", "altered", "length"})
          \union ({"passphrase", "secret_key_b64"} \X {"wrong"}))
    BY OpenWithPassphraseExamines DEF Credentials
  <2>2. Examines(ParseSk("secret_key_b64") \o FromJson("wrapped_auk_json")
          \o OpenWithPassphrase("passphrase", "secret_key_b64") \o
          UnwrapIdentity("wrapped_identity_b64"), ((({"secret_key_b64"} \X {"text",
          "length"}) \union ({"wrapped_auk_json"} \X {"json"})) \union
          (({"wrapped_auk_json"} \X {"version", "text", "salt", "kdf", "short", "altered",
          "length"}) \union ({"passphrase", "secret_key_b64"} \X {"wrong"})))
          \union ({"wrapped_identity_b64"} \X {"text", "short", "altered", "length"}))
    BY <2>1, FromJsonExamines, ParseSkExamines, UnwrapIdentityExamines, TwoLists
  <2>3. Range(<<"passphrase", "secret_key_b64", "wrapped_auk_json",
        "wrapped_identity_b64">>) = {"passphrase", "secret_key_b64", "wrapped_auk_json",
        "wrapped_identity_b64"}
    BY Ranges
  <2>4. /\ Kinds("passphrase") = {"wrong"}
        /\ Kinds("secret_key_b64") = {"text", "length", "wrong"}
        /\ Kinds("wrapped_auk_json") = WrapFaults \union {"salt", "kdf", "params"}
        /\ Kinds("wrapped_identity_b64") = {"text", "short", "altered", "length"}
    BY KindsAre DEF WrapFaults
  <2>5. <<"unlock_vault", "wrapped_auk_json", "params">> \in TakenAsGiven
    BY TakenAre
  <2> QED
    BY <2>2, <2>3, <2>4, <2>5, ServesBy DEF WrapFaults
<1>4. Serves("unlock_recovery", Signature(<<"recovery_code", "wrapped_recovery_json",
        "wrapped_identity_b64">>, AukFromRecovery
        \o UnwrapIdentity("wrapped_identity_b64")))
  <2>1. Examines(AukFromRecovery \o UnwrapIdentity("wrapped_identity_b64"),
          (({"wrapped_recovery_json"} \X WrapFaults)
          \union ({"recovery_code"} \X {"wrong"}))
          \union ({"wrapped_identity_b64"} \X {"text", "short", "altered", "length"}))
    BY AukFromRecoveryExamines, UnwrapIdentityExamines, TwoLists
  <2>2. Range(<<"recovery_code", "wrapped_recovery_json", "wrapped_identity_b64">>) =
        {"recovery_code", "wrapped_recovery_json", "wrapped_identity_b64"}
    BY Ranges
  <2>3. /\ Kinds("recovery_code") = {"wrong"}
        /\ Kinds("wrapped_recovery_json") = WrapFaults \union {"params"}
        /\ Kinds("wrapped_identity_b64") = {"text", "short", "altered", "length"}
    BY KindsAre DEF WrapFaults
  <2>4. <<"unlock_recovery", "wrapped_recovery_json", "params">> \in TakenAsGiven
    BY TakenAre
  <2> QED
    BY <2>1, <2>2, <2>3, <2>4, ServesBy DEF WrapFaults
<1>5. Serves("reset_passphrase", Signature(<<"recovery_code", "wrapped_recovery_json",
        "secret_key_b64", "new_passphrase">>, AukFromRecovery
        \o ParseSk("secret_key_b64")))
  <2>1. Examines(AukFromRecovery
          \o ParseSk("secret_key_b64"), (({"wrapped_recovery_json"} \X WrapFaults)
          \union ({"recovery_code"} \X {"wrong"}))
          \union ({"secret_key_b64"} \X {"text", "length"}))
    BY AukFromRecoveryExamines, ParseSkExamines, TwoLists
  <2>2. Range(<<"recovery_code", "wrapped_recovery_json", "secret_key_b64",
        "new_passphrase">>) = {"recovery_code", "wrapped_recovery_json", "secret_key_b64",
        "new_passphrase"}
    BY Ranges
  <2>3. /\ Kinds("recovery_code") = {"wrong"}
        /\ Kinds("wrapped_recovery_json") = WrapFaults \union {"params"}
        /\ Kinds("secret_key_b64") = {"text", "length", "wrong"}
        /\ Kinds("new_passphrase") = {"wrong"}
    BY KindsAre DEF WrapFaults
  <2>4. /\ <<"reset_passphrase", "new_passphrase", "wrong">> \in TakenAsGiven
        /\ <<"reset_passphrase", "secret_key_b64", "wrong">> \in TakenAsGiven
        /\ <<"reset_passphrase", "wrapped_recovery_json", "params">> \in TakenAsGiven
    BY TakenAre
  <2> QED
    BY <2>1, <2>2, <2>3, <2>4, ServesBy DEF WrapFaults
<1> QED
  BY <1>1, <1>2, <1>3, <1>4, <1>5 DEF VaultFlows

LEMMA MessageFlowsServe ==
  /\ Serves("generate_symmetric_key", MessageFlows.generate_symmetric_key)
  /\ Serves("seal_symmetric", MessageFlows.seal_symmetric)
  /\ Serves("open_symmetric", MessageFlows.open_symmetric)
  /\ Serves("sign_message", MessageFlows.sign_message)
  /\ Serves("verify_message", MessageFlows.verify_message)
<1>1. Serves("generate_symmetric_key", Signature(<<>>, <<>>))
  BY NoCheck, Ranges, ServesBy
<1>2. Serves("seal_symmetric", Signature(<<"key_b64", "plaintext", "aad">>, SymmetricKey))
  <2>1. Examines(SymmetricKey, {"key_b64"} \X {"text", "length"})
    BY SymmetricKeyExamines
  <2>2. Range(<<"key_b64", "plaintext", "aad">>) = {"key_b64", "plaintext", "aad"}
    BY Ranges
  <2>3. /\ Kinds("key_b64") = {"text", "length", "wrong"}
        /\ Kinds("plaintext") = {}
        /\ Kinds("aad") = {"wrong"}
    BY KindsAre
  <2>4. /\ <<"seal_symmetric", "key_b64", "wrong">> \in TakenAsGiven
        /\ <<"seal_symmetric", "aad", "wrong">> \in TakenAsGiven
    BY TakenAre
  <2> QED
    BY <2>1, <2>2, <2>3, <2>4, ServesBy
<1>3. Serves("open_symmetric", Signature(<<"key_b64", "blob", "aad">>, SymmetricKey \o
        Folded(OpenAead({"key_b64", "aad"}, "blob"),
        Flow("decrypt failed (wrong key or tampered)"))))
  <2> DEFINE checks == SymmetricKey \o Folded(OpenAead({"key_b64", "aad"}, "blob"),
             Flow("decrypt failed (wrong key or tampered)"))
  <2>1. Examines(checks, ({"key_b64"} \X {"text", "length"})
          \union (({"blob"} \X {"short", "altered"})
          \union ({"key_b64", "aad"} \X {"wrong"})))
    BY OpenSymmetricExamines, SymmetricKeyExamines, TwoLists
  <2>2. Range(<<"key_b64", "blob", "aad">>) = {"key_b64", "blob", "aad"}
    BY Ranges
  <2>3. /\ Kinds("key_b64") = {"text", "length", "wrong"}
        /\ Kinds("blob") = {"short", "altered"}
        /\ Kinds("aad") = {"wrong"}
    BY KindsAre
  <2> HIDE DEF checks
  <2>4. Serves("open_symmetric", Signature(<<"key_b64", "blob", "aad">>, checks))
    BY <2>1, <2>2, <2>3, ServesBy
  <2> QED
    BY <2>4 DEF checks
<1>4. Serves("sign_message", Signature(<<"identity_secret_b64", "msg">>, IdentitySecret))
  <2>1. Examines(IdentitySecret, {"identity_secret_b64"} \X {"text", "length"})
    BY IdentitySecretExamines
  <2>2. Range(<<"identity_secret_b64", "msg">>) = {"identity_secret_b64", "msg"}
    BY Ranges
  <2>3. /\ Kinds("identity_secret_b64") = {"text", "length", "wrong"}
        /\ Kinds("msg") = {"wrong"}
    BY KindsAre
  <2>4. /\ <<"sign_message", "msg", "wrong">> \in TakenAsGiven
        /\ <<"sign_message", "identity_secret_b64", "wrong">> \in TakenAsGiven
    BY TakenAre
  <2> QED
    BY <2>1, <2>2, <2>3, <2>4, ServesBy
<1>5. Serves("verify_message", Signature(<<"sign_pubkey_b64", "msg", "sig_b64">>,
        Unb64("sign_pubkey_b64")
        \o Check("sign_pubkey_b64", "length", Flow("bad sign pubkey length"))
        \o Unb64("sig_b64") \o Check("sig_b64", "length", Flow("bad signature length"))))
  <2> DEFINE checks == Unb64("sign_pubkey_b64")
             \o Check("sign_pubkey_b64", "length", Flow("bad sign pubkey length"))
             \o Unb64("sig_b64")
             \o Check("sig_b64", "length", Flow("bad signature length"))
  <2>1. Examines(Check("sign_pubkey_b64", "length", Flow("bad sign pubkey length")),
          {"sign_pubkey_b64"} \X {"length"})
    BY InvalidCheck, Classes DEF Check, WRONG_CREDENTIAL_MESSAGES
  <2>2. Examines(Check("sig_b64", "length", Flow("bad signature length")), {"sig_b64"} \X
          {"length"})
    BY InvalidCheck, Classes DEF Check, WRONG_CREDENTIAL_MESSAGES
  <2>3. Examines(checks, ((({"sign_pubkey_b64"} \X {"text"})
          \union ({"sign_pubkey_b64"} \X {"length"})) \union ({"sig_b64"} \X {"text"}))
          \union ({"sig_b64"} \X {"length"}))
    BY <2>1, <2>2, Unb64Examines, TwoLists
  <2>4. Range(<<"sign_pubkey_b64", "msg", "sig_b64">>) = {"sign_pubkey_b64", "msg",
        "sig_b64"}
    BY Ranges
  <2>5. /\ Kinds("sign_pubkey_b64") = {"text", "length", "wrong"}
        /\ Kinds("msg") = {"wrong"}
        /\ Kinds("sig_b64") = {"text", "length", "wrong"}
    BY KindsAre
  <2>6. /\ <<"verify_message", "sign_pubkey_b64", "wrong">> \in TakenAsGiven
        /\ <<"verify_message", "msg", "wrong">> \in TakenAsGiven
        /\ <<"verify_message", "sig_b64", "wrong">> \in TakenAsGiven
    BY TakenAre
  <2> HIDE DEF checks
  <2>7. Serves("verify_message", Signature(<<"sign_pubkey_b64", "msg", "sig_b64">>, checks))
    BY <2>3, <2>4, <2>5, <2>6, ServesBy
  <2> QED
    BY <2>7 DEF checks
<1> QED
  BY <1>1, <1>2, <1>3, <1>4, <1>5 DEF MessageFlows

LEMMA RewrapFlowsServe ==
  /\ Serves("change_passphrase", RewrapFlows.change_passphrase)
  /\ Serves("rotate_secret_key", RewrapFlows.rotate_secret_key)
  /\ Serves("rotate_recovery_code", RewrapFlows.rotate_recovery_code)
  /\ Serves("rotate_identity", RewrapFlows.rotate_identity)
<1>1. Serves("change_passphrase", Signature(<<"old_passphrase", "secret_key_b64",
        "wrapped_auk_json", "new_passphrase">>, UnlockAuk("old_passphrase",
        "secret_key_b64")))
  <2>1. Examines(UnlockAuk("old_passphrase", "secret_key_b64"), (({"wrapped_auk_json"} \X
          (WrapFaults \union {"salt", "kdf"}))
          \union ({"secret_key_b64"} \X {"text", "length", "wrong"}))
          \union ({"old_passphrase"} \X {"wrong"}))
    BY UnlockAukExamines DEF Credentials
  <2>2. Range(<<"old_passphrase", "secret_key_b64", "wrapped_auk_json",
        "new_passphrase">>) = {"old_passphrase", "secret_key_b64", "wrapped_auk_json",
        "new_passphrase"}
    BY Ranges
  <2>3. /\ Kinds("old_passphrase") = {"wrong"}
        /\ Kinds("secret_key_b64") = {"text", "length", "wrong"}
        /\ Kinds("wrapped_auk_json") = WrapFaults \union {"salt", "kdf", "params"}
        /\ Kinds("new_passphrase") = {"wrong"}
    BY KindsAre DEF WrapFaults
  <2>4. /\ <<"change_passphrase", "new_passphrase", "wrong">> \in TakenAsGiven
        /\ <<"change_passphrase", "wrapped_auk_json", "params">> \in TakenAsGiven
    BY TakenAre
  <2> QED
    BY <2>1, <2>2, <2>3, <2>4, ServesBy DEF WrapFaults
<1>2. Serves("rotate_secret_key", Signature(<<"passphrase", "old_secret_key_b64",
        "wrapped_auk_json">>, UnlockAuk("passphrase", "old_secret_key_b64")))
  <2>1. Examines(UnlockAuk("passphrase", "old_secret_key_b64"), (({"wrapped_auk_json"} \X
          (WrapFaults \union {"salt", "kdf"}))
          \union ({"old_secret_key_b64"} \X {"text", "length", "wrong"}))
          \union ({"passphrase"} \X {"wrong"}))
    BY UnlockAukExamines DEF Credentials
  <2>2. Range(<<"passphrase", "old_secret_key_b64", "wrapped_auk_json">>) = {"passphrase",
        "old_secret_key_b64", "wrapped_auk_json"}
    BY Ranges
  <2>3. /\ Kinds("passphrase") = {"wrong"}
        /\ Kinds("old_secret_key_b64") = {"text", "length", "wrong"}
        /\ Kinds("wrapped_auk_json") = WrapFaults \union {"salt", "kdf", "params"}
    BY KindsAre DEF WrapFaults
  <2>4. <<"rotate_secret_key", "wrapped_auk_json", "params">> \in TakenAsGiven
    BY TakenAre
  <2> QED
    BY <2>1, <2>2, <2>3, <2>4, ServesBy DEF WrapFaults
<1>3. Serves("rotate_recovery_code", Signature(<<"passphrase", "secret_key_b64",
        "wrapped_auk_json">>, UnlockAuk("passphrase", "secret_key_b64")))
  <2>1. Examines(UnlockAuk("passphrase", "secret_key_b64"), (({"wrapped_auk_json"} \X
          (WrapFaults \union {"salt", "kdf"}))
          \union ({"secret_key_b64"} \X {"text", "length", "wrong"}))
          \union ({"passphrase"} \X {"wrong"}))
    BY UnlockAukExamines DEF Credentials
  <2>2. Range(<<"passphrase", "secret_key_b64", "wrapped_auk_json">>) = {"passphrase",
        "secret_key_b64", "wrapped_auk_json"}
    BY Ranges
  <2>3. /\ Kinds("passphrase") = {"wrong"}
        /\ Kinds("secret_key_b64") = {"text", "length", "wrong"}
        /\ Kinds("wrapped_auk_json") = WrapFaults \union {"salt", "kdf", "params"}
    BY KindsAre DEF WrapFaults
  <2>4. <<"rotate_recovery_code", "wrapped_auk_json", "params">> \in TakenAsGiven
    BY TakenAre
  <2> QED
    BY <2>1, <2>2, <2>3, <2>4, ServesBy DEF WrapFaults
<1>4. Serves("rotate_identity", Signature(<<"passphrase", "secret_key_b64",
        "wrapped_auk_json", "old_wrapped_identity_b64">>, UnlockAuk("passphrase",
        "secret_key_b64") \o UnwrapIdentity("old_wrapped_identity_b64")))
  <2>1. Examines(UnlockAuk("passphrase", "secret_key_b64"), (({"wrapped_auk_json"} \X
          (WrapFaults \union {"salt", "kdf"}))
          \union ({"secret_key_b64"} \X {"text", "length", "wrong"}))
          \union ({"passphrase"} \X {"wrong"}))
    BY UnlockAukExamines DEF Credentials
  <2>2. Examines(UnlockAuk("passphrase", "secret_key_b64") \o
          UnwrapIdentity("old_wrapped_identity_b64"), ((({"wrapped_auk_json"} \X
          (WrapFaults \union {"salt", "kdf"}))
          \union ({"secret_key_b64"} \X {"text", "length", "wrong"}))
          \union ({"passphrase"} \X {"wrong"}))
          \union ({"old_wrapped_identity_b64"} \X {"text", "short", "altered", "length"}))
    BY <2>1, UnwrapIdentityExamines, TwoLists
  <2>3. Range(<<"passphrase", "secret_key_b64", "wrapped_auk_json",
        "old_wrapped_identity_b64">>) = {"passphrase", "secret_key_b64",
        "wrapped_auk_json", "old_wrapped_identity_b64"}
    BY Ranges
  <2>4. /\ Kinds("passphrase") = {"wrong"}
        /\ Kinds("secret_key_b64") = {"text", "length", "wrong"}
        /\ Kinds("wrapped_auk_json") = WrapFaults \union {"salt", "kdf", "params"}
        /\ Kinds("old_wrapped_identity_b64") = {"text", "short", "altered", "length"}
    BY KindsAre DEF WrapFaults
  <2>5. <<"rotate_identity", "wrapped_auk_json", "params">> \in TakenAsGiven
    BY TakenAre
  <2> QED
    BY <2>2, <2>3, <2>4, <2>5, ServesBy DEF WrapFaults
<1> QED
  BY <1>1, <1>2, <1>3, <1>4 DEF RewrapFlows

LEMMA BackupFlowsServe ==
  /\ Serves("export_backup", BackupFlows.export_backup)
  /\ Serves("import_backup", BackupFlows.import_backup)
<1>1. Serves("export_backup", Signature(<<"json", "passphrase">>, <<>>))
  <2>1. Range(<<"json", "passphrase">>) = {"json", "passphrase"}
    BY Ranges
  <2>2. /\ Kinds("json") = {}
        /\ Kinds("passphrase") = {"wrong"}
    BY KindsAre
  <2>3. <<"export_backup", "passphrase", "wrong">> \in TakenAsGiven
    BY TakenAre
  <2> QED
    BY NoCheck, <2>1, <2>2, <2>3, ServesBy
<1>2. Serves("import_backup", Signature(<<"data", "passphrase">>, OpenBackup))
  <2>1. Examines(OpenBackup, ({"data"} \X {"shape", "version", "short", "altered",
          "kdf", "utf8"}) \union ({"passphrase"} \X {"wrong"}))
    BY OpenBackupExamines
  <2>2. Range(<<"data", "passphrase">>) = {"data", "passphrase"}
    BY Ranges
  <2>3. /\ Kinds("data") = {"shape", "version", "short", "altered", "kdf", "utf8"}
        /\ Kinds("passphrase") = {"wrong"}
    BY KindsAre
  <2> QED
    BY <2>1, <2>2, <2>3, ServesBy
<1> QED
  BY <1>1, <1>2 DEF BackupFlows

LEMMA PasskeyFlowsServe ==
  /\ Serves("enroll_prf", PasskeyFlows.enroll_prf)
  /\ Serves("unlock_prf", PasskeyFlows.unlock_prf)
<1>1. Serves("enroll_prf", Signature(<<"passphrase", "secret_key_b64", "wrapped_auk_json",
        "prf_secret_b64">>, ParseSk("secret_key_b64") \o FromJson("wrapped_auk_json")
        \o OpenWithPassphrase("passphrase", "secret_key_b64") \o Unb64("prf_secret_b64")))
  <2>1. Examines(OpenWithPassphrase("passphrase", "secret_key_b64"), ({"wrapped_auk_json"}
          \X {"version", "text", "salt", "kdf", "short", "altered", "length"})
          \union ({"passphrase", "secret_key_b64"} \X {"wrong"}))
    BY OpenWithPassphraseExamines DEF Credentials
  <2>2. Examines(ParseSk("secret_key_b64") \o FromJson("wrapped_auk_json")
          \o OpenWithPassphrase("passphrase", "secret_key_b64")
          \o Unb64("prf_secret_b64"), ((({"secret_key_b64"} \X {"text", "length"})
          \union ({"wrapped_auk_json"} \X {"json"})) \union (({"wrapped_auk_json"} \X
          {"version", "text", "salt", "kdf", "short", "altered", "length"})
          \union ({"passphrase", "secret_key_b64"} \X {"wrong"})))
          \union ({"prf_secret_b64"} \X {"text"}))
    BY <2>1, FromJsonExamines, ParseSkExamines, Unb64Examines, TwoLists
  <2>3. Range(<<"passphrase", "secret_key_b64", "wrapped_auk_json", "prf_secret_b64">>) =
        {"passphrase", "secret_key_b64", "wrapped_auk_json", "prf_secret_b64"}
    BY Ranges
  <2>4. /\ Kinds("passphrase") = {"wrong"}
        /\ Kinds("secret_key_b64") = {"text", "length", "wrong"}
        /\ Kinds("wrapped_auk_json") = WrapFaults \union {"salt", "kdf", "params"}
        /\ Kinds("prf_secret_b64") = {"text", "wrong"}
    BY KindsAre DEF WrapFaults
  <2>5. /\ <<"enroll_prf", "prf_secret_b64", "wrong">> \in TakenAsGiven
        /\ <<"enroll_prf", "wrapped_auk_json", "params">> \in TakenAsGiven
    BY TakenAre
  <2> QED
    BY <2>2, <2>3, <2>4, <2>5, ServesBy DEF WrapFaults
<1>2. Serves("unlock_prf", Signature(<<"prf_secret_b64", "wrapped_auk_prf_json",
        "wrapped_identity_b64">>, AukFromPrf \o UnwrapIdentity("wrapped_identity_b64")))
  <2>1. Examines(AukFromPrf \o UnwrapIdentity("wrapped_identity_b64"),
          (({"wrapped_auk_prf_json"} \X WrapFaults)
          \union ({"prf_secret_b64"} \X {"text", "wrong"}))
          \union ({"wrapped_identity_b64"} \X {"text", "short", "altered", "length"}))
    BY AukFromPrfExamines, UnwrapIdentityExamines, TwoLists
  <2>2. Range(<<"prf_secret_b64", "wrapped_auk_prf_json", "wrapped_identity_b64">>) =
        {"prf_secret_b64", "wrapped_auk_prf_json", "wrapped_identity_b64"}
    BY Ranges
  <2>3. /\ Kinds("prf_secret_b64") = {"text", "wrong"}
        /\ Kinds("wrapped_auk_prf_json") = WrapFaults \union {"params"}
        /\ Kinds("wrapped_identity_b64") = {"text", "short", "altered", "length"}
    BY KindsAre DEF WrapFaults
  <2>4. <<"unlock_prf", "wrapped_auk_prf_json", "params">> \in TakenAsGiven
    BY TakenAre
  <2> QED
    BY <2>1, <2>2, <2>3, <2>4, ServesBy DEF WrapFaults
<1> QED
  BY <1>1, <1>2 DEF PasskeyFlows

LEMMA AmkFlowsServe ==
  /\ Serves("amk_ensure", AmkFlows.amk_ensure)
  /\ Serves("amk_sign", AmkFlows.amk_sign)
  /\ Serves("amk_ensure_prf", AmkFlows.amk_ensure_prf)
  /\ Serves("amk_sign_prf", AmkFlows.amk_sign_prf)
<1>1. Serves("amk_ensure", Signature(<<"passphrase", "secret_key_b64", "wrapped_auk_json",
        "existing_wrapped_amk">>, UnlockAuk("passphrase", "secret_key_b64")
        \o UnwrapAmk("existing_wrapped_amk")))
  <2>1. Examines(UnlockAuk("passphrase", "secret_key_b64"), (({"wrapped_auk_json"} \X
          (WrapFaults \union {"salt", "kdf"}))
          \union ({"secret_key_b64"} \X {"text", "length", "wrong"}))
          \union ({"passphrase"} \X {"wrong"}))
    BY UnlockAukExamines DEF Credentials
  <2>2. Examines(UnlockAuk("passphrase", "secret_key_b64")
          \o UnwrapAmk("existing_wrapped_amk"), ((({"wrapped_auk_json"} \X
          (WrapFaults \union {"salt", "kdf"}))
          \union ({"secret_key_b64"} \X {"text", "length", "wrong"}))
          \union ({"passphrase"} \X {"wrong"}))
          \union ({"existing_wrapped_amk"} \X {"text", "short", "altered", "length"}))
    BY <2>1, UnwrapAmkExamines, TwoLists
  <2>3. Range(<<"passphrase", "secret_key_b64", "wrapped_auk_json",
        "existing_wrapped_amk">>) = {"passphrase", "secret_key_b64", "wrapped_auk_json",
        "existing_wrapped_amk"}
    BY Ranges
  <2>4. /\ Kinds("passphrase") = {"wrong"}
        /\ Kinds("secret_key_b64") = {"text", "length", "wrong"}
        /\ Kinds("wrapped_auk_json") = WrapFaults \union {"salt", "kdf", "params"}
        /\ Kinds("existing_wrapped_amk") = {"text", "short", "altered", "length"}
    BY KindsAre DEF WrapFaults
  <2>5. <<"amk_ensure", "wrapped_auk_json", "params">> \in TakenAsGiven
    BY TakenAre
  <2> QED
    BY <2>2, <2>3, <2>4, <2>5, ServesBy DEF WrapFaults
<1>2. Serves("amk_sign", Signature(<<"passphrase", "secret_key_b64", "wrapped_auk_json",
        "wrapped_amk", "msg">>, UnlockAuk("passphrase", "secret_key_b64")
        \o UnwrapAmk("wrapped_amk")))
  <2>1. Examines(UnlockAuk("passphrase", "secret_key_b64"), (({"wrapped_auk_json"} \X
          (WrapFaults \union {"salt", "kdf"}))
          \union ({"secret_key_b64"} \X {"text", "length", "wrong"}))
          \union ({"passphrase"} \X {"wrong"}))
    BY UnlockAukExamines DEF Credentials
  <2>2. Examines(UnlockAuk("passphrase", "secret_key_b64")
          \o UnwrapAmk("wrapped_amk"), ((({"wrapped_auk_json"} \X
          (WrapFaults \union {"salt", "kdf"}))
          \union ({"secret_key_b64"} \X {"text", "length", "wrong"}))
          \union ({"passphrase"} \X {"wrong"}))
          \union ({"wrapped_amk"} \X {"text", "short", "altered", "length"}))
    BY <2>1, UnwrapAmkExamines, TwoLists
  <2>3. Range(<<"passphrase", "secret_key_b64", "wrapped_auk_json", "wrapped_amk",
        "msg">>) = {"passphrase", "secret_key_b64", "wrapped_auk_json", "wrapped_amk",
        "msg"}
    BY Ranges
  <2>4. /\ Kinds("passphrase") = {"wrong"}
        /\ Kinds("secret_key_b64") = {"text", "length", "wrong"}
        /\ Kinds("wrapped_auk_json") = WrapFaults \union {"salt", "kdf", "params"}
        /\ Kinds("wrapped_amk") = {"text", "short", "altered", "length"}
        /\ Kinds("msg") = {"wrong"}
    BY KindsAre DEF WrapFaults
  <2>5. /\ <<"amk_sign", "msg", "wrong">> \in TakenAsGiven
        /\ <<"amk_sign", "wrapped_auk_json", "params">> \in TakenAsGiven
    BY TakenAre
  <2> QED
    BY <2>2, <2>3, <2>4, <2>5, ServesBy DEF WrapFaults
<1>3. Serves("amk_ensure_prf", Signature(<<"prf_secret_b64", "wrapped_auk_prf_json",
        "existing_wrapped_amk">>, AukFromPrf \o UnwrapAmk("existing_wrapped_amk")))
  <2>1. Examines(AukFromPrf
          \o UnwrapAmk("existing_wrapped_amk"), (({"wrapped_auk_prf_json"} \X WrapFaults)
          \union ({"prf_secret_b64"} \X {"text", "wrong"}))
          \union ({"existing_wrapped_amk"} \X {"text", "short", "altered", "length"}))
    BY AukFromPrfExamines, UnwrapAmkExamines, TwoLists
  <2>2. Range(<<"prf_secret_b64", "wrapped_auk_prf_json", "existing_wrapped_amk">>) =
        {"prf_secret_b64", "wrapped_auk_prf_json", "existing_wrapped_amk"}
    BY Ranges
  <2>3. /\ Kinds("prf_secret_b64") = {"text", "wrong"}
        /\ Kinds("wrapped_auk_prf_json") = WrapFaults \union {"params"}
        /\ Kinds("existing_wrapped_amk") = {"text", "short", "altered", "length"}
    BY KindsAre DEF WrapFaults
  <2>4. <<"amk_ensure_prf", "wrapped_auk_prf_json", "params">> \in TakenAsGiven
    BY TakenAre
  <2> QED
    BY <2>1, <2>2, <2>3, <2>4, ServesBy DEF WrapFaults
<1>4. Serves("amk_sign_prf", Signature(<<"prf_secret_b64", "wrapped_auk_prf_json",
        "wrapped_amk", "msg">>, AukFromPrf \o UnwrapAmk("wrapped_amk")))
  <2>1. Examines(AukFromPrf
          \o UnwrapAmk("wrapped_amk"), (({"wrapped_auk_prf_json"} \X WrapFaults)
          \union ({"prf_secret_b64"} \X {"text", "wrong"}))
          \union ({"wrapped_amk"} \X {"text", "short", "altered", "length"}))
    BY AukFromPrfExamines, UnwrapAmkExamines, TwoLists
  <2>2. Range(<<"prf_secret_b64", "wrapped_auk_prf_json", "wrapped_amk", "msg">>) =
        {"prf_secret_b64", "wrapped_auk_prf_json", "wrapped_amk", "msg"}
    BY Ranges
  <2>3. /\ Kinds("prf_secret_b64") = {"text", "wrong"}
        /\ Kinds("wrapped_auk_prf_json") = WrapFaults \union {"params"}
        /\ Kinds("wrapped_amk") = {"text", "short", "altered", "length"}
        /\ Kinds("msg") = {"wrong"}
    BY KindsAre DEF WrapFaults
  <2>4. /\ <<"amk_sign_prf", "msg", "wrong">> \in TakenAsGiven
        /\ <<"amk_sign_prf", "wrapped_auk_prf_json", "params">> \in TakenAsGiven
    BY TakenAre
  <2> QED
    BY <2>1, <2>2, <2>3, <2>4, ServesBy DEF WrapFaults
<1> QED
  BY <1>1, <1>2, <1>3, <1>4 DEF AmkFlows

LEMMA DigestFlowsServe == Serves("message_digest", DigestFlows.message_digest)
<1>1. Serves("message_digest", Signature(<<"aad", "ct">>, <<>>))
  <2>1. Range(<<"aad", "ct">>) = {"aad", "ct"}
    BY Ranges
  <2>2. /\ Kinds("aad") = {"wrong"}
        /\ Kinds("ct") = {}
    BY KindsAre
  <2>3. <<"message_digest", "aad", "wrong">> \in TakenAsGiven
    BY TakenAre
  <2> QED
    BY NoCheck, <2>1, <2>2, <2>3, ServesBy
<1> QED
  BY <1>1 DEF DigestFlows

LEMMA NamespaceFlowsServe ==
  /\ Serves("ns_random_nk", NamespaceFlows.ns_random_nk)
  /\ Serves("ns_random_salt", NamespaceFlows.ns_random_salt)
  /\ Serves("ns_random_recovery_code", NamespaceFlows.ns_random_recovery_code)
  /\ Serves("ns_wrap_nk", NamespaceFlows.ns_wrap_nk)
  /\ Serves("ns_unwrap_nk", NamespaceFlows.ns_unwrap_nk)
  /\ Serves("ns_protect_value", NamespaceFlows.ns_protect_value)
  /\ Serves("ns_unprotect_value", NamespaceFlows.ns_unprotect_value)
  /\ Serves("ns_nk_hash", NamespaceFlows.ns_nk_hash)
  /\ Serves("ns_is_protected", NamespaceFlows.ns_is_protected)
<1>1. Serves("ns_random_nk", Signature(<<>>, <<>>))
  BY NoCheck, Ranges, ServesBy
<1>2. Serves("ns_random_salt", Signature(<<>>, <<>>))
  BY NoCheck, Ranges, ServesBy
<1>3. Serves("ns_random_recovery_code", Signature(<<>>, <<>>))
  BY NoCheck, Ranges, ServesBy
<1>4. Serves("ns_wrap_nk", Signature(<<"nk_b64", "passphrase", "salt_b64">>,
        Unb64("nk_b64") \o Unb64("salt_b64")))
  <2>1. Examines(Unb64("nk_b64") \o Unb64("salt_b64"), ({"nk_b64"} \X {"text"})
          \union ({"salt_b64"} \X {"text"}))
    BY Unb64Examines, TwoLists
  <2>2. Range(<<"nk_b64", "passphrase", "salt_b64">>) = {"nk_b64", "passphrase",
        "salt_b64"}
    BY Ranges
  <2>3. /\ Kinds("nk_b64") = {"text", "length", "wrong"}
        /\ Kinds("passphrase") = {"wrong"}
        /\ Kinds("salt_b64") = {"text", "wrong"}
    BY KindsAre
  <2>4. /\ <<"ns_wrap_nk", "nk_b64", "wrong">> \in TakenAsGiven
        /\ <<"ns_wrap_nk", "passphrase", "wrong">> \in TakenAsGiven
        /\ <<"ns_wrap_nk", "salt_b64", "wrong">> \in TakenAsGiven
        /\ <<"ns_wrap_nk", "nk_b64", "length">> \in TakenAsGiven
    BY TakenAre
  <2> QED
    BY <2>1, <2>2, <2>3, <2>4, ServesBy
<1>5. Serves("ns_unwrap_nk", Signature(<<"wrapped", "passphrase", "salt_b64">>,
        Unb64("salt_b64") \o AesDecrypt({"passphrase", "salt_b64"}, "wrapped")))
  <2>1. Examines(AesDecrypt({"passphrase", "salt_b64"}, "wrapped"), ({"wrapped"} \X
          {"shape", "text", "length", "altered"})
          \union ({"passphrase", "salt_b64"} \X {"wrong"}))
    BY AesDecryptExamines DEF Credentials
  <2>2. Examines(Unb64("salt_b64")
          \o AesDecrypt({"passphrase", "salt_b64"}, "wrapped"), ({"salt_b64"} \X {"text"})
          \union (({"wrapped"} \X {"shape", "text", "length", "altered"})
          \union ({"passphrase", "salt_b64"} \X {"wrong"})))
    BY <2>1, Unb64Examines, TwoLists
  <2>3. Range(<<"wrapped", "passphrase", "salt_b64">>) = {"wrapped", "passphrase",
        "salt_b64"}
    BY Ranges
  <2>4. /\ Kinds("wrapped") = {"shape", "text", "length", "altered"}
        /\ Kinds("passphrase") = {"wrong"}
        /\ Kinds("salt_b64") = {"text", "wrong"}
    BY KindsAre
  <2> QED
    BY <2>2, <2>3, <2>4, ServesBy
<1>6. Serves("ns_protect_value", Signature(<<"nk_b64", "value">>, Unb64("nk_b64")
        \o NkKey))
  <2>1. Examines(Unb64("nk_b64") \o NkKey, ({"nk_b64"} \X {"text"})
          \union ({"nk_b64"} \X {"length"}))
    BY NkKeyExamines, Unb64Examines, TwoLists
  <2>2. Range(<<"nk_b64", "value">>) = {"nk_b64", "value"}
    BY Ranges
  <2>3. /\ Kinds("nk_b64") = {"text", "length", "wrong"}
        /\ Kinds("value") = {}
    BY KindsAre
  <2>4. <<"ns_protect_value", "nk_b64", "wrong">> \in TakenAsGiven
    BY TakenAre
  <2> QED
    BY <2>1, <2>2, <2>3, <2>4, ServesBy
<1>7. Serves("ns_unprotect_value", Signature(<<"nk_b64", "protected">>, Unb64("nk_b64")
        \o NkKey \o AesDecrypt({"nk_b64"}, "protected")
        \o Check("protected", "utf8", FromUtf8Error)))
  <2>1. Examines(AesDecrypt({"nk_b64"}, "protected"), ({"protected"} \X {"shape", "text",
          "length", "altered"}) \union ({"nk_b64"} \X {"wrong"}))
    BY AesDecryptExamines DEF Credentials
  <2>2. Examines(Check("protected", "utf8", FromUtf8Error), {"protected"} \X {"utf8"})
    BY InvalidCheck, Classes DEF Check, WRONG_CREDENTIAL_MESSAGES
  <2>3. Examines(Unb64("nk_b64") \o NkKey \o AesDecrypt({"nk_b64"}, "protected")
          \o Check("protected", "utf8", FromUtf8Error), ((({"nk_b64"} \X {"text"})
          \union ({"nk_b64"} \X {"length"}))
          \union (({"protected"} \X {"shape", "text", "length", "altered"})
          \union ({"nk_b64"} \X {"wrong"}))) \union ({"protected"} \X {"utf8"}))
    BY <2>1, <2>2, NkKeyExamines, Unb64Examines, TwoLists
  <2>4. Range(<<"nk_b64", "protected">>) = {"nk_b64", "protected"}
    BY Ranges
  <2>5. /\ Kinds("nk_b64") = {"text", "length", "wrong"}
        /\ Kinds("protected") = {"shape", "text", "length", "altered", "utf8"}
    BY KindsAre
  <2> QED
    BY <2>3, <2>4, <2>5, ServesBy
<1>8. Serves("ns_nk_hash", Signature(<<"nk_b64">>, Unb64("nk_b64")))
  <2>1. Examines(Unb64("nk_b64"), {"nk_b64"} \X {"text"})
    BY Unb64Examines
  <2>2. Range(<<"nk_b64">>) = {"nk_b64"}
    BY Ranges
  <2>3. Kinds("nk_b64") = {"text", "length", "wrong"}
    BY KindsAre
  <2>4. /\ <<"ns_nk_hash", "nk_b64", "wrong">> \in TakenAsGiven
        /\ <<"ns_nk_hash", "nk_b64", "length">> \in TakenAsGiven
    BY TakenAre
  <2> QED
    BY <2>1, <2>2, <2>3, <2>4, ServesBy
<1>9. Serves("ns_is_protected", Signature(<<"protected">>, <<>>))
  <2>1. Range(<<"protected">>) = {"protected"}
    BY Ranges
  <2>2. Kinds("protected") = {"shape", "text", "length", "altered", "utf8"}
    BY KindsAre
  <2>3. \A f \in Faults("protected") : <<"ns_is_protected", "protected", f>> \in TakenAsGiven
    BY TakenAre
  <2> QED
    BY NoCheck, <2>1, <2>2, <2>3, ServesBy
<1> QED
  BY <1>1, <1>2, <1>3, <1>4, <1>5, <1>6, <1>7, <1>8, <1>9 DEF NamespaceFlows

LEMMA KeyLogFlowsServe ==
  /\ Serves("cert_bytes", KeyLogFlows.cert_bytes_json)
  /\ Serves("leaf_bytes", KeyLogFlows.leaf_bytes_json)
  /\ Serves("sth_message", KeyLogFlows.sth_message_json)
  /\ Serves("verify_cert", KeyLogFlows.verify_cert_json)
<1>1. Serves("cert_bytes", Signature(<<"cert_json">>, FromJson("cert_json")))
  <2>1. Examines(FromJson("cert_json"), {"cert_json"} \X {"json"})
    BY FromJsonExamines
  <2> QED
    BY <2>1, Ranges, KindsAre, ServesBy
<1>2. Serves("leaf_bytes", Signature(<<"leaf_json">>, FromJson("leaf_json")))
  <2>1. Examines(FromJson("leaf_json"), {"leaf_json"} \X {"json"})
    BY FromJsonExamines
  <2> QED
    BY <2>1, Ranges, KindsAre, ServesBy
<1>3. Serves("sth_message", Signature(<<"sth_json">>, FromJson("sth_json")))
  <2>1. Examines(FromJson("sth_json"), {"sth_json"} \X {"json"})
    BY FromJsonExamines
  <2> QED
    BY <2>1, Ranges, KindsAre, ServesBy
<1>4. Serves("verify_cert", Signature(<<"cert_json", "sigs_json", "custodians_json",
        "threshold">>, FromJson("cert_json") \o FromJson("sigs_json")
        \o FromJson("custodians_json")))
  <2>1. Examines(FromJson("cert_json") \o FromJson("sigs_json")
          \o FromJson("custodians_json"), (({"cert_json"} \X {"json"})
          \union ({"sigs_json"} \X {"json"})) \union ({"custodians_json"} \X {"json"}))
    BY FromJsonExamines, TwoLists
  <2>2. Range(<<"cert_json", "sigs_json", "custodians_json", "threshold">>) =
        {"cert_json", "sigs_json", "custodians_json", "threshold"}
    BY Ranges
  <2>3. /\ Kinds("cert_json") = {"json"}
        /\ Kinds("sigs_json") = {"json"}
        /\ Kinds("custodians_json") = {"json"}
        /\ Kinds("threshold") = {}
    BY KindsAre
  <2> QED
    BY <2>1, <2>2, <2>3, ServesBy
<1> QED
  BY <1>1, <1>2, <1>3, <1>4 DEF KeyLogFlows

-----------------------------------------------------------------------------
(* The tables of flows and of adapters.                                    *)

\* A table of rows with different names has each row of each part.
LEMMA TableRows ==
  ASSUME NEW parts,
         \A part, other \in parts : DOMAIN part \intersect DOMAIN other # {} => part = other
  PROVE  /\ DOMAIN Table(parts) = UNION {DOMAIN part : part \in parts}
         /\ \A part \in parts : \A name \in DOMAIN part :
              Table(parts)[name] = part[name]
<1>1. DOMAIN Table(parts) = UNION {DOMAIN part : part \in parts}
  BY DEF Table
<1>2. ASSUME NEW part \in parts, NEW name \in DOMAIN part
      PROVE  Table(parts)[name] = part[name]
  <2>1. name \in UNION {DOMAIN other : other \in parts}
    OBVIOUS
  <2>2. (CHOOSE other \in parts : name \in DOMAIN other) = part
    OBVIOUS
  <2> QED
    BY <2>1, <2>2 DEF Table
<1> QED
  BY <1>1, <1>2

\* The three tables.
LEMMA FlowTableRows ==
  /\ DOMAIN FlowTable = UNION {DOMAIN part : part \in {IdentityFlows, VaultFlows,
       MessageFlows, RewrapFlows, BackupFlows, PasskeyFlows, AmkFlows, DigestFlows,
       NamespaceFlows, KeyLogFlows}}
  /\ \A part \in {IdentityFlows, VaultFlows, MessageFlows, RewrapFlows, BackupFlows,
       PasskeyFlows, AmkFlows, DigestFlows, NamespaceFlows, KeyLogFlows} : \A name \in
       DOMAIN part : FlowTable[name] = part[name]
<1>1. /\ DOMAIN IdentityFlows = {"generate_identity", "encrypt_item", "decrypt_item",
             "encrypt_share", "decrypt_share"}
      /\ DOMAIN VaultFlows = {"create_vault", "create_vault_profile", "unlock_vault",
             "unlock_recovery", "reset_passphrase"}
      /\ DOMAIN MessageFlows = {"generate_symmetric_key", "seal_symmetric",
             "open_symmetric",
             "sign_message", "verify_message"}
      /\ DOMAIN RewrapFlows = {"change_passphrase", "rotate_secret_key",
             "rotate_recovery_code",
             "rotate_identity"}
      /\ DOMAIN BackupFlows = {"export_backup", "import_backup"}
      /\ DOMAIN PasskeyFlows = {"enroll_prf", "unlock_prf"}
      /\ DOMAIN AmkFlows = {"amk_ensure", "amk_sign", "amk_ensure_prf", "amk_sign_prf"}
      /\ DOMAIN DigestFlows = {"message_digest"}
      /\ DOMAIN NamespaceFlows = {"ns_random_nk", "ns_random_salt",
             "ns_random_recovery_code",
             "ns_wrap_nk", "ns_unwrap_nk", "ns_protect_value", "ns_unprotect_value",
             "ns_nk_hash", "ns_is_protected"}
      /\ DOMAIN KeyLogFlows = {"cert_bytes_json", "leaf_bytes_json", "sth_message_json",
             "verify_cert_json"}
  BY DEF IdentityFlows, VaultFlows, MessageFlows, RewrapFlows, BackupFlows,
         PasskeyFlows, AmkFlows, DigestFlows, NamespaceFlows, KeyLogFlows
<1> DEFINE parts == {IdentityFlows, VaultFlows, MessageFlows, RewrapFlows, BackupFlows,
             PasskeyFlows, AmkFlows, DigestFlows, NamespaceFlows, KeyLogFlows}
<1>2. \A part, other \in parts : DOMAIN part \intersect DOMAIN other # {} => part = other
  BY <1>1
<1>3. FlowTable = Table(parts)
  BY DEF FlowTable
<1> HIDE DEF parts
<1>4. /\ DOMAIN FlowTable = UNION {DOMAIN part : part \in parts}
      /\ \A part \in parts : \A name \in DOMAIN part : FlowTable[name] = part[name]
  BY <1>2, <1>3, TableRows
<1> QED
  BY <1>4 DEF parts

LEMMA UniffiRows ==
  /\ DOMAIN Uniffi = UNION {DOMAIN part : part \in {UniffiIdentity, UniffiVault,
       UniffiMessages, UniffiPasskeyAndAmk, UniffiDigestAndProfile, UniffiNamespace,
       UniffiKeyLog}}
  /\ \A part \in {UniffiIdentity, UniffiVault, UniffiMessages, UniffiPasskeyAndAmk,
       UniffiDigestAndProfile, UniffiNamespace, UniffiKeyLog} : \A name \in DOMAIN part :
       Uniffi[name] = part[name]
<1>1. /\ DOMAIN UniffiIdentity = {"generate_identity", "encrypt_item", "decrypt_item",
             "encrypt_share", "decrypt_share"}
      /\ DOMAIN UniffiVault = {"create_vault", "unlock_vault", "unlock_recovery",
             "reset_passphrase", "change_passphrase", "rotate_secret_key",
             "rotate_recovery_code", "rotate_identity"}
      /\ DOMAIN UniffiMessages = {"generate_symmetric_key", "seal_symmetric",
             "open_symmetric",
             "sign_message", "verify_message", "export_backup", "import_backup"}
      /\ DOMAIN UniffiPasskeyAndAmk = {"enroll_prf", "unlock_prf", "amk_ensure", "amk_sign",
             "amk_ensure_prf", "amk_sign_prf"}
      /\ DOMAIN UniffiDigestAndProfile = {"message_digest", "create_vault_profile"}
      /\ DOMAIN UniffiNamespace = {"ns_random_nk", "ns_random_salt",
             "ns_random_recovery_code",
             "ns_wrap_nk", "ns_unwrap_nk", "ns_protect_value", "ns_unprotect_value",
             "ns_nk_hash", "ns_is_protected"}
      /\ DOMAIN UniffiKeyLog = {"cert_bytes", "leaf_bytes", "sth_message", "verify_cert"}
  BY DEF UniffiIdentity, UniffiVault, UniffiMessages, UniffiPasskeyAndAmk,
         UniffiDigestAndProfile, UniffiNamespace, UniffiKeyLog
<1> DEFINE parts == {UniffiIdentity, UniffiVault, UniffiMessages, UniffiPasskeyAndAmk,
             UniffiDigestAndProfile, UniffiNamespace, UniffiKeyLog}
<1>2. \A part, other \in parts : DOMAIN part \intersect DOMAIN other # {} => part = other
  BY <1>1
<1>3. Uniffi = Table(parts)
  BY DEF Uniffi
<1> HIDE DEF parts
<1>4. /\ DOMAIN Uniffi = UNION {DOMAIN part : part \in parts}
      /\ \A part \in parts : \A name \in DOMAIN part : Uniffi[name] = part[name]
  BY <1>2, <1>3, TableRows
<1> QED
  BY <1>4 DEF parts

LEMMA WasmRows ==
  /\ DOMAIN Wasm = UNION {DOMAIN part : part \in {WasmIdentity, WasmVault, WasmMessages,
       WasmRotations, WasmBackupAndPasskey, WasmAmk, WasmDigestAndProfile, WasmNamespace,
       WasmKeyLog}}
  /\ \A part \in {WasmIdentity, WasmVault, WasmMessages, WasmRotations,
       WasmBackupAndPasskey, WasmAmk, WasmDigestAndProfile, WasmNamespace, WasmKeyLog} :
       \A name \in DOMAIN part : Wasm[name] = part[name]
<1>1. /\ DOMAIN WasmIdentity = {"generate_identity", "encrypt_item", "decrypt_item",
             "encrypt_share", "decrypt_share"}
      /\ DOMAIN WasmVault = {"create_vault", "unlock_vault", "unlock_recovery",
             "reset_passphrase"}
      /\ DOMAIN WasmMessages = {"generate_symmetric_key", "seal_symmetric",
             "open_symmetric",
             "sign_message", "verify_message"}
      /\ DOMAIN WasmRotations = {"change_passphrase", "rotate_secret_key",
             "rotate_recovery_code",
             "rotate_identity"}
      /\ DOMAIN WasmBackupAndPasskey = {"export_backup", "import_backup", "enroll_prf",
             "unlock_prf"}
      /\ DOMAIN WasmAmk = {"amk_ensure", "amk_sign", "amk_ensure_prf", "amk_sign_prf"}
      /\ DOMAIN WasmDigestAndProfile = {"message_digest", "create_vault_profile"}
      /\ DOMAIN WasmNamespace = {"ns_random_nk", "ns_random_salt",
             "ns_random_recovery_code",
             "ns_wrap_nk", "ns_unwrap_nk", "ns_protect_value", "ns_unprotect_value",
             "ns_nk_hash", "ns_is_protected"}
      /\ DOMAIN WasmKeyLog = {"cert_bytes", "leaf_bytes", "sth_message", "verify_cert"}
  BY DEF WasmIdentity, WasmVault, WasmMessages, WasmRotations, WasmBackupAndPasskey,
         WasmAmk, WasmDigestAndProfile, WasmNamespace, WasmKeyLog
<1> DEFINE parts == {WasmIdentity, WasmVault, WasmMessages, WasmRotations,
             WasmBackupAndPasskey, WasmAmk, WasmDigestAndProfile, WasmNamespace,
             WasmKeyLog}
<1>2. \A part, other \in parts : DOMAIN part \intersect DOMAIN other # {} => part = other
  BY <1>1
<1>3. Wasm = Table(parts)
  BY DEF Wasm
<1> HIDE DEF parts
<1>4. /\ DOMAIN Wasm = UNION {DOMAIN part : part \in parts}
      /\ \A part \in parts : \A name \in DOMAIN part : Wasm[name] = part[name]
  BY <1>2, <1>3, TableRows
<1> QED
  BY <1>4 DEF parts
\* The arguments of a row are these, in this order.
Gives(row, params) ==
  /\ Tail(row) = params
  /\ \A k \in DOMAIN params : row[1 + k] = params[k]

\* What SurfacesAgree and NothingBadOpens need of an adapter.
Adapts(name) ==
  LET row == Uniffi[name]  flow == FlowTable[Head(row)]  IN
  /\ name \in DOMAIN Wasm
  /\ Wasm[name] = row
  /\ Gives(row, flow.params)
  /\ Serves(name, flow)

\* The rows of up to five arguments.
LEMMA Rows ==
  /\ \A a : Head(<<a>>) = a /\ Gives(<<a>>, <<>>)
  /\ \A a, b : Head(<<a, b>>) = a /\ Gives(<<a, b>>, <<b>>)
  /\ \A a, b, c : Head(<<a, b, c>>) = a /\ Gives(<<a, b, c>>, <<b, c>>)
  /\ \A a, b, c, d : Head(<<a, b, c, d>>) = a /\ Gives(<<a, b, c, d>>, <<b, c, d>>)
  /\ \A a, b, c, d, e :
       Head(<<a, b, c, d, e>>) = a /\ Gives(<<a, b, c, d, e>>, <<b, c, d, e>>)
  /\ \A a, b, c, d, e, f :
       Head(<<a, b, c, d, e, f>>) = a /\ Gives(<<a, b, c, d, e, f>>, <<b, c, d, e, f>>)
BY DEF Gives

\* Every adapter of the one surface has the same row in the other, and gives its
\* flow the arguments its parameters are named for.
LEMMA IdentityAdapts == \A name \in {"generate_identity", "encrypt_item", "decrypt_item",
  "encrypt_share", "decrypt_share"} : Adapts(name)
<1>1. Adapts("generate_identity")
  <2>1. /\ Uniffi["generate_identity"] = <<"generate_identity">>
        /\ Wasm["generate_identity"] = Uniffi["generate_identity"]
        /\ "generate_identity" \in DOMAIN Wasm
    BY UniffiRows, WasmRows DEF UniffiIdentity, WasmIdentity
  <2>2. /\ FlowTable["generate_identity"] = IdentityFlows.generate_identity
        /\ IdentityFlows.generate_identity.params = <<>>
    BY FlowTableRows DEF IdentityFlows, Signature
  <2>3. /\ Head(Uniffi["generate_identity"]) = "generate_identity"
        /\ Gives(Uniffi["generate_identity"], IdentityFlows.generate_identity.params)
    BY <2>1, <2>2, Rows
  <2> QED
    BY <2>1, <2>2, <2>3, IdentityFlowsServe DEF Adapts
<1>2. Adapts("encrypt_item")
  <2>1. /\ Uniffi["encrypt_item"] = <<"encrypt_item", "value",
              "recipient_pub_blobs_json">>
        /\ Wasm["encrypt_item"] = Uniffi["encrypt_item"] /\ "encrypt_item" \in DOMAIN Wasm
    BY UniffiRows, WasmRows DEF UniffiIdentity, WasmIdentity
  <2>2. /\ FlowTable["encrypt_item"] = IdentityFlows.encrypt_item
        /\ IdentityFlows.encrypt_item.params = <<"value", "recipient_pub_blobs_json">>
    BY FlowTableRows DEF IdentityFlows, Signature
  <2>3. /\ Head(Uniffi["encrypt_item"]) = "encrypt_item"
        /\ Gives(Uniffi["encrypt_item"], IdentityFlows.encrypt_item.params)
    BY <2>1, <2>2, Rows
  <2> QED
    BY <2>1, <2>2, <2>3, IdentityFlowsServe DEF Adapts
<1>3. Adapts("decrypt_item")
  <2>1. /\ Uniffi["decrypt_item"] = <<"decrypt_item", "item_json", "identity_secret_b64">>
        /\ Wasm["decrypt_item"] = Uniffi["decrypt_item"] /\ "decrypt_item" \in DOMAIN Wasm
    BY UniffiRows, WasmRows DEF UniffiIdentity, WasmIdentity
  <2>2. /\ FlowTable["decrypt_item"] = IdentityFlows.decrypt_item
        /\ IdentityFlows.decrypt_item.params = <<"item_json", "identity_secret_b64">>
    BY FlowTableRows DEF IdentityFlows, Signature
  <2>3. /\ Head(Uniffi["decrypt_item"]) = "decrypt_item"
        /\ Gives(Uniffi["decrypt_item"], IdentityFlows.decrypt_item.params)
    BY <2>1, <2>2, Rows
  <2> QED
    BY <2>1, <2>2, <2>3, IdentityFlowsServe DEF Adapts
<1>4. Adapts("encrypt_share")
  <2>1. /\ Uniffi["encrypt_share"] = <<"encrypt_share", "bundle_json", "cipher_id">>
        /\ Wasm["encrypt_share"] = Uniffi["encrypt_share"]
        /\ "encrypt_share" \in DOMAIN Wasm
    BY UniffiRows, WasmRows DEF UniffiIdentity, WasmIdentity
  <2>2. /\ FlowTable["encrypt_share"] = IdentityFlows.encrypt_share
        /\ IdentityFlows.encrypt_share.params = <<"bundle_json", "cipher_id">>
    BY FlowTableRows DEF IdentityFlows, Signature
  <2>3. /\ Head(Uniffi["encrypt_share"]) = "encrypt_share"
        /\ Gives(Uniffi["encrypt_share"], IdentityFlows.encrypt_share.params)
    BY <2>1, <2>2, Rows
  <2> QED
    BY <2>1, <2>2, <2>3, IdentityFlowsServe DEF Adapts
<1>5. Adapts("decrypt_share")
  <2>1. /\ Uniffi["decrypt_share"] = <<"decrypt_share", "envelope_b64", "key_blob">>
        /\ Wasm["decrypt_share"] = Uniffi["decrypt_share"]
        /\ "decrypt_share" \in DOMAIN Wasm
    BY UniffiRows, WasmRows DEF UniffiIdentity, WasmIdentity
  <2>2. /\ FlowTable["decrypt_share"] = IdentityFlows.decrypt_share
        /\ IdentityFlows.decrypt_share.params = <<"envelope_b64", "key_blob">>
    BY FlowTableRows DEF IdentityFlows, Signature
  <2>3. /\ Head(Uniffi["decrypt_share"]) = "decrypt_share"
        /\ Gives(Uniffi["decrypt_share"], IdentityFlows.decrypt_share.params)
    BY <2>1, <2>2, Rows
  <2> QED
    BY <2>1, <2>2, <2>3, IdentityFlowsServe DEF Adapts
<1> QED
  BY <1>1, <1>2, <1>3, <1>4, <1>5

LEMMA VaultAdapts == \A name \in {"create_vault", "create_vault_profile", "unlock_vault",
  "unlock_recovery", "reset_passphrase"} : Adapts(name)
<1>1. Adapts("create_vault")
  <2>1. /\ Uniffi["create_vault"] = <<"create_vault", "passphrase">>
        /\ Wasm["create_vault"] = Uniffi["create_vault"] /\ "create_vault" \in DOMAIN Wasm
    BY UniffiRows, WasmRows DEF UniffiVault, WasmVault
  <2>2. /\ FlowTable["create_vault"] = VaultFlows.create_vault
        /\ VaultFlows.create_vault.params = <<"passphrase">>
    BY FlowTableRows DEF VaultFlows, Signature
  <2>3. /\ Head(Uniffi["create_vault"]) = "create_vault"
        /\ Gives(Uniffi["create_vault"], VaultFlows.create_vault.params)
    BY <2>1, <2>2, Rows
  <2> QED
    BY <2>1, <2>2, <2>3, VaultFlowsServe DEF Adapts
<1>2. Adapts("create_vault_profile")
  <2>1. /\ Uniffi["create_vault_profile"] = <<"create_vault_profile", "passphrase",
              "profile_id">>
        /\ Wasm["create_vault_profile"] = Uniffi["create_vault_profile"]
        /\ "create_vault_profile" \in DOMAIN Wasm
    BY UniffiRows, WasmRows DEF UniffiDigestAndProfile, WasmDigestAndProfile
  <2>2. /\ FlowTable["create_vault_profile"] = VaultFlows.create_vault_profile
        /\ VaultFlows.create_vault_profile.params = <<"passphrase", "profile_id">>
    BY FlowTableRows DEF VaultFlows, Signature
  <2>3. /\ Head(Uniffi["create_vault_profile"]) = "create_vault_profile"
        /\ Gives(Uniffi["create_vault_profile"], VaultFlows.create_vault_profile.params)
    BY <2>1, <2>2, Rows
  <2> QED
    BY <2>1, <2>2, <2>3, VaultFlowsServe DEF Adapts
<1>3. Adapts("unlock_vault")
  <2>1. /\ Uniffi["unlock_vault"] = <<"unlock_vault", "passphrase", "secret_key_b64",
              "wrapped_auk_json", "wrapped_identity_b64">>
        /\ Wasm["unlock_vault"] = Uniffi["unlock_vault"] /\ "unlock_vault" \in DOMAIN Wasm
    BY UniffiRows, WasmRows DEF UniffiVault, WasmVault
  <2>2. /\ FlowTable["unlock_vault"] = VaultFlows.unlock_vault
        /\ VaultFlows.unlock_vault.params = <<"passphrase", "secret_key_b64",
             "wrapped_auk_json", "wrapped_identity_b64">>
    BY FlowTableRows DEF VaultFlows, Signature
  <2>3. /\ Head(Uniffi["unlock_vault"]) = "unlock_vault"
        /\ Gives(Uniffi["unlock_vault"], VaultFlows.unlock_vault.params)
    BY <2>1, <2>2, Rows
  <2> QED
    BY <2>1, <2>2, <2>3, VaultFlowsServe DEF Adapts
<1>4. Adapts("unlock_recovery")
  <2>1. /\ Uniffi["unlock_recovery"] = <<"unlock_recovery", "recovery_code",
              "wrapped_recovery_json", "wrapped_identity_b64">>
        /\ Wasm["unlock_recovery"] = Uniffi["unlock_recovery"]
        /\ "unlock_recovery" \in DOMAIN Wasm
    BY UniffiRows, WasmRows DEF UniffiVault, WasmVault
  <2>2. /\ FlowTable["unlock_recovery"] = VaultFlows.unlock_recovery
        /\ VaultFlows.unlock_recovery.params = <<"recovery_code", "wrapped_recovery_json",
             "wrapped_identity_b64">>
    BY FlowTableRows DEF VaultFlows, Signature
  <2>3. /\ Head(Uniffi["unlock_recovery"]) = "unlock_recovery"
        /\ Gives(Uniffi["unlock_recovery"], VaultFlows.unlock_recovery.params)
    BY <2>1, <2>2, Rows
  <2> QED
    BY <2>1, <2>2, <2>3, VaultFlowsServe DEF Adapts
<1>5. Adapts("reset_passphrase")
  <2>1. /\ Uniffi["reset_passphrase"] = <<"reset_passphrase", "recovery_code",
              "wrapped_recovery_json", "secret_key_b64", "new_passphrase">>
        /\ Wasm["reset_passphrase"] = Uniffi["reset_passphrase"]
        /\ "reset_passphrase" \in DOMAIN Wasm
    BY UniffiRows, WasmRows DEF UniffiVault, WasmVault
  <2>2. /\ FlowTable["reset_passphrase"] = VaultFlows.reset_passphrase
        /\ VaultFlows.reset_passphrase.params = <<"recovery_code",
             "wrapped_recovery_json", "secret_key_b64", "new_passphrase">>
    BY FlowTableRows DEF VaultFlows, Signature
  <2>3. /\ Head(Uniffi["reset_passphrase"]) = "reset_passphrase"
        /\ Gives(Uniffi["reset_passphrase"], VaultFlows.reset_passphrase.params)
    BY <2>1, <2>2, Rows
  <2> QED
    BY <2>1, <2>2, <2>3, VaultFlowsServe DEF Adapts
<1> QED
  BY <1>1, <1>2, <1>3, <1>4, <1>5

LEMMA MessageAdapts == \A name \in {"generate_symmetric_key", "seal_symmetric",
  "open_symmetric", "sign_message", "verify_message"} : Adapts(name)
<1>1. Adapts("generate_symmetric_key")
  <2>1. /\ Uniffi["generate_symmetric_key"] = <<"generate_symmetric_key">>
        /\ Wasm["generate_symmetric_key"] = Uniffi["generate_symmetric_key"]
        /\ "generate_symmetric_key" \in DOMAIN Wasm
    BY UniffiRows, WasmRows DEF UniffiMessages, WasmMessages
  <2>2. /\ FlowTable["generate_symmetric_key"] = MessageFlows.generate_symmetric_key
        /\ MessageFlows.generate_symmetric_key.params = <<>>
    BY FlowTableRows DEF MessageFlows, Signature
  <2>3. /\ Head(Uniffi["generate_symmetric_key"]) = "generate_symmetric_key"
        /\ Gives(Uniffi["generate_symmetric_key"], MessageFlows.generate_symmetric_key.params)
    BY <2>1, <2>2, Rows
  <2> QED
    BY <2>1, <2>2, <2>3, MessageFlowsServe DEF Adapts
<1>2. Adapts("seal_symmetric")
  <2>1. /\ Uniffi["seal_symmetric"] = <<"seal_symmetric", "key_b64", "plaintext", "aad">>
        /\ Wasm["seal_symmetric"] = Uniffi["seal_symmetric"]
        /\ "seal_symmetric" \in DOMAIN Wasm
    BY UniffiRows, WasmRows DEF UniffiMessages, WasmMessages
  <2>2. /\ FlowTable["seal_symmetric"] = MessageFlows.seal_symmetric
        /\ MessageFlows.seal_symmetric.params = <<"key_b64", "plaintext", "aad">>
    BY FlowTableRows DEF MessageFlows, Signature
  <2>3. /\ Head(Uniffi["seal_symmetric"]) = "seal_symmetric"
        /\ Gives(Uniffi["seal_symmetric"], MessageFlows.seal_symmetric.params)
    BY <2>1, <2>2, Rows
  <2> QED
    BY <2>1, <2>2, <2>3, MessageFlowsServe DEF Adapts
<1>3. Adapts("open_symmetric")
  <2>1. /\ Uniffi["open_symmetric"] = <<"open_symmetric", "key_b64", "blob", "aad">>
        /\ Wasm["open_symmetric"] = Uniffi["open_symmetric"]
        /\ "open_symmetric" \in DOMAIN Wasm
    BY UniffiRows, WasmRows DEF UniffiMessages, WasmMessages
  <2>2. /\ FlowTable["open_symmetric"] = MessageFlows.open_symmetric
        /\ MessageFlows.open_symmetric.params = <<"key_b64", "blob", "aad">>
    BY FlowTableRows DEF MessageFlows, Signature
  <2>3. /\ Head(Uniffi["open_symmetric"]) = "open_symmetric"
        /\ Gives(Uniffi["open_symmetric"], MessageFlows.open_symmetric.params)
    BY <2>1, <2>2, Rows
  <2> QED
    BY <2>1, <2>2, <2>3, MessageFlowsServe DEF Adapts
<1>4. Adapts("sign_message")
  <2>1. /\ Uniffi["sign_message"] = <<"sign_message", "identity_secret_b64", "msg">>
        /\ Wasm["sign_message"] = Uniffi["sign_message"] /\ "sign_message" \in DOMAIN Wasm
    BY UniffiRows, WasmRows DEF UniffiMessages, WasmMessages
  <2>2. /\ FlowTable["sign_message"] = MessageFlows.sign_message
        /\ MessageFlows.sign_message.params = <<"identity_secret_b64", "msg">>
    BY FlowTableRows DEF MessageFlows, Signature
  <2>3. /\ Head(Uniffi["sign_message"]) = "sign_message"
        /\ Gives(Uniffi["sign_message"], MessageFlows.sign_message.params)
    BY <2>1, <2>2, Rows
  <2> QED
    BY <2>1, <2>2, <2>3, MessageFlowsServe DEF Adapts
<1>5. Adapts("verify_message")
  <2>1. /\ Uniffi["verify_message"] = <<"verify_message", "sign_pubkey_b64", "msg",
              "sig_b64">>
        /\ Wasm["verify_message"] = Uniffi["verify_message"]
        /\ "verify_message" \in DOMAIN Wasm
    BY UniffiRows, WasmRows DEF UniffiMessages, WasmMessages
  <2>2. /\ FlowTable["verify_message"] = MessageFlows.verify_message
        /\ MessageFlows.verify_message.params = <<"sign_pubkey_b64", "msg", "sig_b64">>
    BY FlowTableRows DEF MessageFlows, Signature
  <2>3. /\ Head(Uniffi["verify_message"]) = "verify_message"
        /\ Gives(Uniffi["verify_message"], MessageFlows.verify_message.params)
    BY <2>1, <2>2, Rows
  <2> QED
    BY <2>1, <2>2, <2>3, MessageFlowsServe DEF Adapts
<1> QED
  BY <1>1, <1>2, <1>3, <1>4, <1>5

LEMMA RewrapAdapts == \A name \in {"change_passphrase", "rotate_secret_key",
  "rotate_recovery_code", "rotate_identity"} : Adapts(name)
<1>1. Adapts("change_passphrase")
  <2>1. /\ Uniffi["change_passphrase"] = <<"change_passphrase", "old_passphrase",
              "secret_key_b64", "wrapped_auk_json", "new_passphrase">>
        /\ Wasm["change_passphrase"] = Uniffi["change_passphrase"]
        /\ "change_passphrase" \in DOMAIN Wasm
    BY UniffiRows, WasmRows DEF UniffiVault, WasmRotations
  <2>2. /\ FlowTable["change_passphrase"] = RewrapFlows.change_passphrase
        /\ RewrapFlows.change_passphrase.params = <<"old_passphrase", "secret_key_b64",
             "wrapped_auk_json", "new_passphrase">>
    BY FlowTableRows DEF RewrapFlows, Signature
  <2>3. /\ Head(Uniffi["change_passphrase"]) = "change_passphrase"
        /\ Gives(Uniffi["change_passphrase"], RewrapFlows.change_passphrase.params)
    BY <2>1, <2>2, Rows
  <2> QED
    BY <2>1, <2>2, <2>3, RewrapFlowsServe DEF Adapts
<1>2. Adapts("rotate_secret_key")
  <2>1. /\ Uniffi["rotate_secret_key"] = <<"rotate_secret_key", "passphrase",
              "old_secret_key_b64", "wrapped_auk_json">>
        /\ Wasm["rotate_secret_key"] = Uniffi["rotate_secret_key"]
        /\ "rotate_secret_key" \in DOMAIN Wasm
    BY UniffiRows, WasmRows DEF UniffiVault, WasmRotations
  <2>2. /\ FlowTable["rotate_secret_key"] = RewrapFlows.rotate_secret_key
        /\ RewrapFlows.rotate_secret_key.params = <<"passphrase", "old_secret_key_b64",
             "wrapped_auk_json">>
    BY FlowTableRows DEF RewrapFlows, Signature
  <2>3. /\ Head(Uniffi["rotate_secret_key"]) = "rotate_secret_key"
        /\ Gives(Uniffi["rotate_secret_key"], RewrapFlows.rotate_secret_key.params)
    BY <2>1, <2>2, Rows
  <2> QED
    BY <2>1, <2>2, <2>3, RewrapFlowsServe DEF Adapts
<1>3. Adapts("rotate_recovery_code")
  <2>1. /\ Uniffi["rotate_recovery_code"] = <<"rotate_recovery_code", "passphrase",
              "secret_key_b64", "wrapped_auk_json">>
        /\ Wasm["rotate_recovery_code"] = Uniffi["rotate_recovery_code"]
        /\ "rotate_recovery_code" \in DOMAIN Wasm
    BY UniffiRows, WasmRows DEF UniffiVault, WasmRotations
  <2>2. /\ FlowTable["rotate_recovery_code"] = RewrapFlows.rotate_recovery_code
        /\ RewrapFlows.rotate_recovery_code.params = <<"passphrase", "secret_key_b64",
             "wrapped_auk_json">>
    BY FlowTableRows DEF RewrapFlows, Signature
  <2>3. /\ Head(Uniffi["rotate_recovery_code"]) = "rotate_recovery_code"
        /\ Gives(Uniffi["rotate_recovery_code"], RewrapFlows.rotate_recovery_code.params)
    BY <2>1, <2>2, Rows
  <2> QED
    BY <2>1, <2>2, <2>3, RewrapFlowsServe DEF Adapts
<1>4. Adapts("rotate_identity")
  <2>1. /\ Uniffi["rotate_identity"] = <<"rotate_identity", "passphrase",
              "secret_key_b64", "wrapped_auk_json", "old_wrapped_identity_b64">>
        /\ Wasm["rotate_identity"] = Uniffi["rotate_identity"]
        /\ "rotate_identity" \in DOMAIN Wasm
    BY UniffiRows, WasmRows DEF UniffiVault, WasmRotations
  <2>2. /\ FlowTable["rotate_identity"] = RewrapFlows.rotate_identity
        /\ RewrapFlows.rotate_identity.params = <<"passphrase", "secret_key_b64",
             "wrapped_auk_json", "old_wrapped_identity_b64">>
    BY FlowTableRows DEF RewrapFlows, Signature
  <2>3. /\ Head(Uniffi["rotate_identity"]) = "rotate_identity"
        /\ Gives(Uniffi["rotate_identity"], RewrapFlows.rotate_identity.params)
    BY <2>1, <2>2, Rows
  <2> QED
    BY <2>1, <2>2, <2>3, RewrapFlowsServe DEF Adapts
<1> QED
  BY <1>1, <1>2, <1>3, <1>4

LEMMA BackupAdapts == \A name \in {"export_backup", "import_backup"} : Adapts(name)
<1>1. Adapts("export_backup")
  <2>1. /\ Uniffi["export_backup"] = <<"export_backup", "json", "passphrase">>
        /\ Wasm["export_backup"] = Uniffi["export_backup"]
        /\ "export_backup" \in DOMAIN Wasm
    BY UniffiRows, WasmRows DEF UniffiMessages, WasmBackupAndPasskey
  <2>2. /\ FlowTable["export_backup"] = BackupFlows.export_backup
        /\ BackupFlows.export_backup.params = <<"json", "passphrase">>
    BY FlowTableRows DEF BackupFlows, Signature
  <2>3. /\ Head(Uniffi["export_backup"]) = "export_backup"
        /\ Gives(Uniffi["export_backup"], BackupFlows.export_backup.params)
    BY <2>1, <2>2, Rows
  <2> QED
    BY <2>1, <2>2, <2>3, BackupFlowsServe DEF Adapts
<1>2. Adapts("import_backup")
  <2>1. /\ Uniffi["import_backup"] = <<"import_backup", "data", "passphrase">>
        /\ Wasm["import_backup"] = Uniffi["import_backup"]
        /\ "import_backup" \in DOMAIN Wasm
    BY UniffiRows, WasmRows DEF UniffiMessages, WasmBackupAndPasskey
  <2>2. /\ FlowTable["import_backup"] = BackupFlows.import_backup
        /\ BackupFlows.import_backup.params = <<"data", "passphrase">>
    BY FlowTableRows DEF BackupFlows, Signature
  <2>3. /\ Head(Uniffi["import_backup"]) = "import_backup"
        /\ Gives(Uniffi["import_backup"], BackupFlows.import_backup.params)
    BY <2>1, <2>2, Rows
  <2> QED
    BY <2>1, <2>2, <2>3, BackupFlowsServe DEF Adapts
<1> QED
  BY <1>1, <1>2

LEMMA PasskeyAdapts == \A name \in {"enroll_prf", "unlock_prf"} : Adapts(name)
<1>1. Adapts("enroll_prf")
  <2>1. /\ Uniffi["enroll_prf"] = <<"enroll_prf", "passphrase", "secret_key_b64",
              "wrapped_auk_json", "prf_secret_b64">>
        /\ Wasm["enroll_prf"] = Uniffi["enroll_prf"] /\ "enroll_prf" \in DOMAIN Wasm
    BY UniffiRows, WasmRows DEF UniffiPasskeyAndAmk, WasmBackupAndPasskey
  <2>2. /\ FlowTable["enroll_prf"] = PasskeyFlows.enroll_prf
        /\ PasskeyFlows.enroll_prf.params = <<"passphrase", "secret_key_b64",
             "wrapped_auk_json", "prf_secret_b64">>
    BY FlowTableRows DEF PasskeyFlows, Signature
  <2>3. /\ Head(Uniffi["enroll_prf"]) = "enroll_prf"
        /\ Gives(Uniffi["enroll_prf"], PasskeyFlows.enroll_prf.params)
    BY <2>1, <2>2, Rows
  <2> QED
    BY <2>1, <2>2, <2>3, PasskeyFlowsServe DEF Adapts
<1>2. Adapts("unlock_prf")
  <2>1. /\ Uniffi["unlock_prf"] = <<"unlock_prf", "prf_secret_b64",
              "wrapped_auk_prf_json", "wrapped_identity_b64">>
        /\ Wasm["unlock_prf"] = Uniffi["unlock_prf"] /\ "unlock_prf" \in DOMAIN Wasm
    BY UniffiRows, WasmRows DEF UniffiPasskeyAndAmk, WasmBackupAndPasskey
  <2>2. /\ FlowTable["unlock_prf"] = PasskeyFlows.unlock_prf
        /\ PasskeyFlows.unlock_prf.params = <<"prf_secret_b64", "wrapped_auk_prf_json",
             "wrapped_identity_b64">>
    BY FlowTableRows DEF PasskeyFlows, Signature
  <2>3. /\ Head(Uniffi["unlock_prf"]) = "unlock_prf"
        /\ Gives(Uniffi["unlock_prf"], PasskeyFlows.unlock_prf.params)
    BY <2>1, <2>2, Rows
  <2> QED
    BY <2>1, <2>2, <2>3, PasskeyFlowsServe DEF Adapts
<1> QED
  BY <1>1, <1>2

LEMMA AmkAdapts ==
  \A name \in {"amk_ensure", "amk_sign", "amk_ensure_prf", "amk_sign_prf"} : Adapts(name)
<1>1. Adapts("amk_ensure")
  <2>1. /\ Uniffi["amk_ensure"] = <<"amk_ensure", "passphrase", "secret_key_b64",
              "wrapped_auk_json", "existing_wrapped_amk">>
        /\ Wasm["amk_ensure"] = Uniffi["amk_ensure"] /\ "amk_ensure" \in DOMAIN Wasm
    BY UniffiRows, WasmRows DEF UniffiPasskeyAndAmk, WasmAmk
  <2>2. /\ FlowTable["amk_ensure"] = AmkFlows.amk_ensure
        /\ AmkFlows.amk_ensure.params = <<"passphrase", "secret_key_b64",
             "wrapped_auk_json", "existing_wrapped_amk">>
    BY FlowTableRows DEF AmkFlows, Signature
  <2>3. /\ Head(Uniffi["amk_ensure"]) = "amk_ensure"
        /\ Gives(Uniffi["amk_ensure"], AmkFlows.amk_ensure.params)
    BY <2>1, <2>2, Rows
  <2> QED
    BY <2>1, <2>2, <2>3, AmkFlowsServe DEF Adapts
<1>2. Adapts("amk_sign")
  <2>1. /\ Uniffi["amk_sign"] = <<"amk_sign", "passphrase", "secret_key_b64",
              "wrapped_auk_json", "wrapped_amk", "msg">>
        /\ Wasm["amk_sign"] = Uniffi["amk_sign"] /\ "amk_sign" \in DOMAIN Wasm
    BY UniffiRows, WasmRows DEF UniffiPasskeyAndAmk, WasmAmk
  <2>2. /\ FlowTable["amk_sign"] = AmkFlows.amk_sign
        /\ AmkFlows.amk_sign.params = <<"passphrase", "secret_key_b64",
             "wrapped_auk_json", "wrapped_amk", "msg">>
    BY FlowTableRows DEF AmkFlows, Signature
  <2>3. /\ Head(Uniffi["amk_sign"]) = "amk_sign"
        /\ Gives(Uniffi["amk_sign"], AmkFlows.amk_sign.params)
    BY <2>1, <2>2, Rows
  <2> QED
    BY <2>1, <2>2, <2>3, AmkFlowsServe DEF Adapts
<1>3. Adapts("amk_ensure_prf")
  <2>1. /\ Uniffi["amk_ensure_prf"] = <<"amk_ensure_prf", "prf_secret_b64",
              "wrapped_auk_prf_json", "existing_wrapped_amk">>
        /\ Wasm["amk_ensure_prf"] = Uniffi["amk_ensure_prf"]
        /\ "amk_ensure_prf" \in DOMAIN Wasm
    BY UniffiRows, WasmRows DEF UniffiPasskeyAndAmk, WasmAmk
  <2>2. /\ FlowTable["amk_ensure_prf"] = AmkFlows.amk_ensure_prf
        /\ AmkFlows.amk_ensure_prf.params = <<"prf_secret_b64", "wrapped_auk_prf_json",
             "existing_wrapped_amk">>
    BY FlowTableRows DEF AmkFlows, Signature
  <2>3. /\ Head(Uniffi["amk_ensure_prf"]) = "amk_ensure_prf"
        /\ Gives(Uniffi["amk_ensure_prf"], AmkFlows.amk_ensure_prf.params)
    BY <2>1, <2>2, Rows
  <2> QED
    BY <2>1, <2>2, <2>3, AmkFlowsServe DEF Adapts
<1>4. Adapts("amk_sign_prf")
  <2>1. /\ Uniffi["amk_sign_prf"] = <<"amk_sign_prf", "prf_secret_b64",
              "wrapped_auk_prf_json", "wrapped_amk", "msg">>
        /\ Wasm["amk_sign_prf"] = Uniffi["amk_sign_prf"] /\ "amk_sign_prf" \in DOMAIN Wasm
    BY UniffiRows, WasmRows DEF UniffiPasskeyAndAmk, WasmAmk
  <2>2. /\ FlowTable["amk_sign_prf"] = AmkFlows.amk_sign_prf
        /\ AmkFlows.amk_sign_prf.params = <<"prf_secret_b64", "wrapped_auk_prf_json",
             "wrapped_amk", "msg">>
    BY FlowTableRows DEF AmkFlows, Signature
  <2>3. /\ Head(Uniffi["amk_sign_prf"]) = "amk_sign_prf"
        /\ Gives(Uniffi["amk_sign_prf"], AmkFlows.amk_sign_prf.params)
    BY <2>1, <2>2, Rows
  <2> QED
    BY <2>1, <2>2, <2>3, AmkFlowsServe DEF Adapts
<1> QED
  BY <1>1, <1>2, <1>3, <1>4

LEMMA DigestAdapts == Adapts("message_digest")
<1>1. /\ Uniffi["message_digest"] = <<"message_digest", "aad", "ct">>
      /\ Wasm["message_digest"] = Uniffi["message_digest"]
      /\ "message_digest" \in DOMAIN Wasm
  BY UniffiRows, WasmRows DEF UniffiDigestAndProfile, WasmDigestAndProfile
<1>2. /\ FlowTable["message_digest"] = DigestFlows.message_digest
      /\ DigestFlows.message_digest.params = <<"aad", "ct">>
  BY FlowTableRows DEF DigestFlows, Signature
<1>3. /\ Head(Uniffi["message_digest"]) = "message_digest"
      /\ Gives(Uniffi["message_digest"], DigestFlows.message_digest.params)
  BY <1>1, <1>2, Rows
<1> QED
  BY <1>1, <1>2, <1>3, DigestFlowsServe DEF Adapts

LEMMA NamespaceAdapts == \A name \in {"ns_random_nk", "ns_random_salt",
  "ns_random_recovery_code", "ns_wrap_nk", "ns_unwrap_nk", "ns_protect_value",
  "ns_unprotect_value", "ns_nk_hash", "ns_is_protected"} : Adapts(name)
<1>1. Adapts("ns_random_nk")
  <2>1. /\ Uniffi["ns_random_nk"] = <<"ns_random_nk">>
        /\ Wasm["ns_random_nk"] = Uniffi["ns_random_nk"] /\ "ns_random_nk" \in DOMAIN Wasm
    BY UniffiRows, WasmRows DEF UniffiNamespace, WasmNamespace
  <2>2. /\ FlowTable["ns_random_nk"] = NamespaceFlows.ns_random_nk
        /\ NamespaceFlows.ns_random_nk.params = <<>>
    BY FlowTableRows DEF NamespaceFlows, Signature
  <2>3. /\ Head(Uniffi["ns_random_nk"]) = "ns_random_nk"
        /\ Gives(Uniffi["ns_random_nk"], NamespaceFlows.ns_random_nk.params)
    BY <2>1, <2>2, Rows
  <2> QED
    BY <2>1, <2>2, <2>3, NamespaceFlowsServe DEF Adapts
<1>2. Adapts("ns_random_salt")
  <2>1. /\ Uniffi["ns_random_salt"] = <<"ns_random_salt">>
        /\ Wasm["ns_random_salt"] = Uniffi["ns_random_salt"]
        /\ "ns_random_salt" \in DOMAIN Wasm
    BY UniffiRows, WasmRows DEF UniffiNamespace, WasmNamespace
  <2>2. /\ FlowTable["ns_random_salt"] = NamespaceFlows.ns_random_salt
        /\ NamespaceFlows.ns_random_salt.params = <<>>
    BY FlowTableRows DEF NamespaceFlows, Signature
  <2>3. /\ Head(Uniffi["ns_random_salt"]) = "ns_random_salt"
        /\ Gives(Uniffi["ns_random_salt"], NamespaceFlows.ns_random_salt.params)
    BY <2>1, <2>2, Rows
  <2> QED
    BY <2>1, <2>2, <2>3, NamespaceFlowsServe DEF Adapts
<1>3. Adapts("ns_random_recovery_code")
  <2>1. /\ Uniffi["ns_random_recovery_code"] = <<"ns_random_recovery_code">>
        /\ Wasm["ns_random_recovery_code"] = Uniffi["ns_random_recovery_code"]
        /\ "ns_random_recovery_code" \in DOMAIN Wasm
    BY UniffiRows, WasmRows DEF UniffiNamespace, WasmNamespace
  <2>2. /\ FlowTable["ns_random_recovery_code"] = NamespaceFlows.ns_random_recovery_code
        /\ NamespaceFlows.ns_random_recovery_code.params = <<>>
    BY FlowTableRows DEF NamespaceFlows, Signature
  <2>3. /\ Head(Uniffi["ns_random_recovery_code"]) = "ns_random_recovery_code"
        /\ Gives(Uniffi["ns_random_recovery_code"], NamespaceFlows.ns_random_recovery_code.params)
    BY <2>1, <2>2, Rows
  <2> QED
    BY <2>1, <2>2, <2>3, NamespaceFlowsServe DEF Adapts
<1>4. Adapts("ns_wrap_nk")
  <2>1. /\ Uniffi["ns_wrap_nk"] = <<"ns_wrap_nk", "nk_b64", "passphrase", "salt_b64">>
        /\ Wasm["ns_wrap_nk"] = Uniffi["ns_wrap_nk"] /\ "ns_wrap_nk" \in DOMAIN Wasm
    BY UniffiRows, WasmRows DEF UniffiNamespace, WasmNamespace
  <2>2. /\ FlowTable["ns_wrap_nk"] = NamespaceFlows.ns_wrap_nk
        /\ NamespaceFlows.ns_wrap_nk.params = <<"nk_b64", "passphrase", "salt_b64">>
    BY FlowTableRows DEF NamespaceFlows, Signature
  <2>3. /\ Head(Uniffi["ns_wrap_nk"]) = "ns_wrap_nk"
        /\ Gives(Uniffi["ns_wrap_nk"], NamespaceFlows.ns_wrap_nk.params)
    BY <2>1, <2>2, Rows
  <2> QED
    BY <2>1, <2>2, <2>3, NamespaceFlowsServe DEF Adapts
<1>5. Adapts("ns_unwrap_nk")
  <2>1. /\ Uniffi["ns_unwrap_nk"] = <<"ns_unwrap_nk", "wrapped", "passphrase",
              "salt_b64">>
        /\ Wasm["ns_unwrap_nk"] = Uniffi["ns_unwrap_nk"] /\ "ns_unwrap_nk" \in DOMAIN Wasm
    BY UniffiRows, WasmRows DEF UniffiNamespace, WasmNamespace
  <2>2. /\ FlowTable["ns_unwrap_nk"] = NamespaceFlows.ns_unwrap_nk
        /\ NamespaceFlows.ns_unwrap_nk.params = <<"wrapped", "passphrase", "salt_b64">>
    BY FlowTableRows DEF NamespaceFlows, Signature
  <2>3. /\ Head(Uniffi["ns_unwrap_nk"]) = "ns_unwrap_nk"
        /\ Gives(Uniffi["ns_unwrap_nk"], NamespaceFlows.ns_unwrap_nk.params)
    BY <2>1, <2>2, Rows
  <2> QED
    BY <2>1, <2>2, <2>3, NamespaceFlowsServe DEF Adapts
<1>6. Adapts("ns_protect_value")
  <2>1. /\ Uniffi["ns_protect_value"] = <<"ns_protect_value", "nk_b64", "value">>
        /\ Wasm["ns_protect_value"] = Uniffi["ns_protect_value"]
        /\ "ns_protect_value" \in DOMAIN Wasm
    BY UniffiRows, WasmRows DEF UniffiNamespace, WasmNamespace
  <2>2. /\ FlowTable["ns_protect_value"] = NamespaceFlows.ns_protect_value
        /\ NamespaceFlows.ns_protect_value.params = <<"nk_b64", "value">>
    BY FlowTableRows DEF NamespaceFlows, Signature
  <2>3. /\ Head(Uniffi["ns_protect_value"]) = "ns_protect_value"
        /\ Gives(Uniffi["ns_protect_value"], NamespaceFlows.ns_protect_value.params)
    BY <2>1, <2>2, Rows
  <2> QED
    BY <2>1, <2>2, <2>3, NamespaceFlowsServe DEF Adapts
<1>7. Adapts("ns_unprotect_value")
  <2>1. /\ Uniffi["ns_unprotect_value"] = <<"ns_unprotect_value", "nk_b64", "protected">>
        /\ Wasm["ns_unprotect_value"] = Uniffi["ns_unprotect_value"]
        /\ "ns_unprotect_value" \in DOMAIN Wasm
    BY UniffiRows, WasmRows DEF UniffiNamespace, WasmNamespace
  <2>2. /\ FlowTable["ns_unprotect_value"] = NamespaceFlows.ns_unprotect_value
        /\ NamespaceFlows.ns_unprotect_value.params = <<"nk_b64", "protected">>
    BY FlowTableRows DEF NamespaceFlows, Signature
  <2>3. /\ Head(Uniffi["ns_unprotect_value"]) = "ns_unprotect_value"
        /\ Gives(Uniffi["ns_unprotect_value"], NamespaceFlows.ns_unprotect_value.params)
    BY <2>1, <2>2, Rows
  <2> QED
    BY <2>1, <2>2, <2>3, NamespaceFlowsServe DEF Adapts
<1>8. Adapts("ns_nk_hash")
  <2>1. /\ Uniffi["ns_nk_hash"] = <<"ns_nk_hash", "nk_b64">>
        /\ Wasm["ns_nk_hash"] = Uniffi["ns_nk_hash"] /\ "ns_nk_hash" \in DOMAIN Wasm
    BY UniffiRows, WasmRows DEF UniffiNamespace, WasmNamespace
  <2>2. /\ FlowTable["ns_nk_hash"] = NamespaceFlows.ns_nk_hash
        /\ NamespaceFlows.ns_nk_hash.params = <<"nk_b64">>
    BY FlowTableRows DEF NamespaceFlows, Signature
  <2>3. /\ Head(Uniffi["ns_nk_hash"]) = "ns_nk_hash"
        /\ Gives(Uniffi["ns_nk_hash"], NamespaceFlows.ns_nk_hash.params)
    BY <2>1, <2>2, Rows
  <2> QED
    BY <2>1, <2>2, <2>3, NamespaceFlowsServe DEF Adapts
<1>9. Adapts("ns_is_protected")
  <2>1. /\ Uniffi["ns_is_protected"] = <<"ns_is_protected", "protected">>
        /\ Wasm["ns_is_protected"] = Uniffi["ns_is_protected"]
        /\ "ns_is_protected" \in DOMAIN Wasm
    BY UniffiRows, WasmRows DEF UniffiNamespace, WasmNamespace
  <2>2. /\ FlowTable["ns_is_protected"] = NamespaceFlows.ns_is_protected
        /\ NamespaceFlows.ns_is_protected.params = <<"protected">>
    BY FlowTableRows DEF NamespaceFlows, Signature
  <2>3. /\ Head(Uniffi["ns_is_protected"]) = "ns_is_protected"
        /\ Gives(Uniffi["ns_is_protected"], NamespaceFlows.ns_is_protected.params)
    BY <2>1, <2>2, Rows
  <2> QED
    BY <2>1, <2>2, <2>3, NamespaceFlowsServe DEF Adapts
<1> QED
  BY <1>1, <1>2, <1>3, <1>4, <1>5, <1>6, <1>7, <1>8, <1>9

LEMMA KeyLogAdapts ==
  \A name \in {"cert_bytes", "leaf_bytes", "sth_message", "verify_cert"} : Adapts(name)
<1>1. Adapts("cert_bytes")
  <2>1. /\ Uniffi["cert_bytes"] = <<"cert_bytes_json", "cert_json">>
        /\ Wasm["cert_bytes"] = Uniffi["cert_bytes"] /\ "cert_bytes" \in DOMAIN Wasm
    BY UniffiRows, WasmRows DEF UniffiKeyLog, WasmKeyLog
  <2>2. /\ FlowTable["cert_bytes_json"] = KeyLogFlows.cert_bytes_json
        /\ KeyLogFlows.cert_bytes_json.params = <<"cert_json">>
    BY FlowTableRows DEF KeyLogFlows, Signature
  <2>3. /\ Head(Uniffi["cert_bytes"]) = "cert_bytes_json"
        /\ Gives(Uniffi["cert_bytes"], KeyLogFlows.cert_bytes_json.params)
    BY <2>1, <2>2, Rows
  <2> QED
    BY <2>1, <2>2, <2>3, KeyLogFlowsServe DEF Adapts
<1>2. Adapts("leaf_bytes")
  <2>1. /\ Uniffi["leaf_bytes"] = <<"leaf_bytes_json", "leaf_json">>
        /\ Wasm["leaf_bytes"] = Uniffi["leaf_bytes"] /\ "leaf_bytes" \in DOMAIN Wasm
    BY UniffiRows, WasmRows DEF UniffiKeyLog, WasmKeyLog
  <2>2. /\ FlowTable["leaf_bytes_json"] = KeyLogFlows.leaf_bytes_json
        /\ KeyLogFlows.leaf_bytes_json.params = <<"leaf_json">>
    BY FlowTableRows DEF KeyLogFlows, Signature
  <2>3. /\ Head(Uniffi["leaf_bytes"]) = "leaf_bytes_json"
        /\ Gives(Uniffi["leaf_bytes"], KeyLogFlows.leaf_bytes_json.params)
    BY <2>1, <2>2, Rows
  <2> QED
    BY <2>1, <2>2, <2>3, KeyLogFlowsServe DEF Adapts
<1>3. Adapts("sth_message")
  <2>1. /\ Uniffi["sth_message"] = <<"sth_message_json", "sth_json">>
        /\ Wasm["sth_message"] = Uniffi["sth_message"] /\ "sth_message" \in DOMAIN Wasm
    BY UniffiRows, WasmRows DEF UniffiKeyLog, WasmKeyLog
  <2>2. /\ FlowTable["sth_message_json"] = KeyLogFlows.sth_message_json
        /\ KeyLogFlows.sth_message_json.params = <<"sth_json">>
    BY FlowTableRows DEF KeyLogFlows, Signature
  <2>3. /\ Head(Uniffi["sth_message"]) = "sth_message_json"
        /\ Gives(Uniffi["sth_message"], KeyLogFlows.sth_message_json.params)
    BY <2>1, <2>2, Rows
  <2> QED
    BY <2>1, <2>2, <2>3, KeyLogFlowsServe DEF Adapts
<1>4. Adapts("verify_cert")
  <2>1. /\ Uniffi["verify_cert"] = <<"verify_cert_json", "cert_json", "sigs_json",
              "custodians_json", "threshold">>
        /\ Wasm["verify_cert"] = Uniffi["verify_cert"] /\ "verify_cert" \in DOMAIN Wasm
    BY UniffiRows, WasmRows DEF UniffiKeyLog, WasmKeyLog
  <2>2. /\ FlowTable["verify_cert_json"] = KeyLogFlows.verify_cert_json
        /\ KeyLogFlows.verify_cert_json.params = <<"cert_json", "sigs_json",
             "custodians_json", "threshold">>
    BY FlowTableRows DEF KeyLogFlows, Signature
  <2>3. /\ Head(Uniffi["verify_cert"]) = "verify_cert_json"
        /\ Gives(Uniffi["verify_cert"], KeyLogFlows.verify_cert_json.params)
    BY <2>1, <2>2, Rows
  <2> QED
    BY <2>1, <2>2, <2>3, KeyLogFlowsServe DEF Adapts
<1> QED
  BY <1>1, <1>2, <1>3, <1>4

-----------------------------------------------------------------------------
(* A call.                                                                 *)

LEMMA Adapters == \A name \in DOMAIN Uniffi : Adapts(name)
<1>1. /\ \A name \in DOMAIN UniffiIdentity : Adapts(name)
      /\ \A name \in DOMAIN UniffiVault : Adapts(name)
      /\ \A name \in DOMAIN UniffiMessages : Adapts(name)
      /\ \A name \in DOMAIN UniffiPasskeyAndAmk : Adapts(name)
      /\ \A name \in DOMAIN UniffiDigestAndProfile : Adapts(name)
      /\ \A name \in DOMAIN UniffiNamespace : Adapts(name)
      /\ \A name \in DOMAIN UniffiKeyLog : Adapts(name)
  BY IdentityAdapts, VaultAdapts, MessageAdapts, RewrapAdapts, BackupAdapts, PasskeyAdapts,
     AmkAdapts, DigestAdapts, NamespaceAdapts, KeyLogAdapts
     DEF UniffiIdentity, UniffiVault, UniffiMessages, UniffiPasskeyAndAmk,
         UniffiDigestAndProfile, UniffiNamespace, UniffiKeyLog
<1> QED
  BY <1>1, UniffiRows

\* An adapter is the same on both surfaces, binds each argument to the parameter
\* of its name, and has checks that notice what they should.
LEMMA WiresWell ==
  ASSUME NEW name \in DOMAIN Uniffi
  PROVE  LET w == WiredUniffi[name] IN
         /\ WiredWasm[name] = w
         /\ DOMAIN w.bound = Arguments(name)
         /\ \A p \in Arguments(name) : w.bound[p] = p
         /\ IsChecks(w.checks) /\ Believable(w.checks)
         /\ \A p, f : Catches(w.checks, p, f) => p \in Arguments(name)
         /\ \A p \in Arguments(name) : \A f \in Faults(p) :
              Catches(w.checks, p, f) \/ <<name, p, f>> \in TakenAsGiven
<1> DEFINE row  == Uniffi[name]
           flow == FlowTable[Head(row)]
           w    == WiredUniffi[name]
<1>1. /\ name \in DOMAIN Wasm /\ Wasm[name] = row
      /\ Gives(row, flow.params) /\ Serves(name, flow)
  BY Adapters DEF Adapts
<1>2. /\ WiredWasm[name] = w
      /\ w.checks = flow.checks
      /\ w.bound = [p \in Range(flow.params) |->
                      row[1 + CHOOSE k \in DOMAIN flow.params : flow.params[k] = p]]
  BY <1>1 DEF WiredUniffi, WiredWasm, Wired
<1>3. Arguments(name) = Range(flow.params)
  BY <1>1 DEF Arguments, Gives
<1> HIDE DEF w, flow, row
<1>4. ASSUME NEW p \in Range(flow.params)
      PROVE  w.bound[p] = p
  <2>1. \E k \in DOMAIN flow.params : flow.params[k] = p
    BY DEF Range
  <2> QED
    BY <1>1, <1>2, <2>1 DEF Gives
<1>5. \A p \in Arguments(name) : Faults(p) \subseteq Kinds(p)
  BY CallsAssumption
<1>6. /\ IsChecks(w.checks) /\ Believable(w.checks)
      /\ \A p, f : Catches(w.checks, p, f) => p \in Arguments(name)
      /\ \A p \in Arguments(name) : \A f \in Faults(p) :
           Catches(w.checks, p, f) \/ <<name, p, f>> \in TakenAsGiven
  BY <1>1, <1>2, <1>3, <1>5 DEF Serves
<1> QED
  BY <1>2, <1>3, <1>4, <1>6 DEF w

\* A list that is not empty has a first position in it.
LEMMA FirstPosition ==
  ASSUME NEW T \in SUBSET Nat, T # {}
  PROVE  Min(T) \in T
<1>1. \E x \in T : \A y \in T : ~(<<y, x>> \in OpToRel(<, Nat))
  BY NatLessThanWellFounded, WFMin
<1>2. PICK x \in T : \A y \in T : ~(<<y, x>> \in OpToRel(<, Nat))
  BY <1>1
<1>3. \A y \in T : y \in Nat /\ ~(y < x)
  BY <1>2 DEF OpToRel
<1>4. \E y \in T : \A z \in T : y <= z
  BY <1>3
<1> QED
  BY <1>4 DEF Min

\* The arguments have faults that they can have.
FaultsAreUsual == DOMAIN faults = Arguments(adapter) /\ FaultyAsMayBe(faults)

\* A flow succeeds if none of its checks notices a fault, and fails with the error
\* of a check that does.
LEMMA Outcomes ==
  ASSUME adapter \in DOMAIN Uniffi, FaultsAreUsual
  PROVE  LET w == WiredUniffi[adapter]  o == Outcome(w)  IN
         \/ /\ o = [ok |-> TRUE, flow |-> w.flow, bound |-> w.bound]
            /\ \A a \in Arguments(adapter) : ~Catches(w.checks, a, faults[a])
         \/ \E k \in DOMAIN w.checks :
              /\ o = [ok |-> FALSE, error |-> w.checks[k].error]
              /\ \E a \in Arguments(adapter) :
                   a \in w.checks[k].params /\ faults[a] \in w.checks[k].faults
<1> DEFINE w        == WiredUniffi[adapter]
           Fires(c) == \E p \in c.params : faults[w.bound[p]] \in c.faults
           firing   == {k \in DOMAIN w.checks : Fires(w.checks[k])}
<1>1. /\ \A p \in Arguments(adapter) : w.bound[p] = p
      /\ IsChecks(w.checks)
      /\ \A p, f : Catches(w.checks, p, f) => p \in Arguments(adapter)
  BY WiresWell
<1>2. Outcome(w) = IF firing = {} THEN [ok |-> TRUE, flow |-> w.flow, bound |-> w.bound]
                   ELSE [ok |-> FALSE, error |-> w.checks[Min(firing)].error]
  BY DEF Outcome
<1>3. DOMAIN w.checks \in SUBSET Nat
  BY <1>1 DEF IsChecks
<1> HIDE DEF w
<1>4. CASE firing = {}
  <2>1. \A a \in Arguments(adapter) : ~Catches(w.checks, a, faults[a])
    BY <1>1, <1>4 DEF Catches
  <2> QED
    BY <1>2, <1>4, <2>1 DEF w
<1>5. CASE firing # {}
  <2> DEFINE k == Min(firing)
  <2>1. k \in firing
    BY <1>3, <1>5, FirstPosition
  <2> HIDE DEF k
  <2>2. PICK p \in w.checks[k].params : faults[w.bound[p]] \in w.checks[k].faults
    BY <2>1
  <2>3. p \in Arguments(adapter)
    <3>1. \E f \in w.checks[k].faults : TRUE
      BY <2>2
    <3> QED
      BY <1>1, <2>1, <2>2, <3>1 DEF Catches
  <2>4. faults[p] \in w.checks[k].faults
    BY <1>1, <2>2, <2>3
  <2>5. Outcome(w) = [ok |-> FALSE, error |-> w.checks[k].error]
    BY <1>2, <1>5 DEF k
  <2>6. k \in DOMAIN w.checks
    BY <2>1
  <2> QED
    BY <2>2, <2>3, <2>4, <2>5, <2>6 DEF w
<1> QED
  BY <1>4, <1>5

-----------------------------------------------------------------------------
(* The inductive invariant.  An answer is what the flow of the adapter     *)
(* returns for these arguments: faults change only when the answer is      *)
(* forgotten.                                                              *)

AnswerIsDue ==
  answer # None =>
    answer = [uniffi |-> UniffiAnswer(Outcome(WiredUniffi[adapter])),
              wasm   |-> WasmAnswer(Outcome(WiredWasm[adapter]))]

CallsInv ==
  /\ adapter \in DOMAIN Uniffi
  /\ FaultsAreUsual
  /\ AnswerIsDue

LEMMA CallsInvInit == Init => CallsInv
BY DEF Init, CallsInv, FaultsAreUsual, AnswerIsDue

\* A new slip, and what the caller reads again, are faults that can be.
LEMMA CallsInvStep == CallsInv /\ [Next]_vars => CallsInv'
<1> SUFFICES ASSUME CallsInv, [Next]_vars
             PROVE  CallsInv'
  OBVIOUS
<1>1. CASE Invoke
  <2>1. UNCHANGED <<adapter, faults>>
    BY <1>1 DEF Invoke
  <2>2. FaultsAreUsual'
    BY <2>1 DEF CallsInv, FaultsAreUsual, FaultyAsMayBe, Arguments
  <2>3. answer' = [uniffi |-> UniffiAnswer(Outcome(WiredUniffi[adapter])),
                   wasm   |-> WasmAnswer(Outcome(WiredWasm[adapter]))]
    BY <1>1 DEF Invoke
  <2>4. AnswerIsDue'
    BY <2>1, <2>3 DEF AnswerIsDue, Outcome, UniffiAnswer, WasmAnswer
  <2> QED
    BY <2>1, <2>2, <2>4 DEF CallsInv
<1>2. CASE AskAgain
  <2>1. adapter' = adapter /\ answer' = None
    BY <1>2 DEF AskAgain
  <2>2. PICK slip \in BOOLEAN :
          faults' = [a \in Arguments(adapter) |->
                       IF a \notin Typed THEN faults[a]
                       ELSE IF slip /\ "wrong" \in Faults(a) THEN "wrong" ELSE "none"]
    BY <1>2 DEF AskAgain
  <2>3. FaultsAreUsual'
    BY <2>1, <2>2 DEF CallsInv, FaultsAreUsual, FaultyAsMayBe, Arguments
  <2> QED
    BY <2>1, <2>3 DEF CallsInv, AnswerIsDue
<1>3. CASE ReadAgain
  <2>1. adapter' = adapter /\ answer' = None
    BY <1>3 DEF ReadAgain
  <2>2. faults' = [a \in Arguments(adapter) |-> IF a \in Typed THEN faults[a] ELSE "none"]
    BY <1>3 DEF ReadAgain
  <2>3. FaultsAreUsual'
    BY <2>1, <2>2 DEF CallsInv, FaultsAreUsual, FaultyAsMayBe, Arguments
  <2> QED
    BY <2>1, <2>3 DEF CallsInv, AnswerIsDue
<1>4. CASE UNCHANGED vars
  BY <1>4 DEF vars, CallsInv, FaultsAreUsual, FaultyAsMayBe, Arguments, AnswerIsDue, Outcome,
              UniffiAnswer, WasmAnswer
<1> QED
  BY <1>1, <1>2, <1>3, <1>4 DEF Next

LEMMA CallsInvAlways == Spec => []CallsInv
BY CallsInvInit, CallsInvStep, PTL DEF Spec

-----------------------------------------------------------------------------
(* What a caller may conclude.                                             *)

\* An answer, with what is known of the checks it comes from.
LEMMA Answers ==
  ASSUME CallsInv, answer # None
  PROVE  LET w == WiredUniffi[adapter]  o == Outcome(w)  IN
         /\ answer = [uniffi |-> UniffiAnswer(o), wasm |-> WasmAnswer(o)]
         /\ o = [ok |-> TRUE, flow |-> w.flow, bound |-> w.bound] =>
              answer.uniffi = o /\ answer.wasm = o
         /\ \A e : o = [ok |-> FALSE, error |-> e] =>
              /\ answer.uniffi = [ok |-> FALSE, failure |-> PockCoreError(e)]
              /\ answer.wasm = [ok |-> FALSE, failure |-> JsError(e)]
<1>1. WiredWasm[adapter] = WiredUniffi[adapter]
  BY WiresWell DEF CallsInv
<1> QED
  BY <1>1 DEF CallsInv, AnswerIsDue, UniffiAnswer, WasmAnswer

\* Both bindings give the same result or fail with the same text: uniffi_api.rs
\* and wasm.rs forward the same arguments to the same flows in the same order,
\* and each shows the error's own text.
THEOREM SurfacesAlwaysAgree == Spec => []SurfacesAgree
<1>1. CallsInv => SurfacesAgree
  <2> SUFFICES ASSUME CallsInv, answer # None
               PROVE  SurfacesAgree
    BY DEF SurfacesAgree
  <2> DEFINE w == WiredUniffi[adapter]
             o == Outcome(w)
  <2>1. CASE o = [ok |-> TRUE, flow |-> w.flow, bound |-> w.bound]
    BY <2>1, Answers DEF SurfacesAgree
  <2>2. CASE \E e : o = [ok |-> FALSE, error |-> e]
    BY <2>2, Answers DEF SurfacesAgree, PockCoreError, JsError
  <2> QED
    BY <2>1, <2>2, Outcomes DEF CallsInv
<1> QED
  BY <1>1, CallsInvAlways, PTL

LEMMA NothingBadOpensThen == CallsInv => NothingBadOpens
<1> SUFFICES ASSUME CallsInv, answer # None, answer.uniffi.ok
             PROVE  /\ \A a \in Faulty : Unnoticed(a)
                    /\ \A p \in DOMAIN answer.uniffi.bound : answer.uniffi.bound[p] = p
  BY DEF NothingBadOpens
<1> DEFINE w == WiredUniffi[adapter]
           o == Outcome(w)
<1>1. /\ DOMAIN w.bound = Arguments(adapter)
      /\ \A p \in Arguments(adapter) : w.bound[p] = p
      /\ \A p \in Arguments(adapter) : \A f \in Faults(p) :
           Catches(w.checks, p, f) \/ <<adapter, p, f>> \in TakenAsGiven
  BY WiresWell DEF CallsInv
<1>2. /\ o = [ok |-> TRUE, flow |-> w.flow, bound |-> w.bound]
      /\ \A a \in Arguments(adapter) : ~Catches(w.checks, a, faults[a])
  <2>1. ASSUME NEW k \in DOMAIN w.checks, o = [ok |-> FALSE, error |-> w.checks[k].error]
        PROVE  FALSE
    BY <2>1, Answers
  <2> QED
    BY <2>1, Outcomes DEF CallsInv
<1>3. answer.uniffi.bound = w.bound
  BY <1>2, Answers
<1>4. ASSUME NEW a \in Faulty
      PROVE  Unnoticed(a)
  <2>1. a \in Arguments(adapter) /\ faults[a] \in Faults(a)
    BY DEF Faulty, CallsInv, FaultsAreUsual, FaultyAsMayBe
  <2> QED
    BY <1>1, <1>2, <2>1 DEF Unnoticed
<1> QED
  BY <1>1, <1>3, <1>4

\* A call that succeeds had nothing wrong with its arguments but what the core
\* cannot notice, and bound each argument to the parameter of its name: no check
\* of flows.rs is missing, skipped or looks elsewhere.
THEOREM NothingBadEverOpens == Spec => []NothingBadOpens
BY NothingBadOpensThen, CallsInvAlways, PTL

\* A failure comes from a fault that earns its category.
LEMMA FailuresAreDeserved ==
  ASSUME CallsInv, answer # None, ~answer.uniffi.ok
  PROVE  \E error : \E a \in Arguments(adapter) :
           /\ Deserved(a, faults[a], error)
           /\ \A class : Failed(class) <=> Class(error) = class
<1> DEFINE w == WiredUniffi[adapter]
           o == Outcome(w)
<1>1. PICK k \in DOMAIN w.checks :
             /\ o = [ok |-> FALSE, error |-> w.checks[k].error]
             /\ \E a \in Arguments(adapter) :
                  a \in w.checks[k].params /\ faults[a] \in w.checks[k].faults
  <2>1. o # [ok |-> TRUE, flow |-> w.flow, bound |-> w.bound]
    BY Answers
  <2> QED
    BY <2>1, Outcomes DEF CallsInv
<1>2. PICK a \in Arguments(adapter) :
             a \in w.checks[k].params /\ faults[a] \in w.checks[k].faults
  BY <1>1
<1> DEFINE error == w.checks[k].error
<1>3. Deserved(a, faults[a], error)
  BY <1>2, WiresWell DEF CallsInv, Believable
<1>4. answer.uniffi = [ok |-> FALSE, failure |-> PockCoreError(error)]
  BY <1>1, Answers
<1> HIDE DEF error
<1>5. \A class : Failed(class) <=> Class(error) = class
  BY <1>4 DEF Failed, PockCoreError
<1> QED
  BY <1>3, <1>5

\* A failure's category can be believed: where only credentials are wrong it says
\* so, where it says so a credential is wrong, a ciphertext was changed or the
\* blob's faults are all put down to its credential, and Json, Encoding and
\* InvalidInput come from faults of their kind alone (error.rs:57-124).
THEOREM BlameIsAlwaysDeserved == Spec => []BlameIsDeserved
<1>1. CallsInv => BlameIsDeserved
  <2> SUFFICES ASSUME CallsInv
               PROVE  BlameIsDeserved
    OBVIOUS
  <2>1. CASE answer = None
    BY <2>1 DEF Failed, BlameIsDeserved
  <2>2. CASE answer # None /\ answer.uniffi.ok
    <3>1. \A a \in Faulty : Unnoticed(a)
      BY <2>2, NothingBadOpensThen DEF NothingBadOpens
    <3> QED
      BY <2>2, <3>1 DEF Failed, BlameIsDeserved
  <2>3. CASE answer # None /\ ~answer.uniffi.ok
    <3>1. PICK error : \E a \in Arguments(adapter) :
                 /\ Deserved(a, faults[a], error)
                 /\ \A class : Failed(class) <=> Class(error) = class
      BY <2>3, FailuresAreDeserved
    <3>2. PICK a \in Arguments(adapter) : Deserved(a, faults[a], error)
      BY <3>1
    <3>3. /\ a \in Faulty
          /\ \A kinds : faults[a] \in kinds => a \in Having(kinds)
      BY <3>2 DEF Deserved, Faulty, Having
    <3> QED
      BY <3>1, <3>2, <3>3 DEF Deserved, BlameIsDeserved
  <2> QED
    BY <2>1, <2>2, <2>3
<1> QED
  BY <1>1, CallsInvAlways, PTL

-----------------------------------------------------------------------------
(* What a caller can do about it.                                          *)

\* A caller that is refused can go on, by the category alone: it is refused for
\* some fault, in a category that it answers by asking the user again or by
\* reading anew what it keeps; and where all it keeps is in order, and what is
\* typed can only be mistyped, it is told to ask the user, not to read again what
\* it has for ever (error.rs:57-64).  Mistyped is well-formed and of its kind: a
\* user who types a key blob for the other cipher is told of an encoding instead.
RefusedMayGoOn ==
  answer # None /\ ~answer.uniffi.ok =>
    /\ Faulty # {}
    /\ \E class \in {"WrongCredential", "Json", "Encoding", "InvalidInput"} : Failed(class)
    /\ Faulty \subseteq Typed /\ (\A a \in Typed : Faults(a) \subseteq {"wrong"}) =>
         Failed("WrongCredential")

\* No refusal leaves the caller without a way on.
THEOREM RefusedMayAlwaysGoOn == Spec => []RefusedMayGoOn
<1>1. CallsInv => RefusedMayGoOn
  <2> SUFFICES ASSUME CallsInv, answer # None, ~answer.uniffi.ok
               PROVE  RefusedMayGoOn
    BY DEF RefusedMayGoOn
  <2> PICK error : \E a \in Arguments(adapter) :
               /\ Deserved(a, faults[a], error)
               /\ \A class : Failed(class) <=> Class(error) = class
    BY FailuresAreDeserved
  <2>1. PICK a \in Arguments(adapter) :
               /\ Deserved(a, faults[a], error)
               /\ \A class : Failed(class) <=> Class(error) = class
    OBVIOUS
  <2>2. a \in Faulty
    BY <2>1 DEF Deserved, Faulty
  <2>3. \E class \in {"WrongCredential", "Json", "Encoding", "InvalidInput"} : Failed(class)
    BY <2>1 DEF Deserved
  <2>4. ASSUME Faulty \subseteq Typed, \A b \in Typed : Faults(b) \subseteq {"wrong"}
        PROVE  Failed("WrongCredential")
    <3>1. faults[a] \in Faults(a)
      BY <2>2 DEF Faulty, CallsInv, FaultsAreUsual, FaultyAsMayBe
    <3>2. faults[a] = "wrong"
      BY <2>2, <2>4, <3>1
    <3> QED
      BY <2>1, <3>2 DEF Deserved
  <2> QED
    BY <2>2, <2>3, <2>4 DEF RefusedMayGoOn
<1> QED
  BY <1>1, CallsInvAlways, PTL
=============================================================================
