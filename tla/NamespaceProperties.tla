------------------------- MODULE NamespaceProperties -------------------------
(***************************************************************************)
(* What makes a protected folder safe to use.                              *)
(***************************************************************************)
EXTENDS Namespace

\* The folder's key.
TheNk == folder.wrap.nk

\* What is left of a value after k readings: UnprotectValue, k times over.
Reading(value, k) == [value EXCEPT !.layers = SubSeq(@, k + 1, Len(@))]

-----------------------------------------------------------------------------
\* The domains of the variables.
TypeOK ==
  /\ folder \in Folder \union {None}
  /\ \A name \in Name : values[name].text \in Text
  /\ written \in [Name -> Text]
  /\ \A d \in Device : nk[d] = None \/ nk[d] \in [draw : Nat, length : Length]
  /\ codes \subseteq 1 .. draws
  /\ draws \in 0..MaxDraws /\ losses \in 0..MaxLosses /\ crashes \in 0..MaxCrashes

\* Whatever was changed, on whichever device, some passphrase and some recovery
\* code that was saved open the folder, both to the same key, and no device
\* holds another: a wrap and the salt it was made with never part
\* (wrap_nk and unwrap_nk, nscrypto.rs:117-131).
AlwaysAWayIn ==
  /\ folder # None =>
       /\ \E passphrase \in Passphrase : Opens(passphrase)
       /\ \E code \in codes : OpensByCode(code)
       /\ UnwrapNk(folder.recWrap) = TheNk
  /\ \A d \in Device : nk[d] # None => folder # None /\ nk[d] = TheNk

\* Whoever opens the folder can read every value, with one reading and one more
\* for each prefix that was lost, and finds what was written last.  Nothing is
\* protected under a key that would not take the protection off again, be it of
\* a length that wrap_nk takes and protect_value refuses (nscrypto.rs:117, 143).
\* How many readings a value takes is not told by is_protected_blob: a plain text
\* that begins with the prefix takes none.
NothingIsLost ==
  \A name \in Name :
    LET value == values[name]
        depth == Len(value.layers)
    IN  /\ depth <= 1 + losses
        /\ depth > 0 => folder # None
        /\ \A k \in 0 .. depth - 1 : Unprotects(TheNk, Reading(value, k))
        /\ Reading(value, depth) = Plain(written[name])

\* Where the folder has a key that can be used, every value ends up sealed for
\* good, whatever prefixes were lost and whatever was written in plain text by a
\* device that did not know of the folder yet.  One kind of value is left out, for
\* is_protected_blob (nscrypto.rs:148-151) takes it for protected: a plain text
\* that begins with "pns1." stays in plain text until it is written anew.
EverythingGetsProtected ==
  <>[](folder # None /\ NkKey(TheNk) =>
         \A name \in Name :
           \/ Marked(values[name])
           \/ values[name] = Plain(written[name]) /\ written[name] \in Prefixed)
=============================================================================
