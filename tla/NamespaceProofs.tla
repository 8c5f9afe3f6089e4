--------------------------- MODULE NamespaceProofs ---------------------------
(***************************************************************************)
(* Theorems about Namespace, for any devices, passphrases, values, texts   *)
(* and bounds.                                                             *)
(***************************************************************************)
EXTENDS NamespaceProperties, SequenceTheorems, TLAPS

ByPassphrase(wrap, salt) ==
  wrap \in Wrap /\ \E passphrase \in Passphrase : Unwraps(wrap, passphrase, salt)

ByCode(wrap, salt) ==
  wrap \in Wrap /\ \E code \in codes : Unwraps(wrap, code, salt)

\* Both wraps open with the salt beside them, to the same key.
Sound(f) ==
  /\ f \in Folder
  /\ ByPassphrase(f.wrap, f.salt)
  /\ ByCode(f.recWrap, f.salt)
  /\ f.recWrap.nk = f.wrap.nk

\* What a device will store leaves the folder sound.
SoundResult(op, out) ==
  /\ op \in {"enable", "wrap", "recWrap", "write", "protect"}
  /\ op = "enable" => Sound(out)
  /\ op \in {"wrap", "recWrap"} => folder # None /\ out.nk = TheNk
  /\ op = "wrap" => ByPassphrase(out, folder.salt)
  /\ op = "recWrap" => ByCode(out, folder.salt)

\* The inductive invariant of the keys: what is stored is sound, and so is what
\* any device has yet to store, though others store theirs first.
KeysInv ==
  /\ codes \subseteq Nat /\ draws \in Nat
  /\ folder # None => Sound(folder)
  /\ nk = [d \in Device |-> nk[d]]
  /\ \A d \in Device : nk[d] # None => folder # None /\ nk[d] = TheNk
  /\ job = [d \in Device |-> job[d]]
  /\ \A d \in Device : job[d] # None => SoundResult(job[d].op, job[d].out)

-----------------------------------------------------------------------------
(* The keys.                                                               *)

\* wrap_nk makes a wrap of the type, which the credential opens with the salt.
LEMMA WrapNkOpens ==
  ASSUME NEW key \in [draw : Nat, length : Length],
         NEW credential \in Passphrase \union Nat, NEW salt \in Nat
  PROVE  /\ WrapNk(key, credential, salt) \in Wrap
         /\ Unwraps(WrapNk(key, credential, salt), credential, salt)
         /\ WrapNk(key, credential, salt).nk = key
  BY DEF WrapNk, DeriveKey, Unwraps, Wrap

\* More recovery codes are saved, nothing else of the keys changes: what was
\* sound is sound.
LEMMA SoundStays ==
  ASSUME KeysInv, codes \subseteq codes', UNCHANGED folder, NEW op, NEW out,
         SoundResult(op, out)
  PROVE  SoundResult(op, out)'
  BY DEF SoundResult, Sound, ByPassphrase, ByCode, TheNk

\* A device that computes a sound result keeps the invariant.
LEMMA ComputeKeeps ==
  ASSUME KeysInv, NEW d \in Device, NEW op, NEW out, Compute(d, op, out),
         codes \subseteq codes', codes' \subseteq Nat, draws' \in Nat, UNCHANGED nk,
         SoundResult(op, out)'
  PROVE  KeysInv'
<1>1. /\ job' = [e \in Device |-> job'[e]]
      /\ \A e \in Device : job'[e] = IF e = d THEN [op |-> op, out |-> out] ELSE job[e]
  BY DEF Compute, KeysInv
<1>2. UNCHANGED folder
  BY DEF Compute
<1>3. \A e \in Device : (job[e] # None => SoundResult(job[e].op, job[e].out))'
  <2> SUFFICES ASSUME NEW e \in Device, job'[e] # None
               PROVE  SoundResult(job[e].op, job[e].out)'
    OBVIOUS
  <2> PICK o, r : o = job'[e].op /\ r = job'[e].out
    OBVIOUS
  <2>1. SoundResult(o, r)'
    <3>1. CASE e = d
      <4>1. o = op /\ r = out
        BY <1>1, <3>1
      <4> QED
        BY <4>1
    <3>2. CASE e # d
      <4>1. o = job[e].op /\ r = job[e].out /\ job[e] # None
        BY <1>1, <3>2
      <4>2. SoundResult(o, r)
        BY <4>1 DEF KeysInv
      <4> QED
        BY <1>2, <4>2, SoundStays
    <3> QED
      BY <3>1, <3>2
  <2> QED
    BY <2>1 DEF SoundResult, Sound, ByPassphrase, ByCode, TheNk
<1>4. folder' # None => Sound(folder)'
  BY <1>2 DEF KeysInv, Sound, ByPassphrase, ByCode
<1> QED
  BY <1>1, <1>2, <1>3, <1>4 DEF KeysInv, TheNk

\* The key in a sound folder has the type of a key.
LEMMA FolderTypes ==
  ASSUME KeysInv, folder # None
  PROVE  /\ folder \in Folder /\ Sound(folder)
         /\ folder.salt \in Nat
         /\ TheNk \in [draw : Nat, length : Length]
         /\ UnwrapNk(folder.wrap) = TheNk
         /\ UnwrapNk(folder.recWrap) = TheNk
<1>1. Sound(folder)
  BY DEF KeysInv
<1>2. folder.wrap \in Wrap /\ folder.salt \in Nat
  BY <1>1 DEF Sound, Folder
<1>3. folder.wrap.nk \in [draw : Nat, length : Length]
  BY <1>2 DEF Wrap
<1> QED
  BY <1>1, <1>2, <1>3 DEF Sound, TheNk, UnwrapNk

\* Setting up a folder: one new key, wrapped twice with the salt beside it.
LEMMA EnableInv ==
  ASSUME KeysInv, NEW d \in Device, NEW passphrase \in Passphrase, NEW length \in Length,
         Enable(d, passphrase, length)
  PROVE  KeysInv'
<1> PICK n : n = Fresh
  OBVIOUS
<1> DEFINE key == Nk(n, length)
           w == WrapNk(key, passphrase, n)
           r == WrapNk(key, n, n)
           out == [salt |-> n, wrap |-> w, recWrap |-> r]
<1>1. n \in Nat /\ draws' = n
  BY DEF Enable, Draw, Fresh, KeysInv
<1>2. key \in [draw : Nat, length : Length]
  BY <1>1 DEF Nk
<1>3. codes' = codes \union {n} /\ UNCHANGED nk /\ Compute(d, "enable", out)
  BY DEF Enable, Draw, Nk
<1> HIDE DEF key
<1>4. w \in Wrap /\ Unwraps(w, passphrase, n) /\ w.nk = key
  BY <1>1, <1>2, WrapNkOpens
<1>5. r \in Wrap /\ Unwraps(r, n, n) /\ r.nk = key
  BY <1>1, <1>2, WrapNkOpens
<1> HIDE DEF w, r
<1>6. SoundResult("enable", out)'
  BY <1>1, <1>3, <1>4, <1>5 DEF SoundResult, Sound, ByPassphrase, ByCode, Folder
<1> HIDE DEF out
<1>7. codes' \subseteq Nat /\ draws' \in Nat
  BY <1>1, <1>3 DEF KeysInv
<1> QED
  BY <1>3, <1>6, <1>7, ComputeKeeps

\* A new wrap of the folder's key, under a passphrase.
LEMMA NewWrapInv ==
  ASSUME KeysInv, folder # None, NEW d \in Device, NEW new \in Passphrase,
         Compute(d, "wrap", WrapNk(TheNk, new, folder.salt)),
         UNCHANGED <<nk, codes, draws>>
  PROVE  KeysInv'
<1> PICK w : w = WrapNk(TheNk, new, folder.salt)
  OBVIOUS
<1>1. w \in Wrap /\ Unwraps(w, new, folder.salt) /\ w.nk = TheNk
  BY FolderTypes, WrapNkOpens
<1>2. UNCHANGED folder
  BY DEF Compute
<1>3. SoundResult("wrap", w)'
  BY <1>1, <1>2 DEF SoundResult, ByPassphrase, TheNk
<1>4. codes' \subseteq Nat /\ draws' \in Nat /\ codes \subseteq codes'
  BY DEF KeysInv
<1> QED
  BY <1>3, <1>4, ComputeKeeps

\* Changing the passphrase, and setting a new one with a recovery code.
LEMMA ChangeInv ==
  ASSUME KeysInv, NEW d \in Device, NEW passphrase \in Passphrase,
         \/ \E old \in Passphrase : ChangePassphrase(d, old, passphrase)
         \/ \E code \in codes : ResetPassphrase(d, code, passphrase)
  PROVE  KeysInv'
<1>1. folder # None
  BY DEF ChangePassphrase, ResetPassphrase, Opens, OpensByCode
<1>2. UnwrapNk(folder.wrap) = TheNk /\ UnwrapNk(folder.recWrap) = TheNk
  BY <1>1, FolderTypes
<1>3. /\ Compute(d, "wrap", WrapNk(TheNk, passphrase, folder.salt))
      /\ UNCHANGED <<nk, codes, draws>>
  BY <1>2 DEF ChangePassphrase, ResetPassphrase
<1> QED
  BY <1>1, <1>3, NewWrapInv

\* A new recovery code is saved before its wrap is stored.
LEMMA RotateCodeInv ==
  ASSUME KeysInv, NEW d \in Device, NEW passphrase \in Passphrase, RotateCode(d, passphrase)
  PROVE  KeysInv'
<1> PICK n : n = Fresh
  OBVIOUS
<1>1. folder # None
  BY DEF RotateCode, Opens
<1> PICK w : w = WrapNk(TheNk, n, folder.salt)
  OBVIOUS
<1>2. n \in Nat /\ draws' = n
  BY DEF RotateCode, Draw, Fresh, KeysInv
<1>3. codes' = codes \union {n} /\ UNCHANGED nk /\ Compute(d, "recWrap", w)
  BY <1>1, FolderTypes DEF RotateCode, Draw
<1>4. w \in Wrap /\ Unwraps(w, n, folder.salt) /\ w.nk = TheNk
  BY <1>1, <1>2, FolderTypes, WrapNkOpens
<1>5. UNCHANGED folder
  BY <1>3 DEF Compute
<1>6. SoundResult("recWrap", w)'
  BY <1>1, <1>3, <1>4, <1>5 DEF SoundResult, ByCode, TheNk
<1>7. codes' \subseteq Nat /\ draws' \in Nat /\ codes \subseteq codes'
  BY <1>2, <1>3 DEF KeysInv
<1> QED
  BY <1>3, <1>6, <1>7, ComputeKeeps

\* Values are not keys.
LEMMA ComputeValueInv ==
  ASSUME KeysInv, NEW d \in Device, NEW op \in {"write", "protect"}, NEW name, NEW value,
         ComputeValue(d, op, name, value)
  PROVE  KeysInv'
<1> PICK out : out = [name |-> name, read |-> values[name], value |-> value]
  OBVIOUS
<1>1. Compute(d, op, out) /\ UNCHANGED <<nk, codes, draws>>
  BY DEF ComputeValue
<1>2. SoundResult(op, out)'
  BY DEF SoundResult
<1>3. codes' \subseteq Nat /\ draws' \in Nat /\ codes \subseteq codes'
  BY <1>1 DEF KeysInv
<1> QED
  BY <1>1, <1>2, <1>3, ComputeKeeps

\* Unlocking gives the folder's key, by either wrap.
LEMMA UnlockInv ==
  ASSUME KeysInv, NEW d \in Device, Unlock(d)
  PROVE  KeysInv'
<1>1. folder # None
  BY DEF Unlock, Opens, OpensByCode
<1>2. nk' = [nk EXCEPT ![d] = TheNk]
  BY <1>1, FolderTypes DEF Unlock
<1>3. UNCHANGED <<folder, values, job, codes, draws, losses, crashes, written>>
  BY DEF Unlock
<1>4. /\ nk' = [e \in Device |-> nk'[e]]
      /\ \A e \in Device : nk'[e] = IF e = d THEN TheNk ELSE nk[e]
  BY <1>2 DEF KeysInv
<1> QED
  BY <1>1, <1>3, <1>4 DEF KeysInv, SoundResult, Sound, ByPassphrase, ByCode, TheNk

\* A crash forgets; nothing stored depends on what was forgotten.
LEMMA CrashInv ==
  ASSUME KeysInv, NEW d \in Device, Crash(d)
  PROVE  KeysInv'
<1>1. UNCHANGED <<folder, codes, draws>>
  BY DEF Crash
<1>2. /\ nk' = [e \in Device |-> nk'[e]] /\ job' = [e \in Device |-> job'[e]]
      /\ \A e \in Device : nk'[e] \in {nk[e], None} /\ job'[e] \in {job[e], None}
  BY DEF Crash, KeysInv
<1> QED
  BY <1>1, <1>2 DEF KeysInv, SoundResult, Sound, ByPassphrase, ByCode, TheNk


\* The folder is set up, or a wrap in it replaced: the salt and the key, once
\* there, stay, and so does all that was sound.
LEMMA FolderStep ==
  ASSUME KeysInv, UNCHANGED <<codes, draws, nk>>,
         folder' # None, Sound(folder)',
         folder # None => folder'.salt = folder.salt /\ folder'.wrap.nk = folder.wrap.nk,
         job' = [e \in Device |-> job'[e]],
         \A e \in Device : job'[e] \in {job[e], None}
  PROVE  KeysInv'
<1>1. \A e \in Device : (job[e] # None => SoundResult(job[e].op, job[e].out))'
  <2> SUFFICES ASSUME NEW e \in Device, job'[e] # None
               PROVE  SoundResult(job[e].op, job[e].out)'
    OBVIOUS
  <2>1. job'[e] = job[e]
    OBVIOUS
  <2> PICK o, r : o = job[e].op /\ r = job[e].out
    OBVIOUS
  <2>2. SoundResult(o, r)
    BY <2>1 DEF KeysInv
  <2>3. SoundResult(o, r)'
    BY <2>2 DEF SoundResult, Sound, ByPassphrase, ByCode, TheNk
  <2> QED
    BY <2>1, <2>3 DEF SoundResult, Sound, ByPassphrase, ByCode, TheNk
<1>2. \A e \in Device : nk'[e] # None => folder' # None /\ nk'[e] = TheNk'
  BY DEF KeysInv, TheNk
<1> QED
  BY <1>1, <1>2 DEF KeysInv

\* Whatever a device stores, however late, leaves the folder sound.
LEMMA StoreInv ==
  ASSUME KeysInv, NEW d \in Device, Store(d)
  PROVE  KeysInv'
<1> PICK op, out : op = job[d].op /\ out = job[d].out
  OBVIOUS
<1>1. SoundResult(op, out)
  BY DEF KeysInv, Store, Idle
<1>2. /\ UNCHANGED <<codes, draws, nk>>
      /\ job' = [e \in Device |-> job'[e]]
      /\ \A e \in Device : job'[e] \in {job[e], None}
  BY DEF Store, KeysInv
<1>3. CASE op \in {"write", "protect"} \/ (op = "enable" /\ folder # None)
  <2>1. UNCHANGED folder
    BY <1>3 DEF Store, StoreValue, StoreFolder
  <2>2. CASE folder # None
    <3>1. Sound(folder)'
      BY <1>2, <2>1, <2>2 DEF KeysInv, Sound, ByPassphrase, ByCode
    <3> QED
      BY <1>2, <2>1, <2>2, <3>1, FolderStep
  <2>3. CASE folder = None
    BY <1>2, <2>1, <2>3 DEF KeysInv, SoundResult, Sound, ByPassphrase, ByCode, TheNk
  <2> QED
    BY <2>2, <2>3
<1>4. CASE op = "enable" /\ folder = None
  <2>1. folder' = out
    BY <1>4 DEF Store, StoreFolder
  <2>2. Sound(out) /\ out # None
    BY <1>1, <1>4, NamespaceAssumption DEF SoundResult, Sound
  <2>3. Sound(folder)'
    BY <1>2, <2>1, <2>2 DEF Sound, ByPassphrase, ByCode
  <2> QED
    BY <1>2, <1>4, <2>1, <2>2, <2>3, FolderStep
<1>5. CASE op = "wrap"
  <2>1. folder' = [folder EXCEPT !.wrap = out]
    BY <1>5 DEF Store, StoreFolder
  <2>2. folder # None /\ out.nk = TheNk /\ ByPassphrase(out, folder.salt)
    BY <1>1, <1>5 DEF SoundResult
  <2>3. Sound(folder)
    BY <2>2 DEF KeysInv
  <2>4. folder' = [salt |-> folder.salt, wrap |-> out, recWrap |-> folder.recWrap]
    BY <2>1, <2>3 DEF Sound, Folder
  <2>5. folder' \in Folder
    BY <2>2, <2>3, <2>4 DEF Sound, Folder, ByPassphrase
  <2>6. Sound(folder)' /\ folder' # None
    BY <1>2, <2>2, <2>3, <2>4, <2>5, NamespaceAssumption DEF Sound, ByPassphrase, ByCode, TheNk
  <2> QED
    BY <1>2, <2>2, <2>4, <2>6, FolderStep DEF TheNk
<1>6. CASE op = "recWrap"
  <2>1. folder' = [folder EXCEPT !.recWrap = out]
    BY <1>6 DEF Store, StoreFolder
  <2>2. folder # None /\ out.nk = TheNk /\ ByCode(out, folder.salt)
    BY <1>1, <1>6 DEF SoundResult
  <2>3. Sound(folder)
    BY <2>2 DEF KeysInv
  <2>4. folder' = [salt |-> folder.salt, wrap |-> folder.wrap, recWrap |-> out]
    BY <2>1, <2>3 DEF Sound, Folder
  <2>5. folder' \in Folder
    BY <2>2, <2>3, <2>4 DEF Sound, Folder, ByCode
  <2>6. Sound(folder)' /\ folder' # None
    BY <1>2, <2>2, <2>3, <2>4, <2>5, NamespaceAssumption DEF Sound, ByPassphrase, ByCode, TheNk
  <2> QED
    BY <1>2, <2>2, <2>4, <2>6, FolderStep
<1> QED
  BY <1>1, <1>3, <1>4, <1>5, <1>6 DEF SoundResult

\* No step leaves the keys unsound.
LEMMA KeysNext ==
  ASSUME KeysInv, [Next]_vars
  PROVE  KeysInv'
<1>1. CASE UNCHANGED vars
  BY <1>1 DEF vars, KeysInv, SoundResult, Sound, ByPassphrase, ByCode, TheNk
<1>2. CASE \E name \in Name : LosePrefix(name)
  BY <1>2 DEF LosePrefix, KeysInv, SoundResult, Sound, ByPassphrase, ByCode, TheNk
<1>3. ASSUME NEW d \in Device, Unlock(d) \/ Store(d) \/ Crash(d)
      PROVE  KeysInv'
  BY <1>3, UnlockInv, StoreInv, CrashInv
<1>4. ASSUME NEW d \in Device, NEW passphrase \in Passphrase,
             \/ RotateCode(d, passphrase)
             \/ \E length \in Length : Enable(d, passphrase, length)
             \/ \E new \in Passphrase : ChangePassphrase(d, passphrase, new)
             \/ \E code \in codes : ResetPassphrase(d, code, passphrase)
      PROVE  KeysInv'
  BY <1>4, RotateCodeInv, EnableInv, ChangeInv
<1>5. ASSUME NEW d \in Device, NEW name \in Name,
             \/ Protect(d, name)
             \/ \E text \in Text : WritePlain(d, name, text) \/ Write(d, name, text)
      PROVE  KeysInv'
  <2>1. PICK op, value : op \in {"write", "protect"} /\ ComputeValue(d, op, name, value)
    BY <1>5 DEF Protect, WritePlain, Write
  <2> QED
    BY <2>1, ComputeValueInv
<1> QED
  BY <1>1, <1>2, <1>3, <1>4, <1>5 DEF Next

\* Whatever devices do and whenever they store it, the two wraps and the salt
\* fit together, and what is on its way to the store fits them.
THEOREM KeysStaySound == Spec => []KeysInv
<1>1. Init => KeysInv
  BY DEF Init, KeysInv
<1>2. KeysInv /\ [Next]_vars => KeysInv'
  BY KeysNext
<1> QED
  BY <1>1, <1>2, PTL DEF Spec

\* A passphrase and a saved recovery code always open the folder, to one key.
THEOREM AWayInIsAlwaysThere == Spec => []AlwaysAWayIn
<1>1. KeysInv => AlwaysAWayIn
  <2> SUFFICES ASSUME KeysInv PROVE AlwaysAWayIn
    OBVIOUS
  <2>1. ASSUME folder # None
        PROVE  /\ \E passphrase \in Passphrase : Opens(passphrase)
               /\ \E code \in codes : OpensByCode(code)
               /\ UnwrapNk(folder.recWrap) = TheNk
    BY <2>1, FolderTypes DEF Sound, ByPassphrase, ByCode, Opens, OpensByCode
  <2> QED
    BY <2>1 DEF KeysInv, AlwaysAWayIn
<1> QED
  BY <1>1, KeysStaySound, PTL


-----------------------------------------------------------------------------
(* The values.                                                             *)

Layer == [nk : [draw : Nat, length : Length], marked : BOOLEAN]

\* Text under layers that the folder's key takes off again.
Readable(value) ==
  /\ value \in [layers : Seq(Layer), text : Text]
  /\ value.layers # <<>> => folder # None /\ NkKey(TheNk)
  /\ \A i \in 1 .. Len(value.layers) : value.layers[i].nk = TheNk

\* Each layer but one that shows its prefix has lost it.
Shallow(value) ==
  Len(value.layers) <= losses + (IF Marked(value) THEN 1 ELSE 0)

\* What a device will store under a name.
ValueResult(op, out) ==
  /\ out.name \in Name
  /\ Readable(out.value) /\ Shallow(out.value)
  /\ op = "protect" => out.value.text = out.read.text

\* The inductive invariant of the values.
ValuesInv ==
  /\ losses \in Nat
  /\ values = [name \in Name |-> values[name]]
  /\ written \in [Name -> Text]
  /\ \A name \in Name :
       Readable(values[name]) /\ Shallow(values[name]) /\ values[name].text = written[name]
  /\ \A d \in Device :
       job[d] # None /\ job[d].op \in {"write", "protect"} => ValueResult(job[d].op, job[d].out)

\* Once a folder is set up, it stays, and so does its key.
LEMMA KeyStays ==
  ASSUME KeysInv, [Next]_vars, folder # None
  PROVE  folder' # None /\ TheNk' = TheNk
<1>1. CASE \E d \in Device : Store(d)
  <2> PICK d \in Device : Store(d)
    BY <1>1
  <2> PICK op, out : op = job[d].op /\ out = job[d].out
    OBVIOUS
  <2>1. SoundResult(op, out)
    BY DEF KeysInv, Store, Idle
  <2>2. /\ folder \in Folder /\ folder # None
        /\ \/ UNCHANGED folder
           \/ op = "wrap" /\ folder' = [folder EXCEPT !.wrap = out]
           \/ op = "recWrap" /\ folder' = [folder EXCEPT !.recWrap = out]
    BY <2>1 DEF Store, StoreValue, StoreFolder, SoundResult, KeysInv, Sound
  <2>3. /\ folder'.wrap.nk = folder.wrap.nk
        /\ UNCHANGED folder \/ folder' \in Folder
    BY <2>1, <2>2 DEF SoundResult, ByPassphrase, ByCode, TheNk, Folder
  <2> QED
    BY <2>2, <2>3, NamespaceAssumption DEF TheNk
<1>2. CASE UNCHANGED folder
  BY <1>2 DEF TheNk
<1> QED
  BY <1>1, <1>2 DEF Next, vars, Unlock, Crash, RotateCode, Enable, ChangePassphrase,
                    ResetPassphrase, Protect, WritePlain, Write, ComputeValue, Compute, LosePrefix

\* What can be read can be read after any step, and more losses allow more layers.
LEMMA ReadableStays ==
  ASSUME KeysInv, [Next]_vars, NEW value
  PROVE  /\ Readable(value) => Readable(value)'
         /\ losses \in Nat /\ losses' \in Nat /\ losses <= losses' /\ Shallow(value)
              /\ value.layers \in Seq(Layer) => Shallow(value)'
<1>1. ASSUME Readable(value)
      PROVE  Readable(value)'
  <2>1. CASE folder = None
    <3>1. value.layers = <<>>
      BY <1>1, <2>1 DEF Readable
    <3> QED
      BY <1>1, <3>1 DEF Readable
  <2>2. CASE folder # None
    BY <1>1, <2>2, KeyStays DEF Readable, NkKey
  <2> QED
    BY <2>1, <2>2
<1>2. ASSUME losses \in Nat, losses' \in Nat, losses <= losses', Shallow(value),
             value.layers \in Seq(Layer)
      PROVE  Shallow(value)'
  BY <1>2, LenProperties DEF Shallow, Marked
<1> QED
  BY <1>1, <1>2

\* Plain text is readable, whatever the folder.
LEMMA PlainReadable ==
  ASSUME NEW text \in Text, losses \in Nat
  PROVE  /\ Readable(Plain(text)) /\ Shallow(Plain(text))
         /\ Plain(text).text = text /\ ~Marked(Plain(text))
<1>1. <<>> \in Seq(Layer) /\ Len(<<>>) = 0
  BY EmptySeq
<1> QED
  BY <1>1 DEF Plain, Readable, Shallow, Marked

\* protect_value under the folder's key adds one layer that this key takes off.
LEMMA ProtectReadable ==
  ASSUME NEW value, Readable(value), Shallow(value), ~Marked(value),
         losses \in Nat, folder # None, NkKey(TheNk),
         TheNk \in [draw : Nat, length : Length]
  PROVE  /\ Readable(ProtectValue(TheNk, value)) /\ Shallow(ProtectValue(TheNk, value))
         /\ ProtectValue(TheNk, value).text = value.text
<1> DEFINE top == [nk |-> TheNk, marked |-> TRUE]
           layers == <<top>> \o value.layers
<1>1. top \in Layer /\ value.layers \in Seq(Layer) /\ value.text \in Text
  BY DEF Layer, Readable
<1>2. <<top>> \in Seq(Layer) /\ Len(<<top>>) = 1 /\ <<top>>[1] = top
  BY <1>1
<1>3. /\ layers \in Seq(Layer)
      /\ Len(layers) = 1 + Len(value.layers)
      /\ \A i \in 1 .. Len(layers) : layers[i] = IF i = 1 THEN top ELSE value.layers[i - 1]
  <2>1. \A i \in 1 .. 1 + Len(value.layers) :
          layers[i] = IF i <= 1 THEN <<top>>[i] ELSE value.layers[i - 1]
    BY <1>1, <1>2, ConcatProperties
  <2>2. layers \in Seq(Layer) /\ Len(layers) = 1 + Len(value.layers)
    BY <1>1, <1>2, ConcatProperties
  <2>3. Len(value.layers) \in Nat
    BY <1>1, LenProperties
  <2> HIDE DEF layers, top
  <2> QED
    BY <1>2, <2>1, <2>2, <2>3
<1>4. ProtectValue(TheNk, value) = [layers |-> layers, text |-> value.text]
  <2>1. \A l : [value EXCEPT !.layers = l] = [layers |-> l, text |-> value.text]
    BY DEF Readable
  <2> QED
    BY <2>1 DEF ProtectValue
<1> HIDE DEF layers
<1>5. Len(value.layers) \in Nat
  BY <1>1, LenProperties
<1>6. \A i \in 1 .. Len(layers) : layers[i].nk = TheNk
  <2> TAKE i \in 1 .. Len(layers)
  <2>1. CASE i = 1
    BY <1>3, <2>1
  <2>2. CASE i # 1
    <3>1. i - 1 \in 1 .. Len(value.layers)
      BY <1>3, <1>5, <2>2
    <3> QED
      BY <1>3, <2>2, <3>1 DEF Readable
  <2> QED
    BY <2>1, <2>2
<1>7. Readable([layers |-> layers, text |-> value.text])
  BY <1>1, <1>3, <1>6 DEF Readable
<1>8. Len(layers) <= losses + 1
  BY <1>3, <1>5 DEF Shallow
<1>9. layers # <<>> /\ Head(layers) = top
  BY <1>3, <1>5
<1>10. Shallow([layers |-> layers, text |-> value.text])
  BY <1>8, <1>9 DEF Shallow, Marked
<1> QED
  BY <1>4, <1>7, <1>10


\* A step keeps the invariant if what it puts in the store, or in a device's
\* memory, is sound after it.
LEMMA ValuesKeep ==
  ASSUME KeysInv, ValuesInv, [Next]_vars,
         losses' \in Nat, losses <= losses', values' = [name \in Name |-> values'[name]],
         written' \in [Name -> Text],
         \A name \in Name :
           \/ values'[name] = values[name] /\ written'[name] = written[name]
           \/ (Readable(values[name]) /\ Shallow(values[name])
                 /\ values[name].text = written[name])',
         \A d \in Device :
           job'[d] # None /\ job'[d].op \in {"write", "protect"} =>
             job'[d] = job[d] \/ ValueResult(job[d].op, job[d].out)'
  PROVE  ValuesInv'
<1>1. ASSUME NEW name \in Name
      PROVE  (Readable(values[name]) /\ Shallow(values[name])
                /\ values[name].text = written[name])'
  <2>1. CASE values'[name] = values[name] /\ written'[name] = written[name]
    <3> PICK value : value = values[name]
      OBVIOUS
    <3>1. Readable(value) /\ Shallow(value) /\ value.text = written[name]
      BY DEF ValuesInv
    <3>2. value.layers \in Seq(Layer)
      BY <3>1 DEF Readable
    <3>3. Readable(value)' /\ Shallow(value)'
      BY <3>1, <3>2, ReadableStays DEF ValuesInv
    <3> QED
      BY <2>1, <3>1, <3>3 DEF Readable, Shallow
  <2> QED
    BY <2>1
<1>2. ASSUME NEW d \in Device, job'[d] # None, job'[d].op \in {"write", "protect"}
      PROVE  ValueResult(job[d].op, job[d].out)'
  <2>1. CASE job'[d] = job[d]
    <3> PICK op, out : op = job[d].op /\ out = job[d].out
      OBVIOUS
    <3>1. ValueResult(op, out)
      BY <1>2, <2>1 DEF ValuesInv
    <3> PICK value : value = out.value
      OBVIOUS
    <3>2. Readable(value) /\ Shallow(value) /\ value.layers \in Seq(Layer)
      BY <3>1 DEF ValueResult, Readable
    <3>3. Readable(value)' /\ Shallow(value)'
      BY <3>2, ReadableStays DEF ValuesInv
    <3> QED
      BY <2>1, <3>1, <3>3 DEF ValueResult, Readable, Shallow
  <2> QED
    BY <1>2, <2>1
<1> QED
  BY <1>1, <1>2 DEF ValuesInv

\* A device that writes or protects a value prepares one the key reads.
LEMMA ValueComputed ==
  ASSUME KeysInv, ValuesInv, NEW d \in Device, NEW name \in Name,
         \/ Protect(d, name)
         \/ \E text \in Text : WritePlain(d, name, text) \/ Write(d, name, text)
  PROVE  \E op, value :
           /\ op \in {"write", "protect"}
           /\ ComputeValue(d, op, name, value)
           /\ Readable(value) /\ Shallow(value)
           /\ op = "protect" => value.text = values[name].text
<1>1. CASE Protect(d, name)
  <2>1. nk[d] = TheNk /\ folder # None /\ NkKey(TheNk)
    BY <1>1 DEF Protect, KeysInv
  <2>2. TheNk \in [draw : Nat, length : Length]
    BY <2>1, FolderTypes
  <2> PICK value : value = values[name]
    OBVIOUS
  <2>3. Readable(value) /\ Shallow(value) /\ ~Marked(value) /\ losses \in Nat
    BY <1>1 DEF Protect, ValuesInv, IsProtectedBlob
  <2> PICK key : key = TheNk
    OBVIOUS
  <2> PICK new : new = ProtectValue(key, value)
    OBVIOUS
  <2>4. Readable(new) /\ Shallow(new) /\ new.text = value.text
    BY <2>1, <2>2, <2>3, ProtectReadable
  <2>5. ComputeValue(d, "protect", name, new)
    BY <1>1, <2>1 DEF Protect
  <2> QED
    BY <2>4, <2>5
<1>2. ASSUME NEW text \in Text, WritePlain(d, name, text)
      PROVE  \E value : ComputeValue(d, "write", name, value) /\ Readable(value) /\ Shallow(value)
  BY <1>2, PlainReadable DEF WritePlain, ValuesInv
<1>3. ASSUME NEW text \in Text, Write(d, name, text)
      PROVE  \E value : ComputeValue(d, "write", name, value) /\ Readable(value) /\ Shallow(value)
  <2>1. nk[d] = TheNk /\ folder # None /\ NkKey(TheNk)
    BY <1>3 DEF Write, KeysInv
  <2>2. TheNk \in [draw : Nat, length : Length]
    BY <2>1, FolderTypes
  <2>3. Readable(Plain(text)) /\ Shallow(Plain(text)) /\ ~Marked(Plain(text))
          /\ losses \in Nat
    BY PlainReadable DEF ValuesInv
  <2> PICK new : new = ProtectValue(TheNk, Plain(text))
    OBVIOUS
  <2>4. Readable(new) /\ Shallow(new)
    BY <2>1, <2>2, <2>3, ProtectReadable
  <2>5. ComputeValue(d, "write", name, new)
    BY <1>3, <2>1 DEF Write
  <2> QED
    BY <2>4, <2>5
<1> QED
  BY <1>1, <1>2, <1>3

\* Storing puts nothing in the folder but what was prepared.
LEMMA StoreValuesInv ==
  ASSUME KeysInv, ValuesInv, NEW d \in Device, Store(d), [Next]_vars
  PROVE  ValuesInv'
<1> PICK op, out : op = job[d].op /\ out = job[d].out
  OBVIOUS
<1>1. /\ UNCHANGED losses
      /\ \A e \in Device : job'[e] \in {job[e], None}
  BY DEF Store, KeysInv
<1>2. CASE UNCHANGED <<values, written>>
  BY <1>1, <1>2, ValuesKeep DEF ValuesInv
<1>3. CASE ~UNCHANGED <<values, written>>
  <2>1. /\ op \in {"write", "protect"} /\ values[out.name] = out.read
        /\ values' = [values EXCEPT ![out.name] = out.value]
        /\ written' = IF op = "write"
                        THEN [written EXCEPT ![out.name] = out.value.text] ELSE written
    BY <1>3 DEF Store, StoreValue, StoreFolder
  <2>2. ValueResult(op, out)
    BY <2>1 DEF ValuesInv, Store, Idle
  <2> PICK value, target : value = out.value /\ target = out.name
    OBVIOUS
  <2>3. Readable(value) /\ Shallow(value) /\ value.layers \in Seq(Layer) /\ value.text \in Text
    BY <2>2 DEF ValueResult, Readable
  <2>4. Readable(value)' /\ Shallow(value)'
    BY <1>1, <2>3, ReadableStays DEF ValuesInv
  <2>5. /\ values' = [name \in Name |-> values'[name]] /\ written' \in [Name -> Text]
        /\ target \in Name
        /\ values'[target] = value /\ written'[target] = value.text
        /\ \A name \in Name \ {target} :
             values'[name] = values[name] /\ written'[name] = written[name]
    BY <2>1, <2>2, <2>3 DEF ValuesInv, ValueResult
  <2>6. (Readable(values[target]) /\ Shallow(values[target])
           /\ values[target].text = written[target])'
    BY <2>4, <2>5 DEF Readable, Shallow
  <2>7. \A name \in Name :
          \/ values'[name] = values[name] /\ written'[name] = written[name]
          \/ (Readable(values[name]) /\ Shallow(values[name])
                /\ values[name].text = written[name])'
    <3> TAKE name \in Name
    <3>1. CASE name = target
      BY <2>6, <3>1 DEF Readable, Shallow
    <3> QED
      BY <2>5, <3>1
  <2>8. \A e \in Device : job'[e] # None => job'[e] = job[e]
    BY <1>1
  <2> QED
    BY <1>1, <2>5, <2>7, <2>8, ValuesKeep DEF ValuesInv
<1> QED
  BY <1>2, <1>3

\* A lost prefix is a layer that is still there.
LEMMA LosePrefixInv ==
  ASSUME KeysInv, ValuesInv, NEW target \in Name, LosePrefix(target), [Next]_vars
  PROVE  ValuesInv'
<1> PICK value : value = values[target]
  OBVIOUS
<1> PICK layers : layers = [value.layers EXCEPT ![1].marked = FALSE]
  OBVIOUS
<1>1. /\ Readable(value) /\ Shallow(value) /\ Marked(value)
      /\ value.text = written[target] /\ losses \in Nat
  BY DEF ValuesInv, LosePrefix
<1>2. /\ UNCHANGED <<folder, job, written>> /\ losses' = losses + 1
      /\ values' = [values EXCEPT ![target].layers[1].marked = FALSE]
  BY DEF LosePrefix
<1>3. /\ value.layers \in Seq(Layer) /\ value.text \in Text
      /\ value = [layers |-> value.layers, text |-> value.text]
  BY <1>1 DEF Readable
<1> PICK old : old = value.layers
  OBVIOUS
<1> PICK top : top = [old[1] EXCEPT !.marked = FALSE]
  OBVIOUS
<1>4. Len(old) \in Nat \ {0} /\ 1 \in 1 .. Len(old)
  <2>1. old # <<>>
    BY <1>1 DEF Marked
  <2> QED
    BY <1>3, <2>1, EmptySeq
<1>5. old[1] \in Layer
  BY <1>3, <1>4, ElementOfSeq
<1>6. top \in Layer /\ top.nk = old[1].nk
  BY <1>5 DEF Layer
<1>7. layers = [old EXCEPT ![1] = top]
  BY <1>3
<1>8. /\ layers \in Seq(Layer) /\ Len(layers) = Len(old)
      /\ \A i \in 1 .. Len(old) : layers[i] = IF i = 1 THEN top ELSE old[i]
  BY <1>3, <1>4, <1>6, <1>7, ExceptSeq
<1> PICK new : new = [layers |-> layers, text |-> value.text]
  OBVIOUS
<1>9. Readable(new)
  <2>1. old # <<>>
    BY <1>1 DEF Marked
  <2>2. \A i \in 1 .. Len(layers) : layers[i].nk = TheNk
    BY <1>1, <1>4, <1>6, <1>8 DEF Readable
  <2> QED
    BY <1>1, <1>3, <1>8, <2>1, <2>2 DEF Readable
<1>10. Readable(new)'
  BY <1>9, ReadableStays
<1>11. Shallow(new)'
  <2>1. Len(layers) <= losses'
    BY <1>1, <1>2, <1>4, <1>8 DEF Shallow
  <2> QED
    BY <1>1, <1>2, <1>4, <1>8, <2>1 DEF Shallow
<1>12. /\ values' = [name \in Name |-> values'[name]]
       /\ values'[target] = new
       /\ \A name \in Name \ {target} : values'[name] = values[name]
  <2>1. \A l : [value EXCEPT !.layers = l] = [layers |-> l, text |-> value.text]
    BY <1>3
  <2>2. [value EXCEPT !.layers[1].marked = FALSE]
          = [value EXCEPT !.layers = [value.layers EXCEPT ![1].marked = FALSE]]
    BY <1>3
  <2>3. values' = [values EXCEPT ![target] = [value EXCEPT !.layers[1].marked = FALSE]]
    BY <1>2
  <2> QED
    BY <2>1, <2>2, <2>3 DEF ValuesInv
<1>13. \A name \in Name :
         \/ values'[name] = values[name] /\ written'[name] = written[name]
         \/ (Readable(values[name]) /\ Shallow(values[name])
               /\ values[name].text = written[name])'
  <2> TAKE name \in Name
  <2>1. CASE name = target
    BY <1>1, <1>2, <1>10, <1>11, <1>12, <2>1 DEF Readable, Shallow
  <2> QED
    BY <1>2, <1>12, <2>1
<1>14. /\ losses' \in Nat /\ losses <= losses' /\ written' \in [Name -> Text]
       /\ \A d \in Device : job'[d] = job[d]
  BY <1>1, <1>2 DEF ValuesInv
<1> QED
  BY <1>12, <1>13, <1>14, ValuesKeep


\* No step makes a value unreadable.
LEMMA ValuesNext ==
  ASSUME KeysInv, ValuesInv, [Next]_vars
  PROVE  ValuesInv'
<1>1. ASSUME UNCHANGED <<values, written, losses>>,
             \A d \in Device : job'[d] # None /\ job'[d].op \in {"write", "protect"} =>
                                 job'[d] = job[d] \/ ValueResult(job[d].op, job[d].out)'
      PROVE  ValuesInv'
  BY <1>1, ValuesKeep DEF ValuesInv
<1>2. CASE UNCHANGED vars
  BY <1>1, <1>2 DEF vars
<1>3. ASSUME NEW name \in Name, LosePrefix(name)
      PROVE  ValuesInv'
  BY <1>3, LosePrefixInv
<1>4. ASSUME NEW d \in Device, Store(d)
      PROVE  ValuesInv'
  BY <1>4, StoreValuesInv
<1>5. ASSUME NEW d \in Device, Unlock(d) \/ Crash(d)
      PROVE  ValuesInv'
  BY <1>1, <1>5 DEF Unlock, Crash, KeysInv
<1>6. ASSUME NEW d \in Device, NEW op, NEW out, Compute(d, op, out),
             op \notin {"write", "protect"}
      PROVE  ValuesInv'
  BY <1>1, <1>6 DEF Compute, KeysInv
<1>7. ASSUME NEW d \in Device, NEW passphrase \in Passphrase,
             \/ RotateCode(d, passphrase)
             \/ \E length \in Length : Enable(d, passphrase, length)
             \/ \E new \in Passphrase : ChangePassphrase(d, passphrase, new)
             \/ \E code \in codes : ResetPassphrase(d, code, passphrase)
      PROVE  ValuesInv'
  <2>1. \E op, out : op \notin {"write", "protect"} /\ Compute(d, op, out)
    BY <1>7 DEF RotateCode, Enable, ChangePassphrase, ResetPassphrase
  <2> QED
    BY <1>6, <2>1
<1>8. ASSUME NEW d \in Device, NEW name \in Name,
             \/ Protect(d, name)
             \/ \E text \in Text : WritePlain(d, name, text) \/ Write(d, name, text)
      PROVE  ValuesInv'
  <2> PICK op, value :
             /\ op \in {"write", "protect"}
             /\ ComputeValue(d, op, name, value)
             /\ Readable(value) /\ Shallow(value)
             /\ op = "protect" => value.text = values[name].text
    BY <1>8, ValueComputed
  <2> PICK out : out = [name |-> name, read |-> values[name], value |-> value]
    OBVIOUS
  <2>1. /\ UNCHANGED <<values, written, losses>>
        /\ \A e \in Device : job'[e] = IF e = d THEN [op |-> op, out |-> out] ELSE job[e]
    BY DEF ComputeValue, Compute, KeysInv
  <2>2. Readable(value)' /\ Shallow(value)'
    BY <2>1, ReadableStays DEF Readable, ValuesInv
  <2>3. ValueResult(op, out)'
    BY <2>2 DEF ValueResult, Readable, Shallow
  <2>4. ASSUME NEW e \in Device, job'[e] # None, job'[e].op \in {"write", "protect"}
        PROVE  job'[e] = job[e] \/ ValueResult(job[e].op, job[e].out)'
    <3>1. CASE e = d
      <4>1. job'[e].op = op /\ job'[e].out = out
        BY <2>1, <3>1
      <4> QED
        BY <2>3, <4>1 DEF ValueResult, Readable, Shallow
    <3> QED
      BY <2>1, <3>1
  <2> QED
    BY <1>1, <2>1, <2>4
<1> QED
  BY <1>2, <1>3, <1>4, <1>5, <1>7, <1>8 DEF Next

\* The reading after k readings: what unprotect_value makes of a value is what
\* one more reading leaves of it.
LEMMA UnprotectReads ==
  ASSUME NEW S, NEW value, value.layers \in Seq(S), NEW k \in 0 .. Len(value.layers) - 1,
         value = [layers |-> value.layers, text |-> value.text]
  PROVE  /\ UnprotectValue(Reading(value, k)) = Reading(value, k + 1)
         /\ Reading(value, k).layers # <<>>
         /\ Head(Reading(value, k).layers) = value.layers[k + 1]
<1> PICK layers : layers = value.layers
  OBVIOUS
<1>1. /\ layers \in Seq(S) /\ Len(layers) \in Nat
      /\ k + 1 \in 1 .. Len(layers) /\ Len(layers) \in k + 1 .. Len(layers)
  BY LenProperties
<1>2. \A l : [value EXCEPT !.layers = l] = [layers |-> l, text |-> value.text]
  OBVIOUS
<1>3. \A j \in Nat : Reading(value, j)
                       = [layers |-> SubSeq(layers, j + 1, Len(layers)), text |-> value.text]
  BY <1>2 DEF Reading
<1>4. /\ Head(SubSeq(layers, k + 1, Len(layers))) = layers[k + 1]
      /\ Tail(SubSeq(layers, k + 1, Len(layers))) = SubSeq(layers, (k + 1) + 1, Len(layers))
  BY <1>1, HeadTailOfSubSeq
<1> PICK rest : rest = SubSeq(layers, k + 1, Len(layers))
  OBVIOUS
<1>5. rest # <<>>
  <2>1. \A i \in k + 1 .. Len(layers) : layers[i] \in S
    BY <1>1, ElementOfSeq
  <2>2. Len(rest) = Len(layers) - (k + 1) + 1 /\ rest \in Seq(S)
    BY <1>1, <2>1, SubSeqProperties
  <2>3. Len(rest) # 0
    BY <1>1, <2>2
  <2> QED
    BY <2>2, <2>3, EmptySeq
<1>6. /\ Reading(value, k) = [layers |-> rest, text |-> value.text]
      /\ Reading(value, k + 1)
           = [layers |-> SubSeq(layers, (k + 1) + 1, Len(layers)), text |-> value.text]
  <2>1. k \in Nat /\ k + 1 \in Nat
    OBVIOUS
  <2> QED
    BY <1>3, <2>1, Zenon
<1> PICK now, later : now = Reading(value, k) /\ later = Reading(value, k + 1)
  OBVIOUS
<1>7. now = [layers |-> rest, text |-> value.text]
  BY <1>6, Zenon
<1>8. now.layers = rest
  <2>1. \A l, t : [layers |-> l, text |-> t].layers = l
    OBVIOUS
  <2> QED
    BY <1>7, <2>1, Zenon
<1>9. UnprotectValue(now) = [layers |-> Tail(rest), text |-> value.text]
  <2>1. now = [layers |-> rest, text |-> value.text] /\ now.layers = rest
    BY <1>7, <1>8, Zenon
  <2>2. \A l : [now EXCEPT !.layers = l] = [layers |-> l, text |-> value.text]
    BY <2>1
  <2>3. UnprotectValue(now) = [now EXCEPT !.layers = Tail(now.layers)]
    BY DEF UnprotectValue
  <2> QED
    BY <2>1, <2>2, <2>3, Zenon
<1>10. UnprotectValue(now) = later
  BY <1>4, <1>6, <1>9, Zenon
<1>11. now.layers = rest /\ Head(rest) = layers[k + 1]
  BY <1>4, <1>8, Zenon
<1> QED
  BY <1>5, <1>10, <1>11, Zenon

\* Values stay readable for as long as the keys stay sound.
THEOREM ValuesStayReadable == Spec => [](KeysInv /\ ValuesInv)
<1>1. Init => KeysInv /\ ValuesInv
  <2> SUFFICES ASSUME Init PROVE KeysInv /\ ValuesInv
    OBVIOUS
  <2>1. KeysInv
    BY DEF Init, KeysInv
  <2>2. \A name \in Name : values[name] = Plain(written[name]) /\ written[name] \in Text
    BY DEF Init
  <2>3. \A name \in Name :
          Readable(values[name]) /\ Shallow(values[name]) /\ values[name].text = written[name]
    BY <2>2, PlainReadable DEF Init
  <2> QED
    BY <2>1, <2>3 DEF Init, ValuesInv
<1>2. KeysInv /\ ValuesInv /\ [Next]_vars => (KeysInv /\ ValuesInv)'
  BY KeysNext, ValuesNext
<1> QED
  BY <1>1, <1>2, PTL DEF Spec

\* Whatever prefixes are lost and whatever is protected again, the folder's key
\* reads every value back to the text that was written last.
THEOREM NothingIsEverLost == Spec => []NothingIsLost
<1>1. KeysInv /\ ValuesInv => NothingIsLost
  <2> SUFFICES ASSUME KeysInv, ValuesInv, NEW name \in Name
               PROVE  LET value == values[name]
                          depth == Len(value.layers)
                      IN  /\ depth <= 1 + losses
                          /\ depth > 0 => folder # None
                          /\ \A k \in 0 .. depth - 1 : Unprotects(TheNk, Reading(value, k))
                          /\ Reading(value, depth) = Plain(written[name])
    BY DEF NothingIsLost
  <2> PICK value : value = values[name]
    OBVIOUS
  <2> PICK layers : layers = value.layers
    OBVIOUS
  <2>1. /\ Readable(value) /\ Shallow(value) /\ value.text = written[name] /\ losses \in Nat
    BY DEF ValuesInv
  <2>2. /\ layers \in Seq(Layer) /\ Len(layers) \in Nat
        /\ value = [layers |-> value.layers, text |-> value.text]
    BY <2>1, LenProperties DEF Readable
  <2>3. Len(layers) <= 1 + losses
    BY <2>1, <2>2 DEF Shallow
  <2>4. Len(layers) > 0 => folder # None /\ NkKey(TheNk)
    BY <2>1, <2>2, EmptySeq DEF Readable
  <2>5. ASSUME NEW k \in 0 .. Len(layers) - 1
        PROVE  Unprotects(TheNk, Reading(value, k))
    <3>1. Reading(value, k).layers # <<>> /\ Head(Reading(value, k).layers) = layers[k + 1]
      BY <2>2, UnprotectReads
    <3>2. layers[k + 1].nk = TheNk /\ NkKey(TheNk)
      BY <2>1, <2>2, <2>4 DEF Readable
    <3> QED
      BY <3>1, <3>2 DEF Unprotects
  <2>6. Reading(value, Len(layers)) = Plain(written[name])
    <3>1. SubSeq(layers, Len(layers) + 1, Len(layers)) = <<>>
      BY <2>2, SubSeqEmpty
    <3>2. \A l : [value EXCEPT !.layers = l] = [layers |-> l, text |-> value.text]
      BY <2>2
    <3> QED
      BY <2>1, <3>1, <3>2 DEF Reading, Plain
  <2> QED
    BY <2>3, <2>4, <2>5, <2>6
<1> QED
  BY <1>1, ValuesStayReadable, PTL

-----------------------------------------------------------------------------
(* Types.                                                                  *)

\* How far the counters go, and that a code is a draw.
Counted ==
  /\ codes \subseteq 1 .. draws
  /\ draws \in 0..MaxDraws /\ losses \in 0..MaxLosses /\ crashes \in 0..MaxCrashes

\* The counters stay in their bounds.
LEMMA CountedNext ==
  ASSUME Counted, [Next]_vars
  PROVE  Counted'
<1> USE NamespaceAssumption DEF Counted
<1>1. ASSUME Draw, UNCHANGED <<losses, crashes>>, codes' \in {codes, codes \union {Fresh}}
      PROVE  Counted'
  BY <1>1 DEF Draw, Fresh
<1>2. ASSUME UNCHANGED <<codes, draws>>,
             \/ UNCHANGED <<losses, crashes>>
             \/ losses < MaxLosses /\ losses' = losses + 1 /\ UNCHANGED crashes
             \/ crashes < MaxCrashes /\ crashes' = crashes + 1 /\ UNCHANGED losses
      PROVE  Counted'
  BY <1>2
<1>3. ASSUME NEW d \in Device, NEW passphrase \in Passphrase,
             \/ RotateCode(d, passphrase)
             \/ \E length \in Length : Enable(d, passphrase, length)
             \/ \E new \in Passphrase : ChangePassphrase(d, passphrase, new)
             \/ \E code \in codes : ResetPassphrase(d, code, passphrase)
      PROVE  Counted'
  BY <1>1, <1>2, <1>3 DEF RotateCode, Enable, ChangePassphrase, ResetPassphrase, Compute
<1> QED
  BY <1>2, <1>3 DEF Next, vars, Unlock, Store, StoreFolder, StoreValue, Crash, Protect,
                    WritePlain, Write, ComputeValue, Compute, LosePrefix

\* Every variable keeps its type.
THEOREM NamespaceTypes == Spec => []TypeOK
<1>1. Init => Counted
  BY NamespaceAssumption DEF Init, Counted
<1>2. Counted /\ [Next]_vars => Counted'
  BY CountedNext
<1>3. KeysInv /\ ValuesInv /\ Counted => TypeOK
  <2> SUFFICES ASSUME KeysInv, ValuesInv, Counted PROVE TypeOK
    OBVIOUS
  <2>1. \A d \in Device : nk[d] # None => nk[d] \in [draw : Nat, length : Length]
    BY FolderTypes DEF KeysInv
  <2>2. folder \in Folder \union {None}
    BY FolderTypes
  <2> QED
    BY <2>1, <2>2 DEF TypeOK, Counted, ValuesInv, Readable
<1> QED
  BY <1>1, <1>2, <1>3, ValuesStayReadable, PTL DEF Spec

-----------------------------------------------------------------------------
(* What does not come undone.                                              *)

\* The key of a folder is chosen once: no change of passphrase, reset, new
\* recovery code or second setting up that is stored late puts another in its
\* place, which would leave the values under a key nobody has
\* (wrap_nk is given the key that unwrap_nk returned, nscrypto.rs:117-131).
KeyIsForever == [][folder # None => folder' # None /\ TheNk' = TheNk]_vars

\* A value that is sealed, with its prefix on, stays so until the prefix is lost: a
\* plain text computed by a device that did not know of the folder, and stored
\* after another has protected the value, is not stored over it.  A plain text
\* that begins with the prefix is not sealed, though is_protected_blob takes it
\* for protected (nscrypto.rs:148-151), and nothing is said of it.
ProtectionLasts ==
  [][\A name \in Name :
       Marked(values[name]) /\ ~Marked(values'[name]) => losses' > losses]_vars

\* What a device will store in plain text was not computed from a sealed value.
NothingUncovers ==
  \A d \in Device :
    /\ job[d] # None /\ job[d].op \in {"write", "protect"}
    /\ Marked(job[d].out.read)
    => Marked(job[d].out.value)

\* The folder has the key it had after every step.
THEOREM TheKeyIsForever == Spec => KeyIsForever
<1>1. KeysInv /\ [Next]_vars => [folder # None => folder' # None /\ TheNk' = TheNk]_vars
  BY KeyStays
<1> QED
  BY <1>1, KeysStaySound, PTL DEF Spec, KeyIsForever

\* What protect_value returns begins with its prefix.
LEMMA ProtectMarks ==
  ASSUME NEW key, NEW value, NEW S, value.layers \in Seq(S),
         value = [layers |-> value.layers, text |-> value.text]
  PROVE  Marked(ProtectValue(key, value))
<1> PICK top, rest : top = [nk |-> key, marked |-> TRUE] /\ rest = value.layers
  OBVIOUS
<1> PICK layers : layers = <<top>> \o rest
  OBVIOUS
<1>1. \A l : [value EXCEPT !.layers = l] = [layers |-> l, text |-> value.text]
  OBVIOUS
<1>2. ProtectValue(key, value) = [layers |-> layers, text |-> value.text]
  BY <1>1 DEF ProtectValue
<1>3. layers # <<>> /\ Head(layers) = top
  <2>1. <<top>> \in Seq(S \union {top}) /\ Len(<<top>>) = 1 /\ <<top>>[1] = top
    OBVIOUS
  <2>2. rest \in Seq(S \union {top}) /\ Len(rest) \in Nat
    BY LenProperties, ElementOfSeq
  <2>3. Len(layers) = 1 + Len(rest) /\ layers[1] = top /\ layers \in Seq(S \union {top})
    BY <2>1, <2>2, ConcatProperties
  <2> QED
    BY <2>2, <2>3, EmptySeq
<1> QED
  BY <1>2, <1>3 DEF Marked

\* A value that a device computes is sealed if the one it replaces is.
LEMMA ComputedCovers ==
  ASSUME KeysInv, ValuesInv, NEW d \in Device, NEW name \in Name,
         \/ Protect(d, name)
         \/ \E text \in Text : WritePlain(d, name, text) \/ Write(d, name, text)
  PROVE  \E op, value :
           /\ ComputeValue(d, op, name, value)
           /\ Marked(values[name]) => Marked(value)
<1>1. CASE Protect(d, name)
  BY <1>1 DEF Protect, IsProtectedBlob
<1>2. ASSUME NEW text \in Text, WritePlain(d, name, text)
      PROVE  ~Marked(values[name]) /\ ComputeValue(d, "write", name, Plain(text))
  <2>1. folder = None /\ Readable(values[name])
    BY <1>2 DEF WritePlain, ValuesInv
  <2> QED
    BY <1>2, <2>1 DEF WritePlain, Readable, Marked
<1>3. ASSUME NEW text \in Text, Write(d, name, text)
      PROVE  \E value : ComputeValue(d, "write", name, value) /\ Marked(value)
  <2>1. <<>> \in Seq(Layer)
    OBVIOUS
  <2>2. Marked(ProtectValue(nk[d], Plain(text)))
    BY <2>1, ProtectMarks DEF Plain
  <2> QED
    BY <1>3, <2>2 DEF Write
<1> QED
  BY <1>1, <1>2, <1>3

\* The invariant holds of what is computed, and what is not computed anew stays.
LEMMA NothingUncoversNext ==
  ASSUME KeysInv, ValuesInv, NothingUncovers, [Next]_vars
  PROVE  NothingUncovers'
<1>1. ASSUME \A d \in Device : job'[d] # None /\ job'[d].op \in {"write", "protect"} =>
                                 job'[d] = job[d]
      PROVE  NothingUncovers'
  BY <1>1 DEF NothingUncovers, Marked
<1>2. CASE UNCHANGED vars \/ \E name \in Name : LosePrefix(name)
  BY <1>1, <1>2 DEF vars, LosePrefix
<1>3. ASSUME NEW d \in Device, Unlock(d) \/ Store(d) \/ Crash(d)
      PROVE  NothingUncovers'
  BY <1>1, <1>3 DEF Unlock, Store, Crash, KeysInv
<1>4. ASSUME NEW d \in Device, NEW op, NEW out, Compute(d, op, out),
             op \notin {"write", "protect"}
      PROVE  NothingUncovers'
  BY <1>1, <1>4 DEF Compute, KeysInv
<1>5. ASSUME NEW d \in Device, NEW passphrase \in Passphrase,
             \/ RotateCode(d, passphrase)
             \/ \E length \in Length : Enable(d, passphrase, length)
             \/ \E new \in Passphrase : ChangePassphrase(d, passphrase, new)
             \/ \E code \in codes : ResetPassphrase(d, code, passphrase)
      PROVE  NothingUncovers'
  <2>1. \E op, out : op \notin {"write", "protect"} /\ Compute(d, op, out)
    BY <1>5 DEF RotateCode, Enable, ChangePassphrase, ResetPassphrase
  <2> QED
    BY <1>4, <2>1
<1>6. ASSUME NEW d \in Device, NEW name \in Name,
             \/ Protect(d, name)
             \/ \E text \in Text : WritePlain(d, name, text) \/ Write(d, name, text)
      PROVE  NothingUncovers'
  <2> PICK op, value :
             /\ ComputeValue(d, op, name, value)
             /\ Marked(values[name]) => Marked(value)
    BY <1>6, ComputedCovers
  <2> PICK out : out = [name |-> name, read |-> values[name], value |-> value]
    OBVIOUS
  <2>1. \A e \in Device : job'[e] = IF e = d THEN [op |-> op, out |-> out] ELSE job[e]
    BY DEF ComputeValue, Compute, KeysInv
  <2> SUFFICES ASSUME NEW e \in Device, job'[e] # None, job'[e].op \in {"write", "protect"},
                      Marked(job'[e].out.read)
               PROVE  Marked(job'[e].out.value)
    BY DEF NothingUncovers, Marked
  <2>2. CASE e = d
    <3>1. job'[e].out.read = values[name] /\ job'[e].out.value = value
      BY <2>1, <2>2
    <3> QED
      BY <3>1
  <2>3. CASE e # d
    BY <2>1, <2>3 DEF NothingUncovers
  <2> QED
    BY <2>2, <2>3
<1> QED
  BY <1>2, <1>3, <1>5, <1>6 DEF Next

\* A value loses its protection only with its prefix.
LEMMA ProtectionStays ==
  ASSUME KeysInv, ValuesInv, NothingUncovers, [Next]_vars, NEW name \in Name,
         Marked(values[name]), ~Marked(values'[name])
  PROVE  losses' > losses
<1>1. values'[name] # values[name]
  OBVIOUS
<1>2. ASSUME NEW d \in Device, Store(d)
      PROVE  FALSE
  <2> PICK op, out : op = job[d].op /\ out = job[d].out
    OBVIOUS
  <2>1. /\ op \in {"write", "protect"} /\ values[out.name] = out.read
        /\ values' = [values EXCEPT ![out.name] = out.value]
    BY <1>1, <1>2 DEF Store, StoreValue, StoreFolder
  <2>2. Marked(out.read) => Marked(out.value)
    BY <1>2, <2>1 DEF NothingUncovers, Store, Idle
  <2>3. out.name = name /\ values'[name] = out.value
    BY <1>1, <2>1 DEF ValuesInv
  <2> QED
    BY <2>1, <2>2, <2>3
<1>3. ASSUME NEW target \in Name, LosePrefix(target)
      PROVE  losses' > losses
  BY <1>3 DEF LosePrefix, ValuesInv
<1> QED
  BY <1>1, <1>2, <1>3 DEF Next, vars, Unlock, Crash, RotateCode, Enable, ChangePassphrase,
     ResetPassphrase, Protect, WritePlain, Write, ComputeValue, Compute

\* What has been sealed is not stored in plain text again, however late a device
\* stores what it computed before.
THEOREM ProtectionAlwaysLasts == Spec => ProtectionLasts
<1>1. Init => NothingUncovers
  BY DEF Init, NothingUncovers
<1>2. KeysInv /\ ValuesInv /\ NothingUncovers /\ [Next]_vars => NothingUncovers'
  BY NothingUncoversNext
<1>3. KeysInv /\ ValuesInv /\ NothingUncovers /\ [Next]_vars =>
        [\A name \in Name :
           Marked(values[name]) /\ ~Marked(values'[name]) =>
             losses' > losses]_vars
  BY ProtectionStays
<1> QED
  BY <1>1, <1>2, <1>3, ValuesStayReadable, PTL DEF Spec, ProtectionLasts
=============================================================================
