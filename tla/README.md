# pock-core in TLA+

pock-core is the stateless cryptographic core of pock: a Rust crate, exported to
JavaScript and Swift, in which every operation is a pure function from what a
client read (from a server, a file, a text a friend sent) and the credentials it
holds to what it must store next. Two things are hard about such a crate. Its
correctness shows only in *sequences* of calls, made by several devices that
race, crash and repeat themselves against a record the core never sees. And its
formats carry unauthenticated headers that decide how the rest is read. The
modules here are about these two; about what a caller can learn from a call that
fails; and about the release workflow, the one part of the repository that is a
distributed program in itself.

Sources are cited as `file:line`; `flows.rs` is `src/flows.rs` of the repository,
and so on. `PROJECT.json` has, for every definition, the lines it models.

## Inventory

| Component | State it is about | Operations | What is hard | What makes it correct |
|---|---|---|---|---|
| Key hierarchy and credential flows (`flows.rs`, `auk.rs`, `identity.rs`, `kdf.rs`) | the account record on the server: the AUK wrapped under passphrase and Secret Key, under the recovery code and under a passkey; the identity sealed under the AUK; public keys | create, unlock (three ways), change and reset passphrase, rotate Secret Key, recovery code and identity, enroll a passkey | interleaving of devices, stale reads, repeated uploads, crashes | one AUK for ever; never locked out; replaced credentials stay replaced |
| Account master key (`flows.rs:363-453`) | the AMK sealed under the AUK, its public key | ensure (mint or load), sign; by passphrase and by passkey | two devices mint at once | signatures verify for ever |
| Encrypted items (`item.rs`, `envelope.rs`, `kem.rs`) | per item: a ciphertext and a wrap of its data key per recipient | encrypt, decrypt, grant; re-encrypt after an identity rotation | concurrent grants and writes, stale public keys, first-match lookup | whoever is listed can read; whoever was removed cannot; migration ends |
| Key transparency log (`keylog.rs`) | none; certificates, signatures, a Root of Trust | canonical bytes, leaf and node hashes, `verify_cert` | duplicates, dialects, small-order keys, lookalike statements | k-of-n counts distinct custodians that signed this very statement |
| One-time shares (`share.rs`) | an envelope and a key blob that travel apart | encrypt, decrypt, two ciphers | unauthenticated header and lengths | only a whole share opens; nothing panics |
| Backups (`backup.rs`) | a file kept for long | export, import | unauthenticated KDF parameters | only a whole backup restores, with its passphrase alone |
| Namespace protection (`nscrypto.rs`, `flows.rs:482-540`) | the folder a store keeps: a salt and two wraps of one namespace key; values, protected or not | draw key, salt and code; wrap, unwrap, protect, unprotect, look for the prefix | the salt is kept apart from the wraps, the prefix is optional, keys have any length; devices race | passphrase and code always open the folder, to one key; every value can be read back; every value ends up protected |
| Error classification (`error.rs`, `uniffi_api.rs:36-89`) | none | a category and a text for every failure | flows that fold many failures into one message, a table of literal texts | who branches on the category mends what is at fault |
| Bindings (`uniffi_api.rs`, `wasm.rs`) | none | 41 adapters on each surface | arguments are texts, forwarded by position | both surfaces do and say the same |
| Messages (`flows.rs:176-220`, `459-471`) | none | seal, open, sign, verify, digest | - | the primitives' own promises; failures as above |
| Release pipeline (`.github/workflows/release.yml`) | the tag, the release branch, the release, draft or not, and its assets | check, build, pin, move the tag, create, upload, publish | runs that die anywhere, are repeated (the last or an earlier one), or overlap | the tag pins the published asset, built from a green commit |
| Build scripts, Swift package, binding generator | none | build | - | - |

**How they interact.** The flows call `auk`, which calls `kdf` and `aead`; an
identity is what an AUK seals; items are sealed to the public half of identities;
`rotate_identity` obliges its caller to re-encrypt items, and that is where the
vault and the items meet. Namespaces share nothing with the vault but the error
type. The bindings forward each call to one flow and turn its error into a category
and a text (UniFFI) or a text (WebAssembly). Clients and servers are not in the repository: they
call flows, read and write records, and are modelled only as far as `flows.rs`
and its comments say what they do.

## Modules

| Module | Models | Shape |
|---|---|---|
| `Keys` | `aead.rs`, `kdf.rs`, `auk.rs`, keys of `identity.rs`, `sign.rs` | operators on symbolic terms |
| `Vault` | every credential and AMK flow of `flows.rs` | state machine |
| `VaultProperties` | the properties of `Vault`, its inductive invariant, its refinement mapping | |
| `Account` | what a vault promises: one account, changed by one whole operation at a time | abstract specification |
| `VaultProofs` | theorems about `Vault` | |
| `Items` | `item.rs`, `envelope.rs`, the item flows, migration after a rotation | state machine |
| `ItemsProperties`, `SharedItems`, `ItemsProofs` | properties; abstract specification; theorems | |
| `KeyLog`, `KeyLogProofs` | canonical bytes and `verify_cert`; theorems | state machine, one iteration per step |
| `Blobs`, `BlobsProofs` | byte strings, slicing, opaque sealed blobs, faults; lemmas about them | operators |
| `Shares`, `Backups`, `FormatsProofs` | `share.rs`, `backup.rs` at the level of bytes and lengths; theorems about both | state machines |
| `Release`, `ReleaseProperties`, `ReleaseProofs` | `release.yml`; properties; theorems | state machine |
| `Namespace`, `NamespaceProperties`, `NamespaceProofs` | `nscrypto.rs` and the `ns_` flows, used by several devices; properties; theorems | state machine |
| `Errors` | `error.rs`, the error types of the two surfaces | operators |
| `Flows` | what each of the 41 flows checks, in which order, and what it says | tables of checks |
| `Bindings` | the adapters of `uniffi_api.rs` and `wasm.rs` | two tables |
| `Calls`, `CallsProperties`, `CallsProofs` | one call on both surfaces, and a caller that goes by the category; properties; theorems | state machine |
| `MC*` | constants and symmetry for TLC | |

### Vault

A flow is a function, so it is modelled as what happens around a function: a step
named for the flow reads `server`, computes the returned fields and keeps them in
`job[d]`; `Store` writes them. Everything other devices do falls between the two.
`Store` may leave the job in place (the acknowledgement was lost, the client
repeats the upload); `Crash` loses the job and the secrets in memory; `Refuse` is
a server that compares before it writes.

The guards of a flow are its early returns: `CanUnlockAuk` (`unlock_auk`),
`CanUnlockRecovery`, `CanUnlockPrf`, and the opening of the sealed identity or
AMK. A flow that fails returns nothing and changes nothing, so failure is the
action not being taken. Secrets, salts and nonces drawn by one call share the
number of the draw; they are compared only with values of the same role. The KDF
profile of a wrap is kept, because `unwrap_with_passphrase` rebuilds it from the
stored parameters.

Assumptions about what is not in the repository: a record is read in one piece;
the fields returned by one flow are written in one piece; a vault is created only
when there is none; a client persists a new Secret Key or recovery code before it
uploads the wrap that needs it; a device waits for the answer to an upload before
it starts the next flow. `Checked` selects the server: `FALSE` takes every
upload; `TRUE` refuses one whose fields changed since they were read. The
properties say which server each needs, and that is a result: the four
properties of `vault_blind` need nothing of the server, those of `vault_checked`
fail without the check.

### Items

The same pattern per item: a call computes a whole item from the one that was
read. A key pair is a user and a generation; `Rotate` makes a new generation and
leaves all items listing the old key; `Reseal` is the caller's duty. A user keeps
its old secrets, as `rotate_identity` asks. `Put` wraps for the keys registered
when it is computed, which may be retired when it arrives. `checked`, a variable
that never changes, says whether the server refuses stale uploads; the properties
that need such a server begin with it, and so does the fairness.

### KeyLog

`verify_cert` is one state per iteration: `next`, `seen`, `count`. Canonical
encodings are sequences of tokens; a text field is one token, justified by
`keylog.rs:42-43` (base64 holds no newline). A public key arrives as text: a key
and a dialect, because `b64_any` decodes several and the loop deduplicates by
text. Small-order keys have a signature that verifies over everything, as the
non-strict check and its tests have it.

### Shares and Backups

Bytes are numbers, lengths are scaled down, and every slice with a range out of
bounds is an explicit `Panic`. A sealed blob is opaque and opens only if exactly
it was sealed under exactly that key; decapsulation never fails, it yields
another key. Faults are: cut at any place, one byte more, any one byte changed,
the tail of another blob, the other key blob, another cipher name, a key too
short. Two faults may combine.

### Namespace

Again a function becomes a step that computes and a step that stores. `job[d]`
holds what a device computed from what it read, with any other device's changes
between; `Store` writes it. A wrap records the credential *and* the salt it was
made with, because `derive_key` mixes both, while the folder's salt stands beside
the wraps, as `wrap_nk` returns no salt. A value is text under layers, each with
the key it was sealed under and whether it still shows `pns1.`: `ProtectValue`
adds one to whatever it is given, `Unprotects` looks at the key alone,
`IsProtectedBlob` at the prefix alone: at that of the outermost layer (`Marked`), or,
where nothing is sealed, of the text itself. `Prefixed` are the plain texts that
begin with `pns1.`; the code takes them for protected (`nscrypto.rs:148-151`), so
they never are. `EverythingGetsProtected` names that exception, and `namespace` has
one such text of two. Keys of 16 bytes stand for every wrong length. `LosePrefix`
is what `nscrypto.rs:28-29` tolerates.

Assumed of what is not in the repository: a folder is set up once; one salt serves
both wraps (as in the test at `nscrypto.rs:262`); a recovery code is saved before
its wrap is uploaded; a value is replaced only if it is still what was read. The
last is needed: without it a device that protects a value can undo a write.

### Errors, Flows, Bindings and Calls

`Vault`, `Items`, `Shares` and `Backups` have the flows that succeed. `Flows` has
for each flow the checks it makes of its arguments, in the order of the code: which
arguments, which faults, which error. A fault is one of sixteen kinds (its header
lists them), and an argument has at most one; so that a ciphertext that was
altered and a key that is wrong are two faults, and one failure, of the AEAD.
Damage to the KDF parameters of a wrapped AUK is two kinds, as `auk.rs:74` makes it:
`kdf` gives another key, and is a wrong passphrase to the AEAD (a native wrap);
`params` gives the same key, since whatever is not Native stands for Constrained,
and is not noticed. A key blob for the other cipher is a kind beside the wrong key
blob, since `share.rs:146-148` tells the two apart; and an item's version is a kind
beside that of the envelope in its wrap, which is looked at after the wrap has been
found (`envelope.rs:37`). `Folded` is `map_err(|_| ...)`, which forgets what failed. `Bindings` has for each
adapter the flow it calls and the arguments in the order it gives them.

`Calls` makes one call with every combination of faults, on both surfaces (`Kinds`
has the faults an argument can have by its format, `Faults` those it is given): the
k-th parameter of the flow gets the k-th argument of the adapter, and the first
check that fires ends the call. Then the caller acts on the *category*: for a
wrong credential it may ask its user again, who types it right or, `MaxSlips`
times, wrong; for any refusal it may fetch anew what it keeps.
`existing_wrapped_amk` is taken to be present; empty, nothing of it is checked.

### Release

One state per step of a run that writes something shared. A run may die anywhere;
any run that has ended, the last one or an earlier one, may be run again from the
start or from its publish job, from the commit it began with (`Rerun` is the last
run after a failure, which maintainers owe; `RerunAny` all the rest); and the tag
may be pushed again, on a source commit or on the release branch, as a maintainer
does who tags what the branch has.

What `gh` does is external and modelled as it is used: `gh release create` makes an
empty draft (`Create`), uploads the assets one by one (`Upload`) and publishes the
draft (`Announce`); `gh release upload --clobber` deletes an asset before it uploads
it. A run that dies can leave a draft, or an asset deleted. The next run finds the
release (`release.yml:158`), fills the draft, and does not publish it: `draft` says
so, and no property claims that a release is public after a death.

`disturbed` is history: since the tag was last pushed at rest, two runs have
overlapped, or a run was run again that is not the last. `TagPinsTheAsset` and
`TagKeepsItsSource` exclude that, and have to. A rerun of an earlier run starts from
its own checkout: if it has to rewrite `Package.swift`, it moves the tag back to its
own source (`release.yml:137-147`); if it has nothing to rewrite, it leaves the tag
where the later run put it, and uploads its own assets all the same. TLC finds both
as soon as the exclusion is left out of `disturbed`. Running the last run once more
may not mend the second; a fresh push of the tag does, and resets `disturbed`.

## Runs

Bounds are constants in the configurations and guards in the modules.

| Run | Checks | Bounds | Why enough |
|---|---|---|---|
| `vault_blind` | `TypeOK`, `OneAuk`, `PublicKeysMatch`, `NeverLockedOut`, `AukNeverReplaced`, server takes all uploads | 2 devices, 2 passphrases, 4 draws; 0.6 M states | creation and three flows, each pending on either device while the other runs; the theorems lift all bounds |
| `vault_checked` | `RetiredCodeStaysDead`, `RetiredKeyReturnsOnlyByReset`, `ReplacedIdentityIsHeld`, `SignaturesVerify`, refinement of `Account` | as above; 0.4 M states | a retired credential, the upload that would revive it and one in between need three draws after creation; the theorems lift all bounds |
| `items` | `TypeOK`, `ReadersCanRead`, `FormerReadersAreShutOut`, `RotationCompletes`, `MigrationIsFinal`, refinement of `SharedItems`; both servers | 2 users, 1 item, up to 2 wraps, 3 calls, 6 encryptions; 0.4 M states | items do not interact; a repeated and a stale recipient fit in two wraps; write, rotation and a second write or crash, with a migration of each; the theorems lift the bounds |
| `keylog` | `TypeOK`, `CountsDistinctKeys`, `PassedMeansSigned`, one dialect | 2 custodians, 1 small-order key, lists up to 3, 2 signatures, 6 statements; 0.7 M states | a repetition beside a different key, an undecodable key, lookalikes that differ in one field each; the theorems lift the bounds |
| `keylog_dialects` | `CountsDistinctKeys`, two dialects: **violated** | lists up to 2 | see Findings |
| `shares` | `TypeOK`, `OpensOnlyWhole`, `WholeOpens`, `NeverPanics` | 2 shares, 2 faults, parts of length 1 or 2 | a header field and a length can be damaged together, and two shares spliced; the theorems lift the bounds, of lengths and bytes too |
| `shares_version` | `UnknownVersionsRejected`: **violated** | 1 share of a later version | see Findings |
| `backups` | `BackupsTypeOK`, `RestoresOnlyWhole`, `WholeRestores`, `ImportNeverPanics` | 2 backups, 2 faults | parameters and salt can be damaged together, and two backups spliced; the theorems lift the bounds |
| `namespace` | `TypeOK`, `AlwaysAWayIn`, `NothingIsLost`, `EverythingGetsProtected` | 2 devices, 2 passphrases, 1 value of 2 texts, one of them with the prefix, 2 draws, 2 lost prefixes, 1 crash; 0.15 M states | a folder and a rotated code, each pending while the other device changes the passphrase, and a value with up to three layers; values do not interact; the theorems lift the bounds |
| `calls` | `SurfacesAgree`, `NothingBadOpens`, `BlameIsDeserved`, `EveryCallSettles` | all 41 adapters, all combinations of one fault per argument, 1 mistyping more; 10 k states | nothing is left out but arguments with two faults, of which the first to be checked decides; the theorems lift the bounds of the safety properties |
| `release` | `TypeOK`, `TagPinsTheAsset`, `NoRedRelease`, `TagKeepsItsSource`, `RerunCompletes` | 3 commits, one of them red, 2 pushes, 2 incidents (deaths, and reruns nobody needed); 1.2 M states | a run that dies, its rerun that dies, and the one that repairs; an earlier run that is run again after a later one. A push that ends a disturbance would be the third: the theorems, which lift the bounds of the safety properties, cover it |
| `release_overlap` | `TagAlwaysPinsTheAsset`: **violated** | no incidents | see Findings |

Deadlock is checked in `namespace`, where there is always something a device can
do. The other systems stop when their bounds are used up, and a verifier, an
importer or a caller stops when it has its result.

Each property of a passing run has a mutant in `PROJECT.json`: a change of a
modelled definition, of the kind an edit of the code could make, under which TLC
finds that property violated. The mutated definitions stand in the modules, marked
*Mutant*, and are used by no specification.

**Fairness.** Four runs assume some. In `items`, with a checking server, a user
that has rotated goes on re-encrypting the items that list its old key (the
obligation in `flows.rs:291-294`), and an upload is answered; nothing is assumed
about other users, who may write with old keys at any time. In `release` GitHub
advances a run, and maintainers run the last one again when it failed (the purpose of the
idempotence described in `release.yml:128-129`). In `namespace` a device that runs
stores what it computed (weak fairness); a user who comes back unlocks the folder
again although it was locked in between, and its values are looked at again
although others change them (strong fairness). These conclude because calls,
incidents, losses and crashes are finitely many, while writes are not: in
`namespace` texts are written for ever. In `calls` a call returns, written
`[]<>(answer # None)` because nothing else can happen before it has returned, which
spares TLC an ENABLED; and a caller that is refused again and again neither asks
for ever nor reads for ever (strong fairness of both): the core's promise that its
categories suffice is a promise to a caller that acts on them. All other properties
are safety.

## Findings

1. `verify_cert` promises to count *distinct custodian public keys*, deduplicating
   by custodian (`keylog.rs:105-109`). It deduplicates by text (`keylog.rs:130`),
   and `b64_any` gives one key several texts. A Root of Trust that lists a
   custodian in two dialects is satisfied, 2-of-2, by one custodian
   (`keylog_dialects`). In one dialect the promise holds (`keylog`, and the
   theorem `DistinctKeysCounted`); in several the check never refuses what enough
   custodians signed, and is never satisfied by fewer than the threshold divided by
   the number of dialects (`EnoughIsNeverRefused`, `OvercountIsBounded`).
2. The README promises that every versioned artifact rejects unknown versions on
   parse (`README.md:21`). A share's bundle carries `v`, which nothing reads
   (`share.rs:169`; `shares_version`). The envelope's own version byte is checked.
3. `release.yml:116-117` requires the tag to end up on a commit that pins the
   uploaded zip. Without a concurrency group, two runs for one tag, both of which
   succeed, can leave it pinning the other's zip (`release_overlap`). The requirement
   holds through any deaths and any reruns of the last run (`release`), as long as
   no runs overlap and no earlier run is run again; see *Release* above for what an
   earlier one does.

One more observation belongs to the third: if rebuilding one commit gives
sometimes a checksum it had before and sometimes a new one, a rerun can take the
"nothing to rewrite" branch (`release.yml:141`) for a tag that an interrupted run
had moved. `Release` takes builds to be reproducible or never to repeat.

One on `flows.rs:293`: the old secret of a rotated identity is needed "until then",
until every item is re-encrypted and the keys are re-registered. Stored items are
not all: one that was computed for the old public key may arrive later, and opens
with the old secret alone. `MigrationIsFinal` therefore speaks of pending items too.

What a caller sees of a failure gave no counterexample to a definite promise, but
six things a maintainer should know, which `CallsProperties` states as they are:

* The messages of `error.rs:57-64` "mean the credential the user supplied was
  wrong (as opposed to the caller passed something malformed)". `flows.rs:135` and
  its like fold *every* failure of an unwrap into them: a wrap of an unknown
  version, with undecodable text or with too short a salt is reported as a wrong
  passphrase (`Lumped`). The doc of `PockCoreError` allows a corrupted blob, not a
  malformed one. A caller that only ever asks its user again never gets out of
  this, and `EveryCallSettles` needs the one that also fetches the wrap anew.
* A wrapped AUK whose KDF parameters are damaged opens unnoticed when it was made
  with Constrained (`auk.rs:74`), and shows as a wrong passphrase when it was made
  with Native. `NothingBadOpens` names the first as its exception. A backup with
  unknown parameters is refused.
* A key blob for the other cipher is a credential that is wrong, and is reported as
  an encoding (`share.rs:146-148`, test `cipher_algotag_mismatch_fails`): a client
  that has its user paste key blobs should not take `Encoding` for a broken link
  alone.
* `unprotect_value` with a wrong key says "wrong namespace passphrase", although
  no passphrase is given; `nscrypto.rs:71-73` explains why.
* A mistyped *new* passphrase, and a wrong Secret Key given to `reset_passphrase`
  (`flows.rs:168`) or PRF secret given to `enroll_prf`, are taken as given
  (`TakenAsGiven`): the wrap that is returned opens with them.
* `wrap_nk` takes a key `protect_value` will not use (`nscrypto.rs:117`, `159`).
  `NothingIsLost` shows that nothing is ever protected in such a folder.

## Proofs

The `*Proofs` modules are checked by TLAPS for every value of the constants, under
the assumptions declared in the modules: `None` is no user, device, passphrase,
commit or well-formed blob; bounds are natural numbers, lengths are positive, and
a KEM ciphertext's fits in two bytes; a statement has the fields of its kind, and
no text in it holds a separator of its encoding; an argument has no fault but those
of its format (`Kinds`).

* **Vault.** None of `OneAuk`, `PublicKeysMatch`, `NeverLockedOut` is inductive:
  `Store` writes fields that were computed long ago. The invariant `Sound` says
  of every *pending* upload what the properties say of the record: each wrap in
  it yields the vault's AUK, is opened by some credential that is already saved,
  and travels with its public key. It holds in a new job because the record it
  was computed from is sound, it survives all that happens meanwhile because
  saved credentials only grow and the AUK never changes, and so it makes any
  upload harmless, however late or repeated. A creation is the exception: it is
  sound for an AUK of its own, and the server takes it only when there is no
  vault. From `[]Sound` follow the theorems `TypeCorrect`, `OneAukAlways`,
  `PublicKeysAlwaysMatch`, `NeverLockedOutAlways` and, as an action property,
  `AukIsForever`; all hold for either server.

  With a checking server an accepted upload must be shown to be *fresh*, which the
  server tells only from the fields the flow read. Every field names the draw that
  sealed it, and draws are in order. `Orderly` says of each pending upload that it
  was drawn after all it read, that no other upload is of the same draw, and that,
  once it has been stored, the record's fields are no older than it. So if the
  server finds the fields as they were read, this very upload was never stored
  (else they would be at least as new), and nothing was between. From `Order`
  follow `SignaturesAlwaysVerify`, the action properties
  `ReplacedIdentityIsAlwaysHeld`, `RetiredCodeIsAlwaysDead` and
  `RetiredKeyOnlyResets`, and `FlowsAreAtomic`: each `Store` is one whole
  operation of `Account` on the present record, or a stutter (a repetition of
  what is stored, a re-wrap under the same credentials). `OnlyStoreWrites` disposes of
  all the other steps.
* **Items.** `Coherence`: every wrap of every stored or pending item is sealed to
  the recipient it names and holds the data key of the ciphertext beside it.
  `ReadersCanAlwaysRead` follows, because the first match for a key is then as
  good as any other. `Timely` is for items what `Orderly` is for the vault: data
  keys arrive in the order of their draws or not at all, a pending upload has
  either the ciphertext that was read and one reader more, or a data key nobody has
  had, and those who have held a stored item's data key are among its owners.
  `ReadersAreOwners` says that who can read is told from the wraps alone, so a
  later rotation, which gives its user one more secret, takes no item from anyone
  and gives none. `FormerReadersAreAlwaysShutOut` and `UploadsAreAtomic` (the
  refinement of `SharedItems`) follow. `MigrationStaysFinal` needs only that wraps
  are for keys registered when they were made.
* **KeyLog.** `TypeCorrect`, and `TextsCounted`: the count after each iteration is
  the number of different texts seen so far whose keys have a valid signature, so
  neither order nor repetition of texts matters, for any lists, thresholds,
  statements, signatures and dialects. A key that counts has a text that counts,
  and a text is a key in a dialect (`TextsAndKeys`). Hence `EnoughIsNeverRefused`,
  in any dialects; `DistinctKeysCounted`, in one; and `OvercountIsBounded`, which
  measures finding 1: with d dialects, k-of-n is at the least k/d-of-n.
  `WhatPassedWasSigned` adds that the statement signed is this one: `NoLookalike`,
  by the places of the separators and the lengths of the parts between them, says
  that statements of any two kinds with the same canonical bytes are one statement.
* **Shares and Backups.** A reader cuts at fixed places, and at one place that the
  data state themselves. The lemmas of `BlobsProofs` say that cutting undoes
  joining and joining undoes cutting, and stay within the string. So whatever
  arrives, no slice panics (`AnEnvelopeIsReadWithinBounds`,
  `AFileIsReadWithinBounds`), and what opens is, part by part, what was made:
  magic, version, cipher tag and length are compared with their only right values
  or enter the key, though nothing authenticates them (`OnlyAWholeShareOpens`,
  `OnlyAWholeBackupOpens`). The invariants say that what is made is whole, that
  what arrives is some byte string, whatever the faults, and that the answer
  belongs to it; a share has a secret of its own, by which `AWholeShareOpens`.
* **Release.** `GreenInv`: a build, a pin, the tag and the branch are of green
  commits as soon as a run got past its checks, and a run that is repeated starts
  from such a commit or is checked again (`NothingRedIsReleased`). `QuietInv`, while nothing
  was disturbed: the last run is the only one active, and the tag is
  where that run found it or on its own pin of the same source; as builds are
  reproducible or never repeat, equal checksums mean equal builds. It holds again
  after every push at rest, whatever was disturbed before. `DraftInv`: a draft is in
  the making only while the run that makes it is at work
  (`TheTagPinsTheAsset`, `TheTagKeepsItsSource`).
* **Namespace.** `AlwaysAWayIn` says nothing of the wraps that are computed and not
  yet stored, which will be stored whatever happened since. `KeysInv` says it of
  them: a pending wrap is of the folder's key and opens with the folder's salt,
  and stays so because neither ever changes once there is a folder (`KeyStays`),
  while the codes that are saved only grow. `AWayInIsAlwaysThere` follows.
  `ValuesInv` says of each value, stored or pending, that all its layers are of the
  folder's key and that there are no more of them than prefixes lost, and one;
  `NothingIsEverLost` follows with `UnprotectReads`, by which one more
  `unprotect_value` takes exactly the outermost layer.

* **Calls.** What a list of checks looks at is a set of pairs, an argument and a
  fault. Two lists one after the other look at the pairs of both (`TwoLists`), and
  folding loses none (`FoldedList`); so the helpers of `flows.rs` are looked at one
  by one (`UnlockAukExamines` and its like), and each of the 41 flows as the code
  puts them together. A flow `Serves` its adapter if it looks at every fault its
  parameters can have but those it takes as given, at nothing else, and has for
  each an error that fits it (`Deserved`). An adapter `Adapts` if its rows in the
  two bindings are one, and name the flow's parameters in the flow's order. Then
  it does not matter which check fires first (`Outcomes`): none fires only if
  nothing noticeable is wrong, and the one that does speaks of a fault that is
  there. The invariant `CallsInv` says that an answer belongs to the arguments as
  they are, through any number of repetitions. `SurfacesAlwaysAgree`,
  `NothingBadEverOpens` and `BlameIsAlwaysDeserved` follow, for whatever subset of
  the faults can occur and whatever the user types.

Only model-checked: liveness (`RotationCompletes`, `RerunCompletes`,
`EverythingGetsProtected`, `EveryCallSettles`), since fairness is out of the
prover's reach. What liveness rests on besides fairness is proved, as far as it is
safety (all but `MigrationIsFinal` are stated in the `*Proofs` modules and checked by
no run):

* `RotationCompletes`: a user whose replaced key an item lists can open the item
  (`NobodyIsEverStuck`); what it then re-encrypts lists no such key and takes
  nothing from anyone (`MigrationAlwaysAdvances`); and once all is migrated, it
  stays so (`MigrationStaysFinal`).
* `EverythingGetsProtected`: the key to protect with never changes
  (`TheKeyIsForever`), and protection once stored is lost only with a prefix: a
  plain text computed earlier is not stored over it, with or without the prefix
  (`ProtectionAlwaysLasts`, of values that are sealed, by an invariant that says so
  of what is pending, `NothingUncovers`).
* `RerunCompletes`: no run goes round in circles, ten steps are the most
  (`RunsAlwaysEnd`); and a run of a green commit, not disturbed, fails only if it
  dies (`GreenRunsAlwaysGoThrough`): where it is to create a release there is none.
* `EveryCallSettles`: a refused caller always has a way on, and where all that it
  keeps is in order it is told to ask the user (`RefusedMayAlwaysGoOn`).

What stays with TLC is that fairness turns these into progress. Nothing here is
an induction over data or uses a RECURSIVE operator, both of which the prover cannot
handle.

## What is not modelled

* Cryptography itself: a blob opens under its key alone, a signature names its
  signer, derivations do not collide. The promises are stated in `Keys` and
  `Blobs`.
* Encodings, JSON, trimming of recovery codes, zeroization, sizes of randomness.
* Malformed input to the credential flows in `Vault`: records there are those that
  flows write. What a flow does with others is in `Flows`.
* The record an application keeps of a namespace, `app/lib/namespace-crypto.ts`
  and other clients: assumptions of `Namespace`, listed above.
* Whether a release is public after a run died while it made the draft: nothing in
  `release.yml` publishes it, and a maintainer has to. Deleted releases and tags.
* `hash_leaf` and `hash_children`, which have no caller here.
* The chat protocol around `seal_symmetric`, `sign_message` and `message_digest`:
  it is in a client, and so is the layout of the AAD on which it depends whether
  two messages can have one digest.
* The build plumbing: scripts without state.

## Plan

Done: the vault first, since every other secret hangs from it, then items, then
the key log, the two formats, and the release pipeline; then namespaces, the
failures of every flow and the two bindings; theorems about every component with
state: all its safety invariants and action properties, the two refinements, and
the safety on which each liveness property rests.

Next: the vault and its items composed, `rotate_identity` as one operation over
both with the old secret in the memory of the device that rotated. What such a
model can say depends on where a client keeps that secret while it migrates, which
is not in the repository; `ReplacedIdentityIsHeld` and `MigrationIsFinal` say when
it must start to keep it and when it may stop.
