# Thermocline in TLA+

A verification development kept beside the code of Thermocline: TLA+ modules
translated from the Python library, TLC configurations that check them on small
instances, and TLAPS proofs of what matters most for every instance.
`identity.py`, `signing.py` and so on are in `thermocline/python/src/thermocline/`.

    tlc -config MCBrine_rotating.cfg MCBrine        # check one run
    tlapm BrineTrustProofs.tla                      # check the proofs of a module

## The system

Thermocline is the envelope layer of a suite: a sovereign node signs `task` and
`job` envelopes, a forge verifies them and answers with signed `task_result` and
`job_result` envelopes.  The repository holds the library that both sides use.
It has no server and no scheduler of its own; what runs concurrently are the
processes that share one platform keystore, and what is distributed are nodes
with keystores of their own that exchange envelopes and public keys.

| Part | State | Operations | What is hard | What makes it correct |
|---|---|---|---|---|
| `BrineProvider` (identity.py 410-820) | six kinds of entries in the platform keystore, none in memory | `generate`, `rotate`, `revoke`, `register_public_key`, `public_key`, `sign`, `verify` | every method is several keystore calls with no lock; `rotate` is five of them and can die between any two; `verify` reads an archive that others extend and revoke | no key is lost, no receipt without a signature under an accepted key, no refusal of a good signature; a key goes only when it was replaced and withdrawn |
| `Verifier` (identity.py 249-377) | the registered providers | `register`, `verify` | dispatch on declared, never inferred, schemes | a scheme nobody provides is refused |
| signing protocol (signing.py) | none | `sign_envelope`, `verify_envelope` | signer and verifier must arrive at the same bytes from different representations | a receipt means this object was signed by the node it names; what was signed verifies |
| envelope models (envelope.py) | none; frozen models | `parse_strict`, validators | conditional rules between fields; version errors among other errors | the rules agree with the published schemas |
| schema generator (scripts/build_schemas.py) | the schema files | `--write`, `--check` | rules a generator cannot derive are added by hand | same documents accepted on both sides |
| `canonicalize` (canonical.py), `Sensitive` (sensitive.py) | none | conversion | what has no canonical form; base64 normal form | same object, same bytes |
| lints (scripts/check_no_json_dumps.py, `tools/ast_lint_*.py`) | none | AST walks over source files | names bound by imports in any order; paths | nothing they should report passes |
| coverage tools (`tools/at_coverage.py`, `at_coverage_total.py`, `property_coverage.py`) | none | counts of tests | what counts as a test that runs | what is reported covered is covered |
| release script (scripts/tag-v0.1.0.sh) | tags in three repositories | check, lint, test, tag | stops part of the way; repositories move meanwhile; is run again | tags only at commits that were tested; a finished run has tagged all |

How they interact: `sign_envelope` parses a draft with the envelope models,
dumps it, and calls `BrineProvider.sign`, which canonicalizes the dump and reads
the seed entry.  `verify_envelope` looks at the signature block of a received
dict, builds a `Signature` and calls `Verifier.verify`, which compares the
declared scheme and calls the provider registered for it; callers also use `sign`
and `Verifier.verify` themselves, on any dict (test_identity_cross_role.py 43-59); `BrineProvider.verify`
canonicalizes and tries the current key and then the archived ones.  Nodes learn
each other's keys out of band, `public_key()` on one side and
`register_public_key()` on the other.  The lints and coverage tools read the
sources and tests; the release script runs them, and `build_schemas --check` with
the tests, in three checkouts that a developer works in.

## Modules

| Module | Models | Role |
|---|---|---|
| `BrineProvider` | identity.py 380-820 | the provider: keystore entries, one action per keystore access |
| `BrineTrust` | | history variables, properties, inductive invariant, refinement mapping |
| `KeyTrust` | README rotation and revocation | abstract specification: keys, the versions they are retired under, the versions to be withdrawn, keys trusted |
| `MCBrine` | | who calls what, in five runs |
| `BrineTypeProofs`, `BrineTrustProofs`, `BrineSlotsProofs` | | theorems: types; own keys that are rotated; slots where more is called |
| `KeystoreNames`, `KeystoreNamesProofs`, `MCNames` | the entry names of identity.py 388-407 | when the slots of `BrineProvider` are separate |
| `SignedExchange`, `SignedExchangeProofs` | signing.py, `Verifier`, `BrineProvider.sign` as callers use it | envelopes between nodes |
| `MCExchange` | | the drafts that callers hand in, in two runs |
| `EnvelopeRules`, `EnvelopeRulesProofs`, `MCEnvelopes` | envelope.py validators, build_schemas.py clauses | the two statements of the same rules |
| `SourceLints`, `SourceLintsProofs`, `MCLints` | the three AST lints | what passes a lint, against what a program does |
| `ReleaseTag`, `ReleaseTagProofs`, `MCRelease` | tag-v0.1.0.sh, coverage tools, `--write` and `--check`, test_schema_drift.py | what a tag stands for |

### BrineProvider and BrineTrust

A slot is a keyring service together with an identity, so that one identity in a
signer's keystore and in a verifier's are two slots.  Each entry name of
identity.py 380-407 is a variable: `seed`, `pubkey`, `archive`, `archiveCount`,
`revoked`, `revokedVersions`.  A process is one caller of one method; `pc` is the
keystore access it makes next.  An action does one access and the local work up
to the next one, so `rotate` is `Rotate`, `RotateCount`, `RotateArchive`,
`RotateBump`, `RotateStore`, and the loop of `_archived_verify_keys` is
`VerifyCount` and then `VerifyFlag`, `VerifyKey` for each version.  `Abort` drops
a call at any access: the backend raised or the process died; the keystore stays
as it is.  A key pair is one value; that a verify key belongs to its seed, and
that Ed25519 accepts a signature only for its key and its bytes, is assumed.

`BrineTrust` watches the provider without influencing it: which keys a slot ever
held (`known`), which were current when revoked (`disowned`), and for each call
the keys acceptable throughout it (`steady`) or at some moment of it (`seen`).
`Accepts(s, k)` is what a `verify()` that ran alone in this state would accept.

### KeyTrust

What `rotate` and `revoke(key_version)` promise, without entries or half-finished
calls.  `Introduce` makes a key current and keeps the one before it; `Retire` gives
the current key the next version; `Withdraw(s, v)` asks for a version, which need
not exist yet.  A key loses its trust in one way only: it has been replaced, it has
versions, and every one of them was asked for.  Hence a `rotate()` that archived
nothing, a revocation that hit another version, or one that hit the current key
would be no step of `KeyTrust`.  `ImplementsKeyTrust` maps `introduced` to `known`,
`current` to the seed entry, `versions` to the count, `retired` to the archive below
the count, `asked` to the flags of versions, `trusted` to what `verify()` accepts;
the write of the count is `Retire`, the write of the seed `Introduce`.

### KeystoreNames

`BrineProvider` takes the entries of two slots to be different.  In the code a
name is a prefix, the identity and perhaps a version joined with `:`, the identity
unescaped.  Here a string is the sequence of words between its colons, `store` is
the keyring service with all its names, and a method is one step: what is asked is
whose entries it touches.  A method that finds the hex form of a key where a
decimal count should be raises, as `int()` does.

### SignedExchange

Each node has a keystore, seen as the keys introduced to it and those it trusts, a
`Verifier`, and calls the library; an envelope is under way between them.  A call is
one step here, since what happens inside one `verify()` is BrineTrust's subject.  An
envelope is a record whose equality is equality of canonical bytes; its `shape` says
whether it is a model's dump, something that parses to another dump, or something
that does not parse.  Thus the difference between signing the caller's dict and
signing the dump, on which signing.py 102-106 insists, is visible.  `Redump` is a
receiver that parses and passes on, `Change` alters one part on the way.

Signatures come from two places.  `SignEnvelope` is `sign_envelope`, with all its
refusals; `SignByHand` is the provider's `sign()`, which signs any dict that has
canonical bytes, whoever it names and whether it parses or not, and which the tests
call in this way.  `signed` and `handmade` remember who did what; the caller of
`sign()` writes the signature into the block, if there is one, and sends it
(`Assembled`).  So a receipt does not mean that an envelope is valid, only that its
signer wanted these bytes: `UnparsedMeansHandmade` says that an unparsable envelope
gets its receipt in that way and in no other.

`Learn` is the key exchange: `register_public_key` on one side with what
`public_key()` returns on the other; `register_public_key` replaces the key that was
there.  `Dispatched` is `Verifier.verify`, with the scheme and the node that a typed,
an error or a flat envelope declares: `verify_envelope` calls it with what the block
says, `DirectReceiptMeansSigned` with every scheme, signer and signature a caller
could put into a `Signature`.  Where the envelope declares no node, nothing but the
keys says who signed it.  Revocation of the current key without a version is left to
BrineTrust.

### EnvelopeRules

A document is one of the five envelopes, reduced to the fields that rules between
fields mention; the blocks of a task are in its context, those of a job in the
contexts of its steps.  `Parse` is `parse_strict`, `Dump` is
`model_dump(mode="json")` with its nulls and defaults; `SchemaValid` is the
generated schema, clause by clause, with JSON Schema's habit of ignoring a
property that is absent.

### SourceLints

A file is a path and a set of statements that import, bind or call.  The program
runs: its statements in any order and again, in one scope, bind `env` as Python
does and collect in `used` what was called and imported.  `JsonFindings`,
`PrintFindings` and `Imports` are what the lints report of the set, `JsonScanned`,
`PrintChecked` and `NetworkChecked` the files they look at.  A fragment of the print
lint is bounded by slashes and is a run of directories; one of the network lint is a
plain substring, so that its first segment may end, and its last one begin, a longer
name: `Ending` and `Starting` give the names that do.  The print lint makes its paths
absolute; the network lint takes them as they are, so it is given the path from any
directory on (`Given`).  `Direct` says what no lint follows: a function assigned to
another name, `import *`, `importlib.import_module`; attributes of attributes and
`getattr` are not in the language of statements.

### ReleaseTag

Three checkouts with a working tree, a commit (`head`), a branch, what was pushed
and a tag; a tree is a record of what the steps ask of it: the date of its
CHANGELOG heading, the tests of `tests/at_negative`, the schema files and the
models they should come from, the verdicts of suites and lints.  `step` and `at`
are where the script is; each check of one repository is an action, step 2b
(`Gates`) one for all: `gates` are the tools of that step that are in a checkout, and
the script runs those it finds and notes them (`noted`).  The drift test is four
actions, since it damages a schema file and puts it back, and can be killed in
between; pytest gets there also after another test has failed.  The developer edits,
commits, checks out, pushes, deletes tags and runs `build_schemas --write`, which
replaces file after file; midnight passes.  `moved` remembers which repositories were touched
since the script checked them in step 1.  What the script says of a repository can
only hold of those that were not.

## Runs

Passing runs:

| Run | Question | Instance |
|---|---|---|
| `rotating` | one minter, one process that withdraws and signs, one that verifies: `KeysNeverLost`, `ReceiptSound`, `SteadyKeyVerifies`; `IndInv`, the invariant of the proofs; `ScanAdvances`; the keystore implements `KeyTrust` | 3 keys, 2 rotations |
| `sequential` | every sequence of calls of all methods on a signing and a verifying slot, with foreign envelopes and schemes; `SettledInv` again | 2 keys, 1 rotation, 3 envelopes |
| `revocation` | one slot rotates and withdraws versions, another has its current key revoked while it signs and verifies: no receipt or public key is unfounded, every call ends; `SettledInv`, the invariant of the proofs | 2 slots, 2 keys, 1 rotation |
| `travel` | receipts and genuine signatures, from `sign_envelope` and from `sign()`, through re-dumps, changes and key changes | 2 nodes, 2 keys, 2 signed envelopes, 1 change |
| `schemes` | everything the two functions must refuse, what direct calls of the `Verifier` must, and where receipts for unparsable envelopes come from | 2 nodes, 1 key, drafts with one thing unusual |
| `rules` | validators against schema clauses, dumps, version errors, and what the schemas leave to the ports | all results and errors; every block, alone and beside a good one, in a task and in either of two steps |
| `lints` | what passes a lint does not do what the lint forbids, in any order of its statements; verdicts do not depend on where the checkout is | programs of up to 3 of 25 statements, 6 files |
| `release` | tags follow all checks whose tools are there; a complete run has tagged all; what is tested is what is tagged | 2 runs, 2 moves of the developer, 2 days, 11 starts |

Runs that show a disagreement between what the code does and what it says:

| Run | What happens |
|---|---|
| `revoke_rotate` | `generate`, `revoke`, `rotate`: the flag stays on the identity and refuses the new key, while the revoked key is archived under a version nobody revoked and verifies again (`RevocationFollowsKey`) |
| `revoke_verify` | a revocation between the two reads of the flag in `verify()` makes it raise `KEY_REVOKED` for an archived key that is good |
| `prefixed` | the identity `pubkey:a` keeps its seed where the public key of `a` is registered; the registration writes it, whether there is a seed or not |
| `rollup` | the release script reports 17 of 17 surfaces covered across the suite when only thermocline's own were counted and photophore has no coverage tool (`CoverageAsReported`) |

Seen while modelling, without a run:

* Two setup scripts that both find no seed, or two concurrent rotations over one
  archive index, lose a key (identity.py 485, 533).  The theorems exclude it by
  `SingleMinter`.
* `register_public_key` replaces a peer's key without archiving it, so the peer's
  earlier envelopes no longer verify (identity.py 720).  It also replaces, in the
  eyes of `public_key()`, the key that a node signs with itself.
* `public_key()` can hand out a key that was never accepted during the call, when
  two writes of different kinds fall between its reads (identity.py 648, 653, 672):
  a revocation and then a rotation or a registration, or a registration and then a
  rotation of the seed it hides.  `PublicKeySound` holds, and is proved, on slots
  where that cannot happen (`SettledSlots`).
* `rotate()` can die when it has archived the current key and not yet replaced it
  (identity.py 538-544).  A revocation of the current key then leaves the same key
  accepted through its archived version; `revoke_rotate` shows the longer way there.
* A receipt of `verify_envelope` does not imply that the envelope parses, or that it
  came from `sign_envelope`: a signer may call `sign()` on anything (identity.py
  726-749, signing.py 118-187).
* An unrecognised `key_scheme` makes `verify_envelope` raise `ValueError`, outside
  the library's hierarchy (signing.py 183, errors.py 11; the model answers
  `"ValueError"`).
* The docstring of `_declared_scheme` keeps the fallback to a flat `key_scheme` for
  dicts without a type (identity.py 320-322); it serves unknown types as well.
* The receipt of a job has an empty `envelope_id` (identity.py 812, against
  signing.py 147-149).
* The schema files, called the contract in CHANGELOG.md 8-10, express neither the
  rules of `job_result` and `task_result` as a whole, nor the versions, nor base64:
  `PortsCheckTheRest` says that this is all that is missing.
* The print lint finds a checkout below a directory named `src` to be all library,
  and one below `build` or `tests` to be none (`VerdictsTravel` says when not).
  `from json import *` and a function bound to a second name escape the json lint.
  The network lint looks for substrings: it protects `classifier/` in a checkout
  named `my-photophore`, and started below the package directory, where the path is
  only `envelope.py`, it protects nothing.
* Step 2b passes over a gate whose tool is not in thermocline's checkout
  (tag-v0.1.0.sh 117, 121) and the script goes on to tag, although its header (5-8)
  says that it asserts both, without a condition.
* `at_coverage.py` counts a test whose body is `pass`, one whose class is skipped,
  and one marked `keystore`, which the release run deselects.
* The release script promises tags "on the same date" (tag-v0.1.0.sh 8-9) but reads
  the date once, and `git tag` can come after midnight.

### Bounds

`MaxVersion` bounds the rotations of a slot and `Keys` the keys drawn; a call
that needs more than is left does not start (`RoomToMint`), which cuts behaviours
short and changes none.  Two rotations give `verify()` an archive in which the
version it reads, the version before it and a version that appears meanwhile
differ.  Revocations of a version not yet produced are
within these bounds.  That no number of rotations keeps `verify()` busy cannot be
seen in an instance with few of them as a matter of termination: `ScanAdvances` says
it of single steps, where one rotation during the loop is enough to break it, and
its theorem needs no bound.  `MaxSigned` and `MaxChanges` bound the envelopes signed
in either way and the changes to one; two signed envelopes suffice to put the signature of one on
the other, and a change of type, content, shape, node, scheme or signature is one
change.  `Drafts` are the callers' inputs: well-formed ones in `travel`, and in
`schemes` those with one thing unusual.  Keys are symmetric wherever no liveness
is checked: no definition tells one key from another.

`Received` in `rules` leaves out documents with two bad blocks; the rules are of
single blocks, and the theorems need no such bound.  `Programs` in `lints` has the
import, a second import that hides it or a rebinding, and the call; the theorem on
the json lint holds for programs of any size.  `MaxRuns`, `MaxMoves` and `MaxDay`
bound `release`: a second run is what finds a tag or a damaged file left by the
first, and of two moves the second can undo the first behind the script's back.
The starts have at most one repository that is not ready, in ten ways; in one of
them thermocline has no tool for step 2b.  The files of `lints` are at a plain
place, below a directory `src`, and in a checkout named `my-photophore`.

Deadlock is checked in every run but `release` and `rollup`, where nothing is left
to do when runs, moves and days are used up.  The other systems never stop:
a process that can start no call that needs a key can still call the others.

### Fairness

Only `revocation` assumes any: weak fairness of `Step(p)`, a call that has begun
gets to its next keystore access.  That is Python executing a function; nothing
obliges a process to start a call and nothing forces an abort.  The keyring
backend is assumed to answer or raise, since a hung backend hangs the caller.

## Proofs

| Theorem | Says | Under |
|---|---|---|
| `TypeCorrect` | `Spec => []TypeOK` | nothing further |
| `Inductive` | `Spec => []IndInv` | `SingleMinter`, `OwnKeysOnly` |
| `NoKeyLost` | `Spec => []KeysNeverLost` | same |
| `ReceiptsSound` | `Spec => []ReceiptSound` | same |
| `NoFalseAlarm` | `Spec => []SteadyKeyVerifies` | same |
| `Refinement` | `Spec => ImplementsKeyTrust` | same |
| `EntriesHaveWriters` | `Spec => []KeystoreInv` | nothing further |
| `ScansAdvance` | `Spec => ScanAdvances` | nothing further |
| `SettledReaders` | `Spec => []SettledInv` | `SettledSlots` |
| `KeysHandedOut` | `Spec => []PublicKeySound` | `SettledSlots` |
| `SettledReceipts` | `Spec => []ReceiptSound` | `SettledSlots` |
| `SettledNoFalseAlarm` | `Spec => []SteadyKeyVerifies` | `SettledSlots` |
| `ExchangeTyped` | `SignedExchange`: `Spec => []TypeOK` | nothing further |
| `ReceiptProvesSignature` | `Spec => []ReceiptMeansSigned` | nothing further |
| `DirectReceiptProvesSignature` | `Spec => []DirectReceiptMeansSigned` | nothing further |
| `UnparsedProvesHandmade` | `Spec => []UnparsedMeansHandmade` | nothing further |
| `SignedEnvelopesVerify` | `Spec => []SignedVerifies` | nothing further |
| `UnambiguousEntriesApart` | `Spec => EntriesApart` | `NamesAssumption`, `Unambiguous` |
| `Lockstep` | `Spec => []TierRulesInLockstep` | nothing further |
| `PortsNeedThree` | `Spec => []PortsCheckTheRest` | nothing further |
| `UnsupportedVersionsAreTyped` | `Spec => []VersionErrorsAreTyped` | nothing further |
| `DocumentsTyped` | `EnvelopeRules`: `Spec => []TypeOK` | nothing further |
| `DumpsRoundTrip` | `Spec => []DumpsAreAccepted` | nothing further |
| `LintInvariant` | `Spec => []LintInv` | nothing further |
| `JsonLintIsComplete` | `Spec => []JsonLintComplete` | nothing further |
| `LintsIsolate` | `Spec => []IsolationHolds` | nothing further |
| `NamesStayIsolated` | `Spec => []NamesIsolated` | nothing further |
| `LintsTravel` | `Spec => []VerdictsTravel` | nothing further |
| `AllThreeTagged` | `Spec => []CompleteMeansWhole` | nothing further |
| `TestedAsTagged` | `Spec => []TestedIsTagged` | nothing further |
| `TagsFollow` | `Spec => TagsFollowAllChecks` | nothing further |

"Nothing further" is: the assumptions on constants that the module itself states
and TLC evaluates.  `SingleMinter`: one process at a time generates and rotates the
key of a slot.  `OwnKeysOnly`: keys are withdrawn by version, and no key is
registered over a seed.  `Unambiguous`: no identity of several words begins with
the word of a prefix, none is another one followed by a version.  `SettledSlots`: the keys of a slot have one minter, and what changes
its current key while others read is of one kind: generation and rotation, or
registrations, or a generation and revocations; or one process makes all calls of
the slot.  These are the uses the README of the library describes: a node that
rotates its key, a verifier's copy of a peer's key, a node that gives up a
compromised key, a script.  `SingleMinter` with `OwnKeysOnly` is a special case
(`OwnKeysSettled`).  The code enforces none of these; `revoke_rotate`,
`revoke_verify` and `prefixed` show what happens without.

Why the safety properties need strengthening: `KeysNeverLost` survives
`RotateStore` only because the old key is in the archive by then, which follows
from what the minter read earlier still being so (`MinterOK`): its copy of the
seed is the seed, its index is the count, its archive entry is in place.  That in
turn needs `SingleMinter`, and that no other entry decides (`EntriesOK`).
`SteadyKeyVerifies` at the end of the loop needs to say where a key is while the
loop is under way: among the candidates already, or still ahead in the archive
below the limit, or behind but revoked (`VerifyOK`).  A key that leaves the seed
during the call is safe either way: if `verify()` had read it as the current key
it is a candidate, and if not it was archived and counted before its seed entry
was overwritten, hence before `verify()` reads the count.
`HistoryOK` ties the history variables to the present state.
`Refinement` follows from the inductive invariant, one step at a time: the write of
an archive entry at the count is a stutter, the write of the count a `Retire`, that
of the seed an `Introduce`, a flag of a version a `Withdraw`.  The two facts it needs
are those of `MinterOK`: when the seed is overwritten the old key has a version below
the count, so that it is accepted unless its versions were asked for; and the entry
that the new count takes in is the current key.

`KeystoreInv` asks for nothing: which entries can be there follows from which calls
the instance makes (`EntriesFollowCalls`), and `revoke()` sets the flag only when a
key was found, which is never deleted again (`RevokerOK`).

`ScansAdvance` asks for nothing either.  Inside the loop `verify()` writes only its
own version and program point, each read moves one of them on, and `limit` was set
when the count was read; other processes do not share them.

A reader on a settled slot needs `ReaderOK`.  `public_key()` reads the flag, the
registered key and the seed; what it hands out was accepted if it was current at a
moment when the flag was down.  On a slot with generations and rotations or with
registrations there is no flag, so the key it reads is accepted as it reads it.
Where a key is revoked it never changes any more once it exists: if the flag is up
when the key is read, the same key was current when the flag was read, and is in
`seen`.  One caller alone finds everything as it left it.  With a second kind of
write beside the first, each of these arguments fails, and TLC finds the
counterexample listed above.  The archive part of `ReaderOK` is the same for every
slot: an archived key is never overwritten below the count that `verify()` has
read, so that what it finds behind a version's flag is a key that was accepted when
it read the flag.

`SteadyKeyVerifies` on settled slots needs `ScanOK`, the statement of `VerifyOK` for
slots of every kind: a steady key that is not a candidate is not the current key
once `verify()` has read that one, and from the count on all its versions are below
the limit and ahead of the index, or revoked.  What keeps this true is one fact
about the steps of others (`ArchivedStays`): a key that is accepted without being
current does not become current, and gets no new version.  On a rotated slot a fresh
seed is not an archived key and only the seed is archived; on a slot where keys are
registered or revoked nothing is archived, so there is no such key.  The errors that
`verify()` may answer meanwhile are no false alarms: `KEY_REVOKED`, and
`IDENTITY_NOT_FOUND` where a key is registered after the entry was read, only where
no key stays accepted (`RevokedEmpties`, `RegisteredBeside`), the latter because a
slot with an archive has a seed (`ArchiveOK`).  The argument
makes no use of the exception for disowned keys in `SteadyKeyVerifies`.

`ExchangeInv` has a part for each way into the verifier: signed envelopes are
parsed dumps that cover themselves with `sig` empty and were signed by the node
they name (`SignedOK`); signature material under way comes from a signed envelope
or from `sign()` (`WireOK`); the only provider is brine's (`ProvidersOK`).  A receipt
needs `sig.over = ToBeSigned(wire)`.  For a signature from `sign_envelope` this makes
the envelope on the wire the signed one, since that is what it covers with the
signature filled in.  For one from `sign()` the bytes name nobody in particular, so
the key must tell who made it: a keystore trusts only keys it was told of (`KeysOK`),
it knows an identity only by that identity's own keys and no key belongs to two
nodes (`KeysOwned`), and the signer had the key it signed with (`HandmadeOK`).  `UnparsedMeansHandmade` follows, because
what `sign_envelope` returned parses.  The other direction, `SignedVerifies`, needs
that a signed envelope is ready to be verified, with nothing left for a dump to
change (`SignedReady`), and that a keystore that trusts a key of a node has heard of
one (`KeysOK`).

`UnambiguousEntriesApart` is a fact about concatenation: names with different
prefixes differ in their first word, names with the same prefix in what is left,
and a seed, which has no prefix, is told from the others by `Unambiguous`.

`Lockstep` and its two companions need no invariant: they hold of every document,
by cases on the tier of a block and on the type of a document.  `DumpsRoundTrip`
goes by the five kinds of documents: a dump changes only fields that are `Missing`,
no rule tells `Missing` from `Null` in those, and a list of dumped blocks is a list
of blocks, each its own dump.  `Lists` is a constant, closed under dumping, so that
TLC can evaluate that no list is the value that stands for null.

`BindingsFollowed` strengthens `JsonLintComplete`: a name that stands for `json`
or for `dumps` or `dump` was given by an import, and the lint collects the names
imports give from the whole file, whatever the order in which they run.
`NamesIsolated` does the same for `IsolationHolds`: a name can stand for a module of
a package only after an import from the package, and for the builtin `print`, beside
its own name, only after an import from `builtins`.

`LintsTravel` is about sequences.  Every fragment the lints look for has one segment
that neither occurs above the checkout (`Plain`) nor, if it is not the first of its
fragment, begins a path of the repository (`FilesAssumption`); hence the fragment
cannot begin above the checkout, and is found in the longer path where it is found in
the repository's (`SameRuns`, `SameFromStart` for runs of directories,
`SameFragments` for substrings, whose segments are any of a set of names).  `Plain`
excludes every name that contains such a word, `my-photophore` as well as
`photophore`.

`ReleaseInv` says that a repository nobody has touched since its step 1 is vouched
for by each step the script has behind it (`Vouched`), and that its tree equals its
commit except while the drift test has a file damaged, when it will once the file
is put back (`SameTree`).  What the other tests said is carried through the drift
test (`DriftSaw`), and the gates that were run are those `noted`.  Step 1 of a new run begins without trust in anything an
earlier run left, which is why a kill in the drift test does no harm.

Only model-checked: liveness (`CallsReturn`), which needs fairness; what it adds to
`ScanAdvances` is that a call whose loop advances also ends.  Every other
property of a passing run is stated by a theorem, under hypotheses that the instance
of the run fulfils.

## What is not modelled

* The recursion of `canonicalize`, which is one call of the `rfc8785` package, and
  the redaction of `Sensitive`: only that equal objects have equal bytes, that
  some objects have none, and how base64 is parsed and written.
* Keystore entries somebody else corrupted, and a keyring backend that answers
  with stale entries.
* Channels: the library keeps no channel state, so the constancy of a channel's
  scheme is its callers'.
* The keystore probe of the constructor, one decision at start-up about the type of
  an external object; the private token of `Receipt`, a matter of Python's name
  visibility; error codes and messages; timestamps.
* Fields of envelopes that are only typed, such as those of a job's manifest: no
  rule relates them to another field.
* Scopes in `SourceLints`: a program has one, in which functions run in any order.
  What the lints print.
* `property_coverage.py` beyond its verdict, and the roll-up when
  `at_coverage_total.py` itself is absent where `at_coverage.py` is present.
* Callers of `sign()` who do more with a signature than write it into the envelope
  it covers: what else can happen to it is `Change` and the `Signature` of a direct
  call.
* Everything outside the repository: Photophore, which decides tiers, and
  Seamount, which runs tasks.

## Plan

Done, in this order: `BrineProvider`, `BrineTrust`, `KeyTrust` with their runs
and proofs; `SignedExchange` with direct calls of the `Verifier` and its proofs;
`KeystoreNames`; `SourceLints`; `ReleaseTag`, with the schema files on disk; jobs
and error envelopes in `EnvelopeRules`; the proofs of each; slots where keys are
revoked and registered (`BrineSlotsProofs`).

Next, the proofs: `KeysNeverLost` and `ImplementsKeyTrust` on the slots whose keys are
only generated, rotated and withdrawn by version, beside others of any kind.
Then the model: `verify()` as several steps inside `SignedExchange`, and keystore
entries that were corrupted.
