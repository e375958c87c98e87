--------------------------- MODULE BrineProvider ---------------------------
(***************************************************************************)
(* The reference identity adapter of Thermocline, class BrineProvider of   *)
(* identity.py: Ed25519 keys whose only home is the platform keystore.     *)
(*                                                                         *)
(* A provider keeps nothing in memory.  Every method is a sequence of      *)
(* keyring.get_password and keyring.set_password calls, with no lock and   *)
(* no transaction around them, and the keystore is shared by every process *)
(* that opens the same keyring service.  A process here is one caller of a *)
(* method; one action is one keystore access together with the local work  *)
(* up to the next access.                                                  *)
(*                                                                         *)
(* A key stands for a key pair: the seed entry, its verify key and the     *)
(* archived copy of that verify key are the same element of Keys, and      *)
(* signing.generate() returns an element never returned before.            *)
(***************************************************************************)
EXTENDS Integers, FiniteSets

CONSTANTS
  Procs,           \* the callers: threads or processes that share the keystore
  Slots,           \* <keyring service, identity> pairs
  IdentityOf,      \* the identity of a slot
  Keys,            \* Ed25519 key pairs
  Envelopes,       \* canonical envelope contents; two that differ are a tampering
  NodeIdOf,        \* the node_id an envelope declares, or NoIdentity
  Unserializable,  \* the envelopes canonicalize() refuses
  Calls,           \* <process, slot, method>: the calls this instance makes
  MaxVersion,      \* bound: no slot is rotated more often than this
  NoKey, NoIdentity, NoSlot, NoRequest, NoResult

Methods == {"generate", "rotate", "revoke", "revoke_version",
            "register_public_key", "public_key", "sign", "verify"}

\* The versions rotate() can give an archived key, and the schemes of schemes.py
\* as the adapter tells them apart.
Versions == 0 .. MaxVersion - 1
Schemes  == {"brine", "other"}

\* What a method returns that is not a key, and the codes of the errors it raises.
Replies ==
  {"ok", "Signature", "Receipt", "None", "IDENTITY_ALREADY_EXISTS",
   "IDENTITY_NOT_FOUND", "KEY_REVOKED", "INVALID_VERIFY_KEY",
   "CANONICALIZATION_FAILED", "UNSUPPORTED_KEY_SCHEME"}

ASSUME VersionAssumption == MaxVersion \in Nat
ASSUME CallsAssumption == Calls \subseteq Procs \X Slots \X Methods
ASSUME EnvelopeAssumption == Unserializable \subseteq Envelopes
ASSUME SentinelAssumption ==
  /\ NoKey \notin Keys
  /\ Keys \cap Replies = {}
  /\ NoSlot \notin Slots
  /\ NoRequest \notin [key : Keys, signed : Envelopes, env : Envelopes, scheme : Schemes]

VARIABLES
  \* The keystore, one entry of each kind per slot; NoKey and FALSE: no entry.
  seed,             \* "<identity>"
  pubkey,           \* "pubkey:<identity>"
  archive,          \* "archive:<identity>:<version>"
  archiveCount,     \* "archivecount:<identity>"
  revoked,          \* "revoked:<identity>"
  revokedVersions,  \* the versions with an entry "revoked:<identity>:<version>"
  \* What callers hold outside the keystore.
  minted,           \* the keys generate() and rotate() have drawn
  signatures,       \* the signatures sign() has returned
  \* The call each process is in.
  op, pc, slot,     \* method, next step, keystore slot
  existing,         \* rotate: the seed it read
  version,          \* rotate: the archive index; verify: the loop index
  limit,            \* verify: the archive count it read
  candidates,       \* verify: the keys it will try
  request,          \* verify: its arguments
  outcome           \* the value returned or the code of the error raised

keystore == <<seed, pubkey, archive, archiveCount, revoked, revokedVersions>>
world    == <<minted, signatures>>
locals   == <<existing, version, limit, candidates, request>>
provider == <<keystore, world, op, pc, slot, locals, outcome>>

Requests == [key : Keys, signed : Envelopes, env : Envelopes, scheme : Schemes]

Results == Keys \cup Replies

Steps == {"idle", "store", "count", "archive", "bump", "probe", "flag", "current",
          "registered", "seed", "archived flag", "archived key", "check", "returned"}

KeystoreTypeOK ==
  /\ seed \in [Slots -> Keys \cup {NoKey}]
  /\ pubkey \in [Slots -> Keys \cup {NoKey}]
  /\ archive \in [Slots -> [Versions -> Keys \cup {NoKey}]]
  /\ archiveCount \in [Slots -> 0 .. MaxVersion]
  /\ revoked \in [Slots -> BOOLEAN]
  /\ revokedVersions \in [Slots -> SUBSET Versions]
  /\ minted \in SUBSET Keys
  /\ signatures \in SUBSET [key : Keys, env : Envelopes]

ControlTypeOK ==
  /\ op \in [Procs -> Methods \cup {"none"}]
  /\ pc \in [Procs -> Steps]
  /\ slot \in [Procs -> Slots \cup {NoSlot}]
  /\ outcome \in [Procs -> Results \cup {NoResult}]

RegisterTypeOK ==
  /\ existing \in [Procs -> Keys \cup {NoKey}]
  /\ version \in [Procs -> 0 .. MaxVersion]
  /\ limit \in [Procs -> 0 .. MaxVersion]
  /\ candidates \in [Procs -> SUBSET Keys]
  /\ request \in [Procs -> Requests \cup {NoRequest}]

ProviderTypeOK == KeystoreTypeOK /\ ControlTypeOK /\ RegisterTypeOK

ProviderInit ==
  /\ seed = [s \in Slots |-> NoKey]
  /\ pubkey = [s \in Slots |-> NoKey]
  /\ archive = [s \in Slots |-> [v \in Versions |-> NoKey]]
  /\ archiveCount = [s \in Slots |-> 0]
  /\ revoked = [s \in Slots |-> FALSE]
  /\ revokedVersions = [s \in Slots |-> {}]
  /\ minted = {}
  /\ signatures = {}
  /\ op = [p \in Procs |-> "none"]
  /\ pc = [p \in Procs |-> "idle"]
  /\ slot = [p \in Procs |-> NoSlot]
  /\ existing = [p \in Procs |-> NoKey]
  /\ version = [p \in Procs |-> 0]
  /\ limit = [p \in Procs |-> 0]
  /\ candidates = [p \in Procs |-> {}]
  /\ request = [p \in Procs |-> NoRequest]
  /\ outcome = [p \in Procs |-> NoResult]

-----------------------------------------------------------------------------
(* How a call starts, goes on and ends.                                    *)

At(p, o, l) == op[p] = o /\ pc[p] = l

Begin(p, s, o) ==
  /\ pc[p] = "idle"
  /\ <<p, s, o>> \in Calls
  /\ op' = [op EXCEPT ![p] = o]
  /\ slot' = [slot EXCEPT ![p] = s]

Goto(p, l) ==
  /\ pc' = [pc EXCEPT ![p] = l]
  /\ UNCHANGED outcome

End(p, result) ==
  /\ pc' = [pc EXCEPT ![p] = "returned"]
  /\ outcome' = [outcome EXCEPT ![p] = result]

Same == UNCHANGED <<op, slot>>

\* Bounds: a call that will need a key or an archive version starts only when
\* the instance still has one for it.
Minting == {p \in Procs : op[p] \in {"generate", "rotate"} /\ pc[p] # "returned"}

RoomToMint(s) ==
  /\ Cardinality(Minting) < Cardinality(Keys \ minted)
  /\ archiveCount[s] + Cardinality({p \in Minting : slot[p] = s}) < MaxVersion

\* nacl.signing.SigningKey.generate() followed by the keystore write of the seed.
StoreFreshSeed(p) ==
  \E k \in Keys \ minted :
    /\ seed' = [seed EXCEPT ![slot[p]] = k]
    /\ minted' = minted \cup {k}

-----------------------------------------------------------------------------
(* generate                                                                *)

\* Mutant: an existing seed is replaced.
GenerateClobbering(p, s) ==
  /\ Begin(p, s, "generate")
  /\ RoomToMint(s)
  /\ Goto(p, "store")
  /\ UNCHANGED <<keystore, world, locals>>

Generate(p, s) ==
  /\ Begin(p, s, "generate")
  /\ \/ seed[s] # NoKey /\ End(p, "IDENTITY_ALREADY_EXISTS")
     \/ seed[s] = NoKey /\ RoomToMint(s) /\ Goto(p, "store")
  /\ UNCHANGED <<keystore, world, locals>>

GenerateStore(p) ==
  /\ At(p, "generate", "store")
  /\ StoreFreshSeed(p)
  /\ End(p, "ok")
  /\ Same
  /\ UNCHANGED <<pubkey, archive, archiveCount, revoked, revokedVersions,
                 signatures, locals>>

-----------------------------------------------------------------------------
(* rotate: archive the old verify key, raise the count, replace the seed.  *)

Rotate(p, s) ==
  /\ Begin(p, s, "rotate")
  /\ \/ /\ seed[s] = NoKey
        /\ End(p, "IDENTITY_NOT_FOUND")
        /\ UNCHANGED existing
     \/ /\ seed[s] # NoKey
        /\ RoomToMint(s)
        /\ existing' = [existing EXCEPT ![p] = seed[s]]
        /\ Goto(p, "count")
  /\ UNCHANGED <<keystore, world, version, limit, candidates, request>>

\* Mutants: the old key is not archived; the archive index is not read.
RotateUnarchived(p) ==
  /\ At(p, "rotate", "count")
  /\ Goto(p, "store")
  /\ Same
  /\ UNCHANGED <<keystore, world, locals>>

RotateCountFromZero(p) ==
  /\ At(p, "rotate", "count")
  /\ version' = [version EXCEPT ![p] = 0]
  /\ Goto(p, "archive")
  /\ Same
  /\ UNCHANGED <<keystore, world, existing, limit, candidates, request>>

RotateCount(p) ==
  /\ At(p, "rotate", "count")
  /\ version' = [version EXCEPT ![p] = archiveCount[slot[p]]]
  /\ Goto(p, "archive")
  /\ Same
  /\ UNCHANGED <<keystore, world, existing, limit, candidates, request>>

RotateArchive(p) ==
  /\ At(p, "rotate", "archive")
  /\ version[p] < MaxVersion
  /\ archive' = [archive EXCEPT ![slot[p]][version[p]] = existing[p]]
  /\ Goto(p, "bump")
  /\ Same
  /\ UNCHANGED <<seed, pubkey, archiveCount, revoked, revokedVersions, world, locals>>

RotateBump(p) ==
  /\ At(p, "rotate", "bump")
  /\ archiveCount' = [archiveCount EXCEPT ![slot[p]] = version[p] + 1]
  /\ Goto(p, "store")
  /\ Same
  /\ UNCHANGED <<seed, pubkey, archive, revoked, revokedVersions, world, locals>>

RotateStore(p) ==
  /\ At(p, "rotate", "store")
  /\ StoreFreshSeed(p)
  /\ End(p, "ok")
  /\ Same
  /\ UNCHANGED <<pubkey, archive, archiveCount, revoked, revokedVersions,
                 signatures, locals>>

-----------------------------------------------------------------------------
(* revoke: of the current key (has_seed, has_pub, flag), of a version.     *)

Revoke(p, s) ==
  /\ Begin(p, s, "revoke")
  /\ existing' = [existing EXCEPT ![p] = seed[s]]
  /\ Goto(p, "probe")
  /\ UNCHANGED <<keystore, world, version, limit, candidates, request>>

\* Mutant: an identity without any key is revoked.
RevokeProbeUnchecked(p) ==
  /\ At(p, "revoke", "probe")
  /\ Goto(p, "flag")
  /\ Same
  /\ UNCHANGED <<keystore, world, locals>>

\* The code reads the public-key entry whether or not it found a seed.
RevokeProbe(p) ==
  /\ At(p, "revoke", "probe")
  /\ \/ /\ existing[p] = NoKey
        /\ pubkey[slot[p]] = NoKey
        /\ End(p, "IDENTITY_NOT_FOUND")
     \/ /\ existing[p] # NoKey \/ pubkey[slot[p]] # NoKey
        /\ Goto(p, "flag")
  /\ Same
  /\ UNCHANGED <<keystore, world, locals>>

RevokeFlag(p) ==
  /\ At(p, "revoke", "flag")
  /\ revoked' = [revoked EXCEPT ![slot[p]] = TRUE]
  /\ End(p, "ok")
  /\ Same
  /\ UNCHANGED <<seed, pubkey, archive, archiveCount, revokedVersions, world, locals>>

\* One write, and no check that rotate() has produced the version yet.
RevokeVersion(p, s, v) ==
  /\ Begin(p, s, "revoke_version")
  /\ revokedVersions' = [revokedVersions EXCEPT ![s] = @ \cup {v}]
  /\ End(p, "ok")
  /\ UNCHANGED <<seed, pubkey, archive, archiveCount, revoked, world, locals>>

-----------------------------------------------------------------------------
(* register_public_key: the key arrives out of band, from any minted key.  *)

RegisterPublicKey(p, s) ==
  /\ Begin(p, s, "register_public_key")
  /\ \/ \E k \in minted :
          /\ pubkey' = [pubkey EXCEPT ![s] = k]
          /\ End(p, "ok")
     \/ /\ End(p, "INVALID_VERIFY_KEY")       \* not bytes, or not 32 of them
        /\ UNCHANGED pubkey
  /\ UNCHANGED <<seed, archive, archiveCount, revoked, revokedVersions, world, locals>>

-----------------------------------------------------------------------------
(* public_key, called by users and by verify: revocation flag, registered  *)
(* key, seed.                                                              *)

\* Mutants: the seed is preferred to the registered key; the flag is not read.
PublicKeySeedFirst(p, s) ==
  /\ Begin(p, s, "public_key")
  /\ \/ revoked[s] /\ End(p, "KEY_REVOKED")
     \/ ~revoked[s] /\ Goto(p, "seed")
  /\ UNCHANGED <<keystore, world, locals>>

PublicKeyUnchecked(p, s) ==
  /\ Begin(p, s, "public_key")
  /\ Goto(p, "registered")
  /\ UNCHANGED <<keystore, world, locals>>

PublicKey(p, s) ==
  /\ Begin(p, s, "public_key")
  /\ \/ revoked[s] /\ End(p, "KEY_REVOKED")
     \/ ~revoked[s] /\ Goto(p, "registered")
  /\ UNCHANGED <<keystore, world, locals>>

\* Mutant: once there is a current key, the archive is not consulted.
HaveOnlyKey(p, k) ==
  \/ /\ op[p] = "public_key"
     /\ End(p, k)
     /\ UNCHANGED candidates
  \/ /\ op[p] = "verify"
     /\ candidates' = [candidates EXCEPT ![p] = {k}]
     /\ Goto(p, "check")

\* What the caller does with the key: return it, or try it first.
HavePublicKey(p, k) ==
  \/ /\ op[p] = "public_key"
     /\ End(p, k)
     /\ UNCHANGED candidates
  \/ /\ op[p] = "verify"
     /\ candidates' = [candidates EXCEPT ![p] = {k}]
     /\ Goto(p, "count")

PublicRevoked(p) ==
  /\ At(p, "verify", "current")
  /\ \/ revoked[slot[p]] /\ End(p, "KEY_REVOKED")
     \/ ~revoked[slot[p]] /\ Goto(p, "registered")
  /\ Same
  /\ UNCHANGED <<keystore, world, locals>>

PublicRegistered(p) ==
  /\ pc[p] = "registered"
  /\ \/ pubkey[slot[p]] # NoKey /\ HavePublicKey(p, pubkey[slot[p]])
     \/ pubkey[slot[p]] = NoKey /\ Goto(p, "seed") /\ UNCHANGED candidates
  /\ Same
  /\ UNCHANGED <<keystore, world, existing, version, limit, request>>

\* Mutant: no check that there is a seed.
PublicSeedUnchecked(p) ==
  /\ pc[p] = "seed"
  /\ HavePublicKey(p, seed[slot[p]])
  /\ Same
  /\ UNCHANGED <<keystore, world, existing, version, limit, request>>

PublicSeed(p) ==
  /\ pc[p] = "seed"
  /\ \/ seed[slot[p]] # NoKey /\ HavePublicKey(p, seed[slot[p]])
     \/ seed[slot[p]] = NoKey /\ End(p, "IDENTITY_NOT_FOUND") /\ UNCHANGED candidates
  /\ Same
  /\ UNCHANGED <<keystore, world, existing, version, limit, request>>

-----------------------------------------------------------------------------
(* sign: one keystore read; neither the archive nor the revocation flag is *)
(* looked at.                                                              *)

Sign(p, s, env) ==
  /\ Begin(p, s, "sign")
  /\ \/ /\ seed[s] = NoKey
        /\ End(p, "IDENTITY_NOT_FOUND")
        /\ UNCHANGED signatures
     \/ /\ seed[s] # NoKey
        /\ env \in Unserializable
        /\ End(p, "CANONICALIZATION_FAILED")
        /\ UNCHANGED signatures
     \/ /\ seed[s] # NoKey
        /\ env \notin Unserializable
        /\ signatures' = signatures \cup {[key |-> seed[s], env |-> env]}
        /\ End(p, "Signature")
  /\ UNCHANGED <<keystore, minted, locals>>

-----------------------------------------------------------------------------
(* verify: the signature claims the identity of slot s under some scheme   *)
(* and comes with an envelope that need not be the one it was made for.    *)

Presentable(r) == [key |-> r.key, env |-> r.signed] \in signatures

BoundTo(s, env) == NodeIdOf[env] \in {NoIdentity, IdentityOf[s]}

Verify(p, s, r) ==
  /\ Begin(p, s, "verify")
  /\ request' = [request EXCEPT ![p] = r]
  /\ candidates' = [candidates EXCEPT ![p] = {}]
  /\ \/ /\ r.scheme # "brine"
        /\ End(p, "UNSUPPORTED_KEY_SCHEME")
     \/ /\ r.scheme = "brine"
        /\ ~BoundTo(s, r.env)
        /\ End(p, "None")
     \/ /\ r.scheme = "brine"
        /\ BoundTo(s, r.env)
        /\ r.env \in Unserializable
        /\ End(p, "CANONICALIZATION_FAILED")
     \/ /\ r.scheme = "brine"
        /\ BoundTo(s, r.env)
        /\ r.env \notin Unserializable
        /\ Goto(p, IF revoked[s] THEN "count" ELSE "current")
  /\ UNCHANGED <<keystore, world, existing, version, limit>>

\* range(self._archive_count(identity)): the count is read once.
VerifyCount(p) ==
  /\ At(p, "verify", "count")
  /\ limit' = [limit EXCEPT ![p] = archiveCount[slot[p]]]
  /\ version' = [version EXCEPT ![p] = 0]
  /\ Goto(p, IF archiveCount[slot[p]] = 0 THEN "check" ELSE "archived flag")
  /\ Same
  /\ UNCHANGED <<keystore, world, existing, candidates, request>>

\* Mutant: off by one, the latest archived version is never tried.
NextVersionButLast(p) ==
  /\ version' = [version EXCEPT ![p] = @ + 1]
  /\ Goto(p, IF version[p] + 2 < limit[p] THEN "archived flag" ELSE "check")

NextVersion(p) ==
  /\ version' = [version EXCEPT ![p] = @ + 1]
  /\ Goto(p, IF version[p] + 1 < limit[p] THEN "archived flag" ELSE "check")

\* Mutants: the revocation of a version is ignored; "continue" without "next".
VerifyFlagIgnored(p) ==
  /\ At(p, "verify", "archived flag")
  /\ Goto(p, "archived key")
  /\ Same
  /\ UNCHANGED <<keystore, world, locals>>

VerifyFlagStuck(p) ==
  /\ At(p, "verify", "archived flag")
  /\ Goto(p, IF version[p] \in revokedVersions[slot[p]]
             THEN "archived flag" ELSE "archived key")
  /\ Same
  /\ UNCHANGED <<keystore, world, locals>>

VerifyFlag(p) ==
  /\ At(p, "verify", "archived flag")
  /\ \/ version[p] \in revokedVersions[slot[p]] /\ NextVersion(p)
     \/ /\ version[p] \notin revokedVersions[slot[p]]
        /\ Goto(p, "archived key")
        /\ UNCHANGED version
  /\ Same
  /\ UNCHANGED <<keystore, world, existing, limit, candidates, request>>

\* Mutant: the count is read again on every turn of the loop.
VerifyKeyRecounting(p) ==
  /\ At(p, "verify", "archived key")
  /\ candidates' = [candidates EXCEPT ![p] =
                      @ \cup ({archive[slot[p]][version[p]]} \ {NoKey})]
  /\ version' = [version EXCEPT ![p] = @ + 1]
  /\ limit' = [limit EXCEPT ![p] = archiveCount[slot[p]]]
  /\ Goto(p, IF version[p] + 1 < archiveCount[slot[p]] THEN "archived flag" ELSE "check")
  /\ Same
  /\ UNCHANGED <<keystore, world, existing, request>>

VerifyKey(p) ==
  /\ At(p, "verify", "archived key")
  /\ candidates' = [candidates EXCEPT ![p] =
                      @ \cup ({archive[slot[p]][version[p]]} \ {NoKey})]
  /\ NextVersion(p)
  /\ Same
  /\ UNCHANGED <<keystore, world, existing, limit, request>>

\* Ed25519: a signature verifies under its own key and over its own bytes only.
Genuine(r) == r.env = r.signed

\* Mutants: the signature is not checked against this envelope's bytes; the
\* verdict comes from the keys the identity ever had.
VerifyCheckKeyOnly(p) ==
  /\ At(p, "verify", "check")
  /\ End(p, IF request[p].key \in candidates[p] THEN "Receipt" ELSE "None")
  /\ Same
  /\ UNCHANGED <<keystore, world, locals>>

VerifyCheckMinted(p) ==
  /\ At(p, "verify", "check")
  /\ End(p, IF Genuine(request[p]) /\ request[p].key \in minted
            THEN "Receipt" ELSE "None")
  /\ Same
  /\ UNCHANGED <<keystore, world, locals>>

VerifyCheck(p) ==
  /\ At(p, "verify", "check")
  /\ End(p, IF Genuine(request[p]) /\ request[p].key \in candidates[p]
            THEN "Receipt" ELSE "None")
  /\ Same
  /\ UNCHANGED <<keystore, world, locals>>

-----------------------------------------------------------------------------
(* The caller takes the result; or the call dies, because the keyring      *)
(* backend raised or the process was killed, and its registers are lost.   *)

Clear(p) ==
  /\ op' = [op EXCEPT ![p] = "none"]
  /\ pc' = [pc EXCEPT ![p] = "idle"]
  /\ slot' = [slot EXCEPT ![p] = NoSlot]
  /\ existing' = [existing EXCEPT ![p] = NoKey]
  /\ version' = [version EXCEPT ![p] = 0]
  /\ limit' = [limit EXCEPT ![p] = 0]
  /\ candidates' = [candidates EXCEPT ![p] = {}]
  /\ request' = [request EXCEPT ![p] = NoRequest]
  /\ outcome' = [outcome EXCEPT ![p] = NoResult]
  /\ UNCHANGED <<keystore, world>>

Return(p) == pc[p] = "returned" /\ Clear(p)

Abort(p) == pc[p] \notin {"idle", "returned"} /\ Clear(p)

-----------------------------------------------------------------------------
Call(p) ==
  \E s \in Slots :
    \/ Generate(p, s) \/ Rotate(p, s) \/ Revoke(p, s)
    \/ \E v \in Versions : RevokeVersion(p, s, v)
    \/ RegisterPublicKey(p, s) \/ PublicKey(p, s)
    \/ \E env \in Envelopes : Sign(p, s, env)
    \/ \E r \in Requests : Presentable(r) /\ Verify(p, s, r)

Step(p) ==
  \/ GenerateStore(p)
  \/ RotateCount(p) \/ RotateArchive(p) \/ RotateBump(p) \/ RotateStore(p)
  \/ RevokeProbe(p) \/ RevokeFlag(p)
  \/ PublicRevoked(p) \/ PublicRegistered(p) \/ PublicSeed(p)
  \/ VerifyCount(p) \/ VerifyFlag(p) \/ VerifyKey(p) \/ VerifyCheck(p)
  \/ Return(p)

ProviderNext == \E p \in Procs : Call(p) \/ Step(p) \/ Abort(p)
=============================================================================
