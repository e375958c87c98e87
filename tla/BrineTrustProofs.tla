-------------------------- MODULE BrineTrustProofs --------------------------
(***************************************************************************)
(* Proofs of the trust properties of BrineTrust, under SingleMinter and    *)
(* OwnKeysOnly, for every set of processes, slots, keys and envelopes.     *)
(***************************************************************************)
EXTENDS BrineTypeProofs

USE DEF Versions

\* A step of one process, and what the others see of it.
StepOf(p) == Call(p) \/ Step(p) \/ Abort(p)

Quiet == UNCHANGED <<keystore, minted>>

\* The registers and the position of a process are its own.
Frame(q) ==
  /\ op'[q] = op[q] /\ pc'[q] = pc[q] /\ slot'[q] = slot[q]
  /\ existing'[q] = existing[q] /\ version'[q] = version[q] /\ limit'[q] = limit[q]
  /\ candidates'[q] = candidates[q] /\ request'[q] = request[q]
  /\ outcome'[q] = outcome[q]

-----------------------------------------------------------------------------
(* Which steps there are, and what they change.                            *)

\* Starting a call moves only the caller.
LEMMA CallFrame ==
  ASSUME ProviderTypeOK, NEW p \in Procs, NEW q \in Procs, q # p, Call(p)
  PROVE  Frame(q)
<1>1. PICK s \in Slots :
        \/ Generate(p, s) \/ Rotate(p, s) \/ Revoke(p, s)
        \/ \E v \in Versions : RevokeVersion(p, s, v)
        \/ RegisterPublicKey(p, s) \/ PublicKey(p, s)
        \/ \E env \in Envelopes : Sign(p, s, env)
        \/ \E r \in Requests : Presentable(r) /\ Verify(p, s, r)
  BY DEF Call
<1>2. CASE Generate(p, s)
  BY <1>2
    DEF Generate, Frame, ProviderTypeOK, ControlTypeOK, RegisterTypeOK, Begin,
        Goto, End, Same, locals
<1>3. CASE Rotate(p, s)
  BY <1>3
    DEF Rotate, Frame, ProviderTypeOK, ControlTypeOK, RegisterTypeOK, Begin,
        Goto, End, Same, locals
<1>4. CASE Revoke(p, s)
  BY <1>4
    DEF Revoke, Frame, ProviderTypeOK, ControlTypeOK, RegisterTypeOK, Begin,
        Goto, End, Same, locals
<1>5. CASE \E v \in Versions : RevokeVersion(p, s, v)
  BY <1>5
    DEF RevokeVersion, Frame, ProviderTypeOK, ControlTypeOK, RegisterTypeOK,
        Begin, Goto, End, Same, locals
<1>6. CASE RegisterPublicKey(p, s)
  BY <1>6
    DEF RegisterPublicKey, Frame, ProviderTypeOK, ControlTypeOK, RegisterTypeOK,
        Begin, Goto, End, Same, locals
<1>7. CASE PublicKey(p, s)
  BY <1>7
    DEF PublicKey, Frame, ProviderTypeOK, ControlTypeOK, RegisterTypeOK, Begin,
        Goto, End, Same, locals
<1>8. CASE \E env \in Envelopes : Sign(p, s, env)
  BY <1>8
    DEF Sign, Frame, ProviderTypeOK, ControlTypeOK, RegisterTypeOK, Begin, Goto,
        End, Same, locals
<1>9. CASE \E r \in Requests : Presentable(r) /\ Verify(p, s, r)
  BY <1>9
    DEF Verify, Frame, ProviderTypeOK, ControlTypeOK, RegisterTypeOK, Begin,
        Goto, End, Same, locals
<1> QED BY <1>1, <1>2, <1>3, <1>4, <1>5, <1>6, <1>7, <1>8, <1>9

\* An access moves only the process that makes it.
LEMMA StepFrame ==
  ASSUME ProviderTypeOK, NEW p \in Procs, NEW q \in Procs, q # p, Step(p)
  PROVE  Frame(q)
<1>1. CASE GenerateStore(p)
  BY <1>1
    DEF GenerateStore, Frame, ProviderTypeOK, ControlTypeOK, RegisterTypeOK,
        Begin, Goto, End, Same, locals
<1>2. CASE RotateCount(p)
  BY <1>2
    DEF RotateCount, Frame, ProviderTypeOK, ControlTypeOK, RegisterTypeOK, Begin,
        Goto, End, Same, locals
<1>3. CASE RotateArchive(p)
  BY <1>3
    DEF RotateArchive, Frame, ProviderTypeOK, ControlTypeOK, RegisterTypeOK,
        Begin, Goto, End, Same, locals
<1>4. CASE RotateBump(p)
  BY <1>4
    DEF RotateBump, Frame, ProviderTypeOK, ControlTypeOK, RegisterTypeOK, Begin,
        Goto, End, Same, locals
<1>5. CASE RotateStore(p)
  BY <1>5
    DEF RotateStore, Frame, ProviderTypeOK, ControlTypeOK, RegisterTypeOK, Begin,
        Goto, End, Same, locals
<1>6. CASE RevokeProbe(p)
  BY <1>6
    DEF RevokeProbe, Frame, ProviderTypeOK, ControlTypeOK, RegisterTypeOK, Begin,
        Goto, End, Same, locals
<1>7. CASE RevokeFlag(p)
  BY <1>7
    DEF RevokeFlag, Frame, ProviderTypeOK, ControlTypeOK, RegisterTypeOK, Begin,
        Goto, End, Same, locals
<1>8. CASE PublicRevoked(p)
  BY <1>8
    DEF PublicRevoked, Frame, ProviderTypeOK, ControlTypeOK, RegisterTypeOK,
        Begin, Goto, End, Same, locals
<1>9. CASE PublicRegistered(p)
  BY <1>9
    DEF PublicRegistered, HavePublicKey, Frame, ProviderTypeOK, ControlTypeOK,
        RegisterTypeOK, Begin, Goto, End, Same, locals
<1>10. CASE PublicSeed(p)
  BY <1>10
    DEF PublicSeed, HavePublicKey, Frame, ProviderTypeOK, ControlTypeOK,
        RegisterTypeOK, Begin, Goto, End, Same, locals
<1>11. CASE VerifyCount(p)
  BY <1>11
    DEF VerifyCount, Frame, ProviderTypeOK, ControlTypeOK, RegisterTypeOK, Begin,
        Goto, End, Same, locals
<1>12. CASE VerifyFlag(p)
  BY <1>12
    DEF VerifyFlag, NextVersion, Frame, ProviderTypeOK, ControlTypeOK,
        RegisterTypeOK, Begin, Goto, End, Same, locals
<1>13. CASE VerifyKey(p)
  BY <1>13
    DEF VerifyKey, NextVersion, Frame, ProviderTypeOK, ControlTypeOK,
        RegisterTypeOK, Begin, Goto, End, Same, locals
<1>14. CASE VerifyCheck(p)
  BY <1>14
    DEF VerifyCheck, Frame, ProviderTypeOK, ControlTypeOK, RegisterTypeOK, Begin,
        Goto, End, Same, locals
<1>15. CASE Return(p)
  BY <1>15
    DEF Return, Clear, Frame, ProviderTypeOK, ControlTypeOK, RegisterTypeOK,
        Begin, Goto, End, Same, locals
<1> QED BY <1>1, <1>2, <1>3, <1>4, <1>5, <1>6, <1>7, <1>8, <1>9, <1>10, <1>11, <1>12, <1>13, <1>14, <1>15 DEF Step

LEMMA FrameOthers ==
  ASSUME ProviderTypeOK, NEW p \in Procs, NEW q \in Procs, q # p, StepOf(p)
  PROVE  Frame(q)
<1>1. CASE Abort(p)
  BY <1>1 DEF Abort, Clear, Frame, ProviderTypeOK, ControlTypeOK, RegisterTypeOK
<1> QED BY <1>1, CallFrame, StepFrame DEF StepOf

\* Where nobody revokes the current key or registers one, no call is one of those.
LEMMA OwnKeysCalls ==
  ASSUME OwnKeysOnly, NEW p \in Procs, NEW s \in Slots, NEW o, <<p, s, o>> \in Calls
  PROVE  o \notin {"revoke", "register_public_key"}
BY DEF OwnKeysOnly, Users

\* The steps that change the keystore, under OwnKeysOnly.
Writes(p) ==
  \/ \E s \in Slots, v \in Versions : RevokeVersion(p, s, v)
  \/ GenerateStore(p) \/ RotateArchive(p) \/ RotateBump(p) \/ RotateStore(p)

\* A call that starts writes only to revoke a version.
LEMMA CallEffect ==
  ASSUME OwnKeysOnly, NEW p \in Procs, Call(p)
  PROVE  Quiet \/ Writes(p)
<1>1. PICK s \in Slots :
        \/ Generate(p, s) \/ Rotate(p, s) \/ Revoke(p, s)
        \/ \E v \in Versions : RevokeVersion(p, s, v)
        \/ RegisterPublicKey(p, s) \/ PublicKey(p, s)
        \/ \E env \in Envelopes : Sign(p, s, env)
        \/ \E r \in Requests : Presentable(r) /\ Verify(p, s, r)
  BY DEF Call
<1>2. CASE Generate(p, s)
  BY <1>2 DEF Generate, Quiet, Writes, world
<1>3. CASE Rotate(p, s)
  BY <1>3 DEF Rotate, Quiet, Writes, world
<1>4. CASE Revoke(p, s)
  BY <1>4, OwnKeysCalls DEF Revoke, Begin
<1>5. CASE \E v \in Versions : RevokeVersion(p, s, v)
  BY <1>5 DEF RevokeVersion, Quiet, Writes, world
<1>6. CASE RegisterPublicKey(p, s)
  BY <1>6, OwnKeysCalls DEF RegisterPublicKey, Begin
<1>7. CASE PublicKey(p, s)
  BY <1>7 DEF PublicKey, Quiet, Writes, world
<1>8. CASE \E env \in Envelopes : Sign(p, s, env)
  BY <1>8 DEF Sign, Quiet, Writes, world
<1>9. CASE \E r \in Requests : Presentable(r) /\ Verify(p, s, r)
  BY <1>9 DEF Verify, Quiet, Writes, world
<1> QED BY <1>1, <1>2, <1>3, <1>4, <1>5, <1>6, <1>7, <1>8, <1>9

\* An access writes only to store, archive or count a key.
LEMMA StepEffect ==
  ASSUME OwnKeysOnly, CallsWellFormed, NEW p \in Procs, Step(p)
  PROVE  Quiet \/ Writes(p)
<1>1. CASE GenerateStore(p)
  BY <1>1 DEF GenerateStore, Quiet, Writes, world
<1>2. CASE RotateCount(p)
  BY <1>2 DEF RotateCount, Quiet, Writes, world
<1>3. CASE RotateArchive(p)
  BY <1>3 DEF RotateArchive, Quiet, Writes, world
<1>4. CASE RotateBump(p)
  BY <1>4 DEF RotateBump, Quiet, Writes, world
<1>5. CASE RotateStore(p)
  BY <1>5 DEF RotateStore, Quiet, Writes, world
<1>6. CASE RevokeProbe(p)
  BY <1>6 DEF RevokeProbe, Quiet, Writes, world
<1>7. CASE RevokeFlag(p)
  <2>1. <<p, slot[p], "revoke">> \in Calls /\ slot[p] \in Slots
    BY <1>7, StepInRange DEF RevokeFlag, At, CallsWellFormed
  <2> QED BY <2>1, OwnKeysCalls
<1>8. CASE PublicRevoked(p)
  BY <1>8 DEF PublicRevoked, Quiet, Writes, world
<1>9. CASE PublicRegistered(p)
  BY <1>9 DEF PublicRegistered, HavePublicKey, Quiet, Writes, world
<1>10. CASE PublicSeed(p)
  BY <1>10 DEF PublicSeed, HavePublicKey, Quiet, Writes, world
<1>11. CASE VerifyCount(p)
  BY <1>11 DEF VerifyCount, Quiet, Writes, world
<1>12. CASE VerifyFlag(p)
  BY <1>12 DEF VerifyFlag, NextVersion, Quiet, Writes, world
<1>13. CASE VerifyKey(p)
  BY <1>13 DEF VerifyKey, NextVersion, Quiet, Writes, world
<1>14. CASE VerifyCheck(p)
  BY <1>14 DEF VerifyCheck, Quiet, Writes, world
<1>15. CASE Return(p)
  BY <1>15 DEF Return, Clear, Quiet, Writes, world
<1> QED BY <1>1, <1>2, <1>3, <1>4, <1>5, <1>6, <1>7, <1>8, <1>9, <1>10, <1>11, <1>12, <1>13, <1>14, <1>15 DEF Step

LEMMA Effects ==
  ASSUME OwnKeysOnly, CallsWellFormed, NEW p \in Procs, StepOf(p)
  PROVE  Quiet \/ Writes(p)
<1>1. CASE Abort(p)
  BY <1>1 DEF Abort, Clear, Quiet, world
<1> QED BY <1>1, CallEffect, StepEffect DEF StepOf

-----------------------------------------------------------------------------
(* The keystore.                                                           *)

\* A minting call belongs to the one process that may mint for its slot.
LEMMA OneMinter ==
  ASSUME SingleMinter, CallsWellFormed, NEW p \in Procs, NEW q \in Procs,
         pc[p] # "idle", pc[q] # "idle", slot[p] = slot[q],
         op[p] \in {"generate", "rotate"}, op[q] \in {"generate", "rotate"}
  PROVE  p = q
<1>1. slot[p] \in Slots
  BY StepInRange
<1>2. <<p, slot[p], op[p]>> \in Calls /\ <<q, slot[p], op[q]>> \in Calls
  BY DEF CallsWellFormed
<1>3. /\ p \in Users(slot[p], "generate") \cup Users(slot[p], "rotate")
      /\ q \in Users(slot[p], "generate") \cup Users(slot[p], "rotate")
  BY <1>2 DEF Users
<1> QED BY <1>1, <1>3 DEF SingleMinter, SoleMinter, Minters

\* With sound entries, verify() accepts the seed and what the archive still vouches
\* for, and all of it is known.
LEMMA AcceptsOwn ==
  ASSUME NEW s \in Slots, EntriesOK(s), NEW k \in Keys
  PROVE  Accepts(s, k) <=> (seed[s] = k \/ Usable(s, k) # {})
BY DEF EntriesOK, Accepts, CurrentKey

LEMMA AcceptedKnown ==
  ASSUME TypeOK, NEW s \in Slots, EntriesOK(s)
  PROVE  Accepted[s] \subseteq known[s]
<1> SUFFICES ASSUME NEW k \in Keys, Accepts(s, k)
             PROVE  k \in known[s]
  BY DEF Accepted
<1>1. CASE seed[s] = k
  BY <1>1, SentinelAssumption DEF EntriesOK
<1>2. CASE Usable(s, k) # {}
  <2>1. PICK v \in Versions : v < archiveCount[s] /\ archive[s][v] = k
    BY <1>2 DEF Usable, ArchivedAt
  <2> QED BY <2>1 DEF EntriesOK
<1> QED BY <1>1, <1>2, AcceptsOwn

\* What a reader of a slot may rely on across any step.
Rely(s) ==
  /\ archiveCount[s] <= archiveCount'[s]
  /\ revokedVersions[s] \subseteq revokedVersions'[s]
  /\ \A v \in Versions : v < archiveCount[s] => archive'[s][v] = archive[s][v]
  /\ seed'[s] = seed[s] \/ seed'[s] \in Keys \ minted
  /\ \A v \in Versions : v < archiveCount'[s] /\ ~(v < archiveCount[s]) =>
       archive'[s][v] = seed[s] /\ seed'[s] = seed[s]

LEMMA RelyQuiet ==
  ASSUME TypeOK, Quiet, NEW s \in Slots
  PROVE  Rely(s)
<1>1. archiveCount[s] \in 0 .. MaxVersion
  BY ReadTypes DEF TypeOK, ProviderTypeOK
<1>2. archiveCount[s] <= archiveCount[s]
  BY <1>1, VersionAssumption
<1> QED BY <1>2 DEF Quiet, Rely, keystore

LEMMA RelyRevokeVersion ==
  ASSUME TypeOK, NEW p \in Procs, NEW t \in Slots, NEW v \in Versions,
         RevokeVersion(p, t, v), NEW s \in Slots
  PROVE  Rely(s)
<1>1. archiveCount[s] \in 0 .. MaxVersion
  BY ReadTypes DEF TypeOK, ProviderTypeOK
<1>2. archiveCount[s] <= archiveCount[s]
  BY <1>1, VersionAssumption
<1>3. revokedVersions[s] \subseteq revokedVersions'[s]
  BY DEF RevokeVersion, TypeOK, ProviderTypeOK, KeystoreTypeOK
<1> QED BY <1>2, <1>3 DEF RevokeVersion, Rely

LEMMA RelyStore ==
  ASSUME TypeOK, CallsWellFormed, NEW p \in Procs, GenerateStore(p) \/ RotateStore(p),
         NEW s \in Slots
  PROVE  Rely(s)
<1>1. archiveCount[s] \in 0 .. MaxVersion
  BY ReadTypes DEF TypeOK, ProviderTypeOK
<1>2. archiveCount[s] <= archiveCount[s]
  BY <1>1, VersionAssumption
<1>3. seed'[s] = seed[s] \/ seed'[s] \in Keys \ minted
  BY DEF GenerateStore, RotateStore, StoreFreshSeed, TypeOK, ProviderTypeOK,
    KeystoreTypeOK
<1> QED BY <1>2, <1>3 DEF GenerateStore, RotateStore, Rely

\* The archive entry that is written is the one after the last counted.
LEMMA RelyArchive ==
  ASSUME TypeOK, CallsWellFormed, NEW p \in Procs, MinterOK(p), RotateArchive(p),
         NEW s \in Slots
  PROVE  Rely(s)
<1>1. archiveCount[s] \in 0 .. MaxVersion /\ archiveCount' = archiveCount
  BY ReadTypes DEF TypeOK, ProviderTypeOK, RotateArchive
<1>2. archiveCount[s] <= archiveCount[s]
  BY <1>1, VersionAssumption
<1>3. version[p] = archiveCount[slot[p]]
  BY DEF MinterOK, RotateArchive, At, Rotating
<1>4. \A v \in Versions : v < archiveCount[s] => archive'[s][v] = archive[s][v]
  <2> SUFFICES ASSUME NEW v \in Versions, v < archiveCount[s]
               PROVE  archive'[s][v] = archive[s][v]
    OBVIOUS
  <2>1. CASE s = slot[p]
    <3>1. v # version[p]
      BY <1>1, <1>3, <2>1, VersionAssumption
    <3> QED BY <2>1, <3>1
      DEF RotateArchive, TypeOK, ProviderTypeOK, KeystoreTypeOK
  <2>2. CASE s # slot[p]
    BY <2>2 DEF RotateArchive, TypeOK, ProviderTypeOK, KeystoreTypeOK
  <2> QED BY <2>1, <2>2
<1> QED BY <1>1, <1>2, <1>4 DEF RotateArchive, Rely

\* The count rises by one, over the entry just written with the current key.
LEMMA RelyBump ==
  ASSUME TypeOK, CallsWellFormed, NEW p \in Procs, MinterOK(p), RotateBump(p),
         NEW s \in Slots
  PROVE  Rely(s)
<1>1. archiveCount[s] \in 0 .. MaxVersion
  BY ReadTypes DEF TypeOK, ProviderTypeOK
<1>2. CASE s = slot[p]
  <2>1. /\ version[p] = archiveCount[s]
        /\ archive[s][version[p]] = seed[s]
    BY <1>2 DEF MinterOK, RotateBump, At, Rotating
  <2>2. archiveCount'[s] = archiveCount[s] + 1
    BY <1>2, <2>1 DEF RotateBump, TypeOK, ProviderTypeOK, KeystoreTypeOK
  <2>3. archiveCount[s] <= archiveCount'[s]
    BY <1>1, <2>2, VersionAssumption
  <2>4. \A v \in Versions : v < archiveCount'[s] /\ ~(v < archiveCount[s]) =>
          v = version[p]
    <3> SUFFICES ASSUME NEW v \in Versions, v < archiveCount[s] + 1,
                        ~(v < archiveCount[s])
                 PROVE  v = archiveCount[s]
      BY <2>1, <2>2
    <3> QED BY <1>1, VersionAssumption
  <2> QED BY <2>1, <2>3, <2>4 DEF RotateBump, Rely
<1>3. CASE s # slot[p]
  <2>1. archiveCount'[s] = archiveCount[s]
    BY <1>3 DEF RotateBump, TypeOK, ProviderTypeOK, KeystoreTypeOK
  <2>2. archiveCount[s] <= archiveCount'[s]
    BY <1>1, <2>1, VersionAssumption
  <2> QED BY <2>1, <2>2 DEF RotateBump, Rely
<1> QED BY <1>2, <1>3

LEMMA RelyStep ==
  ASSUME TypeOK, OwnKeysOnly, CallsWellFormed, NEW p \in Procs, MinterOK(p), StepOf(p),
         NEW s \in Slots
  PROVE  Rely(s)
BY Effects, RelyQuiet, RelyRevokeVersion, RelyStore, RelyArchive, RelyBump DEF Writes

\* The step of the history variable that collects the keys of a slot.
LEMMA KnownStep ==
  ASSUME TypeOK, Track, NEW s \in Slots, pubkey'[s] = NoKey
  PROVE  known'[s] = known[s] \cup ({seed'[s]} \ {NoKey})
BY DEF Track

LEMMA OthersStay ==
  ASSUME Quiet \/ (\E p \in Procs : Writes(p))
  PROVE  pubkey' = pubkey /\ revoked' = revoked
BY DEF Quiet, Writes, keystore, RevokeVersion, GenerateStore, RotateArchive,
       RotateBump, RotateStore

\* Nothing that the entries of a slot say changes when these do not.
LEMMA EntriesUnchanged ==
  ASSUME TypeOK, Track, NEW s \in Slots, EntriesOK(s),
         seed'[s] = seed[s], pubkey'[s] = pubkey[s], revoked'[s] = revoked[s],
         archiveCount'[s] = archiveCount[s], minted \subseteq minted',
         \A v \in Versions : v < archiveCount[s] => archive'[s][v] = archive[s][v]
  PROVE  EntriesOK(s)'
<1>1. known'[s] = known[s]
  <2>1. known'[s] = known[s] \cup ({seed[s]} \ {NoKey})
    BY KnownStep DEF EntriesOK
  <2> QED BY <2>1 DEF EntriesOK
<1>2. \A k \in known[s] : ArchivedAt(s, k)' = ArchivedAt(s, k)
  BY DEF ArchivedAt
<1> QED BY <1>1, <1>2 DEF EntriesOK

\* generate() writes the first key of the slot.
LEMMA EntriesGenerate ==
  ASSUME TypeOK, Track, NEW p \in Procs, MinterOK(p), GenerateStore(p),
         NEW s \in Slots, EntriesOK(s), s = slot[p]
  PROVE  EntriesOK(s)'
<1>1. seed[s] = NoKey /\ known[s] = {}
  BY DEF MinterOK, GenerateStore, EntriesOK
<1>2. PICK k \in Keys \ minted : seed'[s] = k /\ minted' = minted \cup {k}
  BY DEF GenerateStore, StoreFreshSeed, TypeOK, ProviderTypeOK, KeystoreTypeOK
<1>3. /\ pubkey' = pubkey /\ revoked' = revoked
      /\ archive' = archive /\ archiveCount' = archiveCount
  BY DEF GenerateStore
<1>4. k # NoKey
  BY SentinelAssumption
<1>5. known'[s] = {k}
  BY <1>1, <1>2, <1>3, <1>4, KnownStep DEF EntriesOK
<1>6. \A v \in Versions : ~(v < archiveCount[s])
  BY <1>1 DEF EntriesOK
<1> QED BY <1>2, <1>3, <1>4, <1>5, <1>6 DEF EntriesOK

\* The archived copy of the current key becomes part of the archive.
LEMMA EntriesBump ==
  ASSUME TypeOK, CallsWellFormed, Track, NEW p \in Procs, MinterOK(p), RotateBump(p),
         NEW s \in Slots, EntriesOK(s)
  PROVE  EntriesOK(s)'
<1>1. Rely(s)
  BY RelyBump
<1>2. CASE s = slot[p]
  <2>1. seed[s] # NoKey
    BY <1>2 DEF MinterOK, Rotating, RotateBump, At
  <2>2. seed' = seed /\ pubkey' = pubkey /\ revoked' = revoked /\ minted' = minted
    BY DEF RotateBump, world
  <2>3. known'[s] = known[s]
    <3>1. known'[s] = known[s] \cup ({seed[s]} \ {NoKey})
      BY <2>2, KnownStep DEF EntriesOK
    <3> QED BY <3>1 DEF EntriesOK
  <2>4. \A v \in Versions : v < archiveCount'[s] => archive'[s][v] \in known[s]
    BY <1>1, <2>1 DEF Rely, EntriesOK
  <2>5. \A v \in Versions : v < archiveCount[s] => v < archiveCount'[s]
    <3>1. archiveCount[s] \in 0 .. MaxVersion /\ version[p] \in 0 .. MaxVersion
      BY ReadTypes, StepIndices DEF TypeOK, ProviderTypeOK
    <3>2. archiveCount'[s] = version[p] + 1
      BY <1>2 DEF RotateBump, TypeOK, ProviderTypeOK, KeystoreTypeOK
    <3>3. archiveCount[s] <= archiveCount'[s]
      BY <1>1 DEF Rely
    <3> QED BY <3>1, <3>2, <3>3, VersionAssumption
  <2>6. \A k \in known[s] : ArchivedAt(s, k) \subseteq ArchivedAt(s, k)'
    BY <1>1, <2>5 DEF ArchivedAt, Rely
  <2> QED BY <2>2, <2>3, <2>4, <2>6 DEF EntriesOK
<1>3. CASE s # slot[p]
  BY <1>3, EntriesUnchanged
    DEF RotateBump, TypeOK, ProviderTypeOK, KeystoreTypeOK, world
<1> QED BY <1>2, <1>3

\* The new key joins; the one it replaces is in the archive.
LEMMA EntriesRotate ==
  ASSUME TypeOK, Track, NEW p \in Procs, MinterOK(p), RotateStore(p),
         NEW s \in Slots, EntriesOK(s), s = slot[p]
  PROVE  EntriesOK(s)'
<1>1. seed[s] # NoKey /\ ArchivedAt(s, seed[s]) # {}
  BY DEF MinterOK, Rotating, RotateStore, At
<1>2. PICK k \in Keys \ minted : seed'[s] = k /\ minted' = minted \cup {k}
  BY DEF RotateStore, StoreFreshSeed, TypeOK, ProviderTypeOK, KeystoreTypeOK
<1>3. /\ pubkey' = pubkey /\ revoked' = revoked
      /\ archive' = archive /\ archiveCount' = archiveCount
  BY DEF RotateStore
<1>4. k # NoKey
  BY SentinelAssumption
<1>5. known'[s] = known[s] \cup {k}
  BY <1>2, <1>3, <1>4, KnownStep DEF EntriesOK
<1>6. \A x \in known[s] : ArchivedAt(s, x)' # {}
  BY <1>1, <1>3 DEF EntriesOK, ArchivedAt
<1> QED BY <1>2, <1>3, <1>4, <1>5, <1>6 DEF EntriesOK

LEMMA EntriesStep ==
  ASSUME TypeOK, OwnKeysOnly, CallsWellFormed, Track,
         NEW p \in Procs, MinterOK(p), StepOf(p), NEW s \in Slots, EntriesOK(s)
  PROVE  EntriesOK(s)'
<1>1. CASE Quiet
  BY <1>1, EntriesUnchanged DEF Quiet, keystore
<1>2. CASE \E t \in Slots, v \in Versions : RevokeVersion(p, t, v)
  BY <1>2, EntriesUnchanged DEF RevokeVersion, world
<1>3. CASE GenerateStore(p)
  <2>1. CASE s # slot[p]
    BY <1>3, <2>1, EntriesUnchanged
      DEF GenerateStore, StoreFreshSeed, TypeOK, ProviderTypeOK, KeystoreTypeOK
  <2> QED BY <1>3, <2>1, EntriesGenerate
<1>4. CASE RotateArchive(p)
  <2>1. Rely(s)
    BY <1>4, RelyArchive
  <2> QED BY <1>4, <2>1, EntriesUnchanged DEF Rely, RotateArchive, world
<1>5. CASE RotateBump(p)
  BY <1>5, EntriesBump
<1>6. CASE RotateStore(p)
  <2>1. CASE s # slot[p]
    BY <1>6, <2>1, EntriesUnchanged
      DEF RotateStore, StoreFreshSeed, TypeOK, ProviderTypeOK, KeystoreTypeOK
  <2> QED BY <1>6, <2>1, EntriesRotate
<1> QED BY <1>1, <1>2, <1>3, <1>4, <1>5, <1>6, Effects DEF Writes

-----------------------------------------------------------------------------
(* The process that mints.                                                 *)

\* A step of another process leaves the keystore of a minting slot alone.
LEMMA MinterFrame ==
  ASSUME TypeOK, SingleMinter, OwnKeysOnly, CallsWellFormed,
         NEW p \in Procs, StepOf(p), NEW q \in Procs, q # p, MinterOK(q)
  PROVE  MinterOK(q)'
<1>1. Frame(q)
  BY FrameOthers DEF TypeOK
<1>2. CASE op[q] \in {"generate", "rotate"} /\ pc[q] # "idle"
  <2>1. slot[q] \in Slots
    BY <1>2, StepInRange
  <2>2. /\ seed'[slot[q]] = seed[slot[q]]
        /\ archive'[slot[q]] = archive[slot[q]]
        /\ archiveCount'[slot[q]] = archiveCount[slot[q]]
    <3>1. CASE Quiet
      BY <3>1 DEF Quiet, keystore
    <3>2. CASE \E s \in Slots, v \in Versions : RevokeVersion(p, s, v)
      BY <3>2 DEF RevokeVersion
    <3>3. CASE GenerateStore(p) \/ RotateArchive(p) \/ RotateBump(p) \/ RotateStore(p)
      <4>1. op[p] \in {"generate", "rotate"} /\ pc[p] # "idle"
        BY <3>3 DEF GenerateStore, RotateArchive, RotateBump, RotateStore, At
      <4>2. slot[p] # slot[q]
        BY <4>1, <1>2, OneMinter
      <4> QED BY <3>3, <4>2, <2>1
        DEF GenerateStore, RotateArchive, RotateBump, RotateStore, StoreFreshSeed,
            TypeOK, ProviderTypeOK, KeystoreTypeOK
    <3> QED BY <3>1, <3>2, <3>3, Effects DEF Writes
  <2> QED BY <1>1, <2>2 DEF Frame, MinterOK, Rotating, At, ArchivedAt
<1>3. CASE ~(op[q] \in {"generate", "rotate"} /\ pc[q] # "idle")
  BY <1>1, <1>3 DEF Frame, MinterOK, Rotating, At
<1> QED BY <1>2, <1>3

\* The places from which a process goes on minting.
Minter(p) ==
  op[p] \in {"generate", "rotate"} /\ pc[p] \in {"count", "archive", "bump", "store"}

LEMMA NotMinting ==
  ASSUME NEW p \in Procs, ~Minter(p)'
  PROVE  MinterOK(p)'
BY DEF Minter, MinterOK, Rotating, At

\* A call that starts has read the seed as it is.
LEMMA CallMinter ==
  ASSUME TypeOK, CallsWellFormed, NEW p \in Procs, Call(p)
  PROVE  MinterOK(p)'
<1>1. PICK s \in Slots :
        \/ Generate(p, s) \/ Rotate(p, s) \/ Revoke(p, s)
        \/ \E v \in Versions : RevokeVersion(p, s, v)
        \/ RegisterPublicKey(p, s) \/ PublicKey(p, s)
        \/ \E env \in Envelopes : Sign(p, s, env)
        \/ \E r \in Requests : Presentable(r) /\ Verify(p, s, r)
  BY DEF Call
<1>2. CASE Generate(p, s)
  <2>1. op'[p] = "generate" /\ slot'[p] = s
    BY <1>2 DEF Generate, Goto, End, Begin, TypeOK, ProviderTypeOK, ControlTypeOK
  <2>2. pc'[p] \in {"returned", "store"} /\ (pc'[p] = "store" => seed[s] = NoKey)
    BY <1>2 DEF Generate, Goto, End, TypeOK, ProviderTypeOK, ControlTypeOK
  <2>3. seed' = seed
    BY <1>2 DEF Generate, keystore
  <2> QED BY <2>1, <2>2, <2>3 DEF MinterOK, Rotating, At
<1>3. CASE Rotate(p, s)
  <2>1. op'[p] = "rotate" /\ slot'[p] = s /\ seed' = seed
    BY <1>3 DEF Rotate, Begin, keystore, TypeOK, ProviderTypeOK, ControlTypeOK
  <2>2. \/ pc'[p] = "returned"
        \/ pc'[p] = "count" /\ seed[s] # NoKey /\ existing'[p] = seed[s]
    BY <1>3 DEF Rotate, Goto, End, TypeOK, ProviderTypeOK, ControlTypeOK, RegisterTypeOK
  <2> QED BY <2>1, <2>2 DEF MinterOK, Rotating, At
<1>4. CASE Revoke(p, s)
  BY <1>4, NotMinting
    DEF Revoke, Minter, Goto, End, Begin, Same, TypeOK, ProviderTypeOK,
        ControlTypeOK
<1>5. CASE \E v \in Versions : RevokeVersion(p, s, v)
  BY <1>5, NotMinting
    DEF RevokeVersion, Minter, Goto, End, Begin, Same, TypeOK, ProviderTypeOK,
        ControlTypeOK
<1>6. CASE RegisterPublicKey(p, s)
  BY <1>6, NotMinting
    DEF RegisterPublicKey, Minter, Goto, End, Begin, Same, TypeOK,
        ProviderTypeOK, ControlTypeOK
<1>7. CASE PublicKey(p, s)
  BY <1>7, NotMinting
    DEF PublicKey, Minter, Goto, End, Begin, Same, TypeOK, ProviderTypeOK,
        ControlTypeOK
<1>8. CASE \E env \in Envelopes : Sign(p, s, env)
  BY <1>8, NotMinting
    DEF Sign, Minter, Goto, End, Begin, Same, TypeOK, ProviderTypeOK,
        ControlTypeOK
<1>9. CASE \E r \in Requests : Presentable(r) /\ Verify(p, s, r)
  BY <1>9, NotMinting
    DEF Verify, Minter, Goto, End, Begin, Same, TypeOK, ProviderTypeOK,
        ControlTypeOK
<1> QED BY <1>1, <1>2, <1>3, <1>4, <1>5, <1>6, <1>7, <1>8, <1>9

\* What rotate() has read stays true up to its next access.
LEMMA StepMinter ==
  ASSUME TypeOK, CallsWellFormed, NEW p \in Procs, MinterOK(p), Step(p)
  PROVE  MinterOK(p)'
<1>1. CASE GenerateStore(p)
  BY <1>1, NotMinting
    DEF GenerateStore, At, Minter, Goto, End, Begin, Same, TypeOK,
        ProviderTypeOK, ControlTypeOK
<1>2. CASE RotateCount(p)
  <2>1. op' = op /\ slot' = slot /\ seed' = seed /\ archiveCount' = archiveCount
    BY <1>2 DEF RotateCount, Same, keystore
  <2>2. /\ pc'[p] = "archive" /\ version'[p] = archiveCount[slot[p]]
        /\ existing' = existing /\ At(p, "rotate", "count")
    BY <1>2 DEF RotateCount, Goto, TypeOK, ProviderTypeOK, ControlTypeOK, RegisterTypeOK
  <2> QED BY <2>1, <2>2 DEF MinterOK, Rotating, At
<1>3. CASE RotateArchive(p)
  <2>1. op' = op /\ slot' = slot /\ seed' = seed /\ archiveCount' = archiveCount
    BY <1>3 DEF RotateArchive, Same
  <2>2. /\ pc'[p] = "bump" /\ version' = version /\ existing' = existing
        /\ At(p, "rotate", "archive")
    BY <1>3 DEF RotateArchive, Goto, locals, TypeOK, ProviderTypeOK, ControlTypeOK
  <2>3. slot[p] \in Slots /\ version[p] \in Versions
    <3>1. version[p] \in 0 .. MaxVersion /\ version[p] < MaxVersion
      BY <1>3, StepIndices DEF RotateArchive, TypeOK, ProviderTypeOK
    <3>2. version[p] \in 0 .. MaxVersion - 1
      BY <3>1, VersionAssumption
    <3> QED BY <2>2, <3>2, StepInRange DEF At
  <2>4. archive'[slot[p]][version[p]] = existing[p]
    BY <1>3, <2>3 DEF RotateArchive, TypeOK, ProviderTypeOK, KeystoreTypeOK
  <2> QED BY <2>1, <2>2, <2>4 DEF MinterOK, Rotating, At
<1>4. CASE RotateBump(p)
  <2>1. op' = op /\ slot' = slot /\ seed' = seed /\ archive' = archive
    BY <1>4 DEF RotateBump, Same
  <2>2. /\ pc'[p] = "store" /\ existing' = existing /\ At(p, "rotate", "bump")
    BY <1>4 DEF RotateBump, Goto, locals, TypeOK, ProviderTypeOK, ControlTypeOK
  <2>3. slot[p] \in Slots /\ version[p] < MaxVersion /\ version[p] \in 0 .. MaxVersion
    BY <2>2, StepInRange, StepIndices DEF At, CallsWellFormed, TypeOK, ProviderTypeOK
  <2>4. archiveCount'[slot[p]] = version[p] + 1
    BY <1>4, <2>3 DEF RotateBump, TypeOK, ProviderTypeOK, KeystoreTypeOK
  <2>5. version[p] \in 0 .. MaxVersion - 1 /\ version[p] < version[p] + 1
    BY <2>3, VersionAssumption
  <2>6. archive[slot[p]][version[p]] = existing[p]
    BY <2>2 DEF MinterOK
  <2>7. version[p] \in ArchivedAt(slot[p], existing[p])'
    BY <2>1, <2>2, <2>4, <2>5, <2>6 DEF ArchivedAt
  <2> QED BY <2>1, <2>2, <2>7 DEF MinterOK, Rotating, At, ArchivedAt
<1>5. CASE RotateStore(p)
  BY <1>5, NotMinting
    DEF RotateStore, At, Minter, Goto, End, Begin, Same, TypeOK, ProviderTypeOK,
        ControlTypeOK
<1>6. CASE RevokeProbe(p)
  BY <1>6, NotMinting
    DEF RevokeProbe, At, Minter, Goto, End, Begin, Same, TypeOK, ProviderTypeOK,
        ControlTypeOK
<1>7. CASE RevokeFlag(p)
  BY <1>7, NotMinting
    DEF RevokeFlag, At, Minter, Goto, End, Begin, Same, TypeOK, ProviderTypeOK,
        ControlTypeOK
<1>8. CASE PublicRevoked(p)
  BY <1>8, NotMinting
    DEF PublicRevoked, At, Minter, Goto, End, Begin, Same, TypeOK,
        ProviderTypeOK, ControlTypeOK
<1>9. CASE PublicRegistered(p)
  BY <1>9, NotMinting
    DEF PublicRegistered, HavePublicKey, At, Minter, Goto, End, Begin, Same,
        TypeOK, ProviderTypeOK, ControlTypeOK
<1>10. CASE PublicSeed(p)
  BY <1>10, NotMinting
    DEF PublicSeed, HavePublicKey, At, Minter, Goto, End, Begin, Same, TypeOK,
        ProviderTypeOK, ControlTypeOK
<1>11. CASE VerifyCount(p)
  BY <1>11, NotMinting
    DEF VerifyCount, At, Minter, Goto, End, Begin, Same, TypeOK, ProviderTypeOK,
        ControlTypeOK
<1>12. CASE VerifyFlag(p)
  BY <1>12, NotMinting
    DEF VerifyFlag, NextVersion, At, Minter, Goto, End, Begin, Same, TypeOK,
        ProviderTypeOK, ControlTypeOK
<1>13. CASE VerifyKey(p)
  BY <1>13, NotMinting
    DEF VerifyKey, NextVersion, At, Minter, Goto, End, Begin, Same, TypeOK,
        ProviderTypeOK, ControlTypeOK
<1>14. CASE VerifyCheck(p)
  BY <1>14, NotMinting
    DEF VerifyCheck, At, Minter, Goto, End, Begin, Same, TypeOK, ProviderTypeOK,
        ControlTypeOK
<1>15. CASE Return(p)
  BY <1>15, NotMinting
    DEF Return, Clear, At, Minter, Goto, End, Begin, Same, TypeOK,
        ProviderTypeOK, ControlTypeOK
<1> QED BY <1>1, <1>2, <1>3, <1>4, <1>5, <1>6, <1>7, <1>8, <1>9, <1>10, <1>11, <1>12, <1>13, <1>14, <1>15 DEF Step

LEMMA MinterStep ==
  ASSUME TypeOK, SingleMinter, OwnKeysOnly, CallsWellFormed,
         NEW p \in Procs, StepOf(p), NEW q \in Procs, MinterOK(q)
  PROVE  MinterOK(q)'
<1>1. CASE q # p
  BY <1>1, MinterFrame
<1>2. CASE q = p /\ Abort(p)
  BY <1>2, NotMinting DEF Abort, Clear, Minter, TypeOK, ProviderTypeOK, ControlTypeOK
<1> QED BY <1>1, <1>2, CallMinter, StepMinter DEF StepOf

-----------------------------------------------------------------------------
(* The history variables and the reader.                                   *)

LEMMA HistoryStep ==
  ASSUME TypeOK, Track, NEW q \in Procs, HistoryOK(q)
  PROVE  HistoryOK(q)'
BY DEF TypeOK, Track, HistoryOK, Watched

\* During a call the steady keys only shrink and the seen keys only grow.
LEMMA Narrowing ==
  ASSUME TypeOK, Track, NEW q \in Procs, pc[q] # "idle", pc'[q] # "idle"
  PROVE  steady'[q] \subseteq steady[q] /\ seen[q] \subseteq seen'[q]
BY DEF TypeOK, Track, Watched

\* A process in the middle of verify.
Reader(q) ==
  /\ pc[q] # "idle"
  /\ EntriesOK(slot[q])
  /\ HistoryOK(q)

LEMMA SteadyKnown ==
  ASSUME TypeOK, CallsWellFormed, NEW q \in Procs, Reader(q)
  PROVE  steady[q] \subseteq known[slot[q]]
<1>1. slot[q] \in Slots
  BY StepInRange DEF Reader
<1> QED BY <1>1, AcceptedKnown DEF Reader, HistoryOK, Watched

\* A fresh seed is none of the keys a reader has been able to rely on.
LEMMA SeedStaysOther ==
  ASSUME TypeOK, CallsWellFormed, NEW q \in Procs, Reader(q), Rely(slot[q]),
         NEW k \in steady[q], seed[slot[q]] # k
  PROVE  seed'[slot[q]] # k
<1>1. k \in minted
  BY SteadyKnown DEF Reader, EntriesOK
<1> QED BY <1>1 DEF Rely

\* A version still ahead of a reader stays ahead of it.
LEMMA AheadStays ==
  ASSUME TypeOK, CallsWellFormed, NEW q \in Procs, Reader(q), Rely(slot[q]),
         Frame(q), NEW k \in steady[q], StillAhead(q, k)
  PROVE  StillAhead(q, k)'
<1> DEFINE s == slot[q]
<1>1. seed[s] # k /\ seed'[s] # k
  BY SeedStaysOther DEF StillAhead
<1>2. slot'[q] = s /\ limit'[q] = limit[q] /\ version'[q] = version[q]
  BY DEF Frame
<1>3. ASSUME NEW v \in Versions, v < archiveCount'[s], archive'[s][v] = k
      PROVE  v < limit[q] /\ (v < version[q] => v \in revokedVersions'[s])
  <2>1. v < archiveCount[s]
    BY <1>1, <1>3 DEF Rely
  <2>2. v \in ArchivedAt(s, k)
    BY <1>3, <2>1 DEF Rely, ArchivedAt
  <2> QED BY <2>2 DEF StillAhead, Rely
<1> QED BY <1>1, <1>2, <1>3 DEF StillAhead, ArchivedAt

LEMMA Transitive ==
  ASSUME NEW a \in Int, NEW b \in Int, NEW c \in Int, b <= c
  PROVE  (a < b => a < c) /\ (a <= b => a <= c)
OBVIOUS

LEMMA NotBelow ==
  ASSUME NEW a \in Int, NEW b \in Int, ~(a < b)
  PROVE  b <= a
OBVIOUS

LEMMA IndexIsInt ==
  ASSUME NEW i \in 0 .. MaxVersion
  PROVE  i \in Int /\ i + 1 \in Int
BY VersionAssumption

LEMMA VerifyFrame ==
  ASSUME TypeOK, CallsWellFormed, Track, ProviderTypeOK', NEW q \in Procs, Reader(q),
         Rely(slot[q]), Frame(q), VerifyOK(q)
  PROVE  VerifyOK(q)'
<1> DEFINE s == slot[q]
<1>1. s \in Slots
  BY StepInRange DEF Reader
<1>2. steady'[q] \subseteq steady[q] /\ seen[q] \subseteq seen'[q]
  BY Narrowing DEF Reader, Frame
<1>3. Verifying(q)' => BoundTo(slot[q], request[q].env)' /\ candidates'[q] \subseteq seen'[q]
  BY <1>2 DEF VerifyOK, Verifying, Frame, BoundTo
<1>4. At(q, "verify", "count")' => \A k \in steady'[q] \ candidates'[q] : seed'[s] # k
  BY <1>2, SeedStaysOther DEF VerifyOK, At, Frame
<1>5. Scanning(q)' => limit'[q] <= archiveCount'[s]
  <2>1. limit[q] \in Int /\ archiveCount[s] \in Int /\ archiveCount'[s] \in Int
    BY <1>1, StepIndices, ReadTypes, VersionAssumption
      DEF TypeOK, ProviderTypeOK, KeystoreTypeOK
  <2>2. Scanning(q)' => limit[q] <= archiveCount[s] /\ limit'[q] = limit[q]
    BY DEF VerifyOK, Scanning, Frame
  <2>3. archiveCount[s] <= archiveCount'[s]
    BY DEF Rely
  <2> QED BY <2>1, <2>2, <2>3, Transitive
<1>6. Scanning(q)' => \A k \in steady'[q] \ candidates'[q] : StillAhead(q, k)'
  BY <1>2, AheadStays DEF VerifyOK, Scanning, Frame
<1>7. At(q, "verify", "archived key")' => archive'[s][version'[q]] \in seen'[q]
  <2> SUFFICES ASSUME At(q, "verify", "archived key")
               PROVE  archive'[s][version[q]] \in seen'[q]
    BY DEF At, Frame
  <2>1. version[q] \in Versions /\ version[q] < limit[q] /\ limit[q] <= archiveCount[s]
    BY ScanInRange DEF At, CallsWellFormed, VerifyOK, Scanning, TypeOK, ProviderTypeOK
  <2>2. version[q] \in Int /\ limit[q] \in Int /\ archiveCount[s] \in Int
    <3>1. version[q] \in 0 .. MaxVersion /\ limit[q] \in 0 .. MaxVersion
      BY StepIndices DEF TypeOK, ProviderTypeOK
    <3>2. archiveCount[s] \in 0 .. MaxVersion
      BY <1>1, ReadTypes DEF TypeOK, ProviderTypeOK
    <3> QED BY <3>1, <3>2, IndexIsInt
  <2>3. version[q] < archiveCount[s]
    BY <2>1, <2>2, Transitive
  <2>4. archive'[s][version[q]] = archive[s][version[q]]
    BY <2>1, <2>3 DEF Rely
  <2> QED BY <2>4, <1>2 DEF VerifyOK
<1>8. At(q, "verify", "check")' => limit'[q] <= version'[q]
  BY DEF VerifyOK, At, Frame
<1>9. slot'[q] = s
  BY DEF Frame
<1> QED BY <1>3, <1>4, <1>5, <1>6, <1>7, <1>8, <1>9 DEF VerifyOK

\* A process that is not in verify has nothing to show.
LEMMA NotVerifying ==
  ASSUME NEW p \in Procs, ~Verifying(p)'
  PROVE  VerifyOK(p)'
BY DEF Verifying, Scanning, VerifyOK, At

\* A key that is still accepted is the seed or in a usable version.
LEMMA SteadyAccepted ==
  ASSUME TypeOK, CallsWellFormed, NEW p \in Procs, Reader(p), NEW k \in steady[p]
  PROVE  seed[slot[p]] = k \/ Usable(slot[p], k) # {}
<1>1. slot[p] \in Slots
  BY StepInRange DEF Reader
<1>2. k \in Keys /\ Accepts(slot[p], k)
  BY <1>1 DEF Reader, HistoryOK, Watched, Accepted
<1> QED BY <1>1, <1>2, AcceptsOwn DEF Reader

\* When the loop is over, every steady key is a candidate.
LEMMA SteadyCandidates ==
  ASSUME TypeOK, CallsWellFormed, NEW p \in Procs, Reader(p), VerifyOK(p),
         At(p, "verify", "check")
  PROVE  steady[p] \subseteq candidates[p]
<1> SUFFICES ASSUME NEW k \in steady[p], k \notin candidates[p]
             PROVE  FALSE
  OBVIOUS
<1>1. StillAhead(p, k) /\ limit[p] <= version[p]
  BY DEF VerifyOK, Scanning, At
<1>2. PICK v \in Versions : v \in ArchivedAt(slot[p], k) /\ v \notin revokedVersions[slot[p]]
  BY <1>1, SteadyAccepted DEF StillAhead, Usable, ArchivedAt
<1>3. v < limit[p]
  BY <1>1, <1>2 DEF StillAhead
<1>4. v \in Int /\ limit[p] \in Int /\ version[p] \in Int
  BY VersionAssumption DEF TypeOK, ProviderTypeOK, RegisterTypeOK
<1>5. v < version[p]
  BY <1>1, <1>3, <1>4, Transitive
<1> QED BY <1>1, <1>2, <1>5 DEF StillAhead

\* Without a key the slot accepts nothing.
LEMMA NoSeedNoKeys ==
  ASSUME TypeOK, CallsWellFormed, NEW p \in Procs, Reader(p), seed[slot[p]] = NoKey
  PROVE  steady[p] = {}
BY SteadyKnown DEF Reader, EntriesOK

\* The keystore read of the current key yields a key that is accepted now.
LEMMA VerifySeed ==
  ASSUME TypeOK, CallsWellFormed, Track, NEW p \in Procs, Reader(p), VerifyOK(p),
         op[p] = "verify", PublicSeed(p)
  PROVE  VerifyOK(p)'
<1> DEFINE s == slot[p]
<1>1. s \in Slots /\ pc[p] # "idle" /\ Verifying(p)
  BY StepInRange DEF Reader, Verifying, PublicSeed
<1>2. CASE seed[s] = NoKey
  BY <1>2, NotVerifying
    DEF PublicSeed, HavePublicKey, Goto, End, Verifying, TypeOK, ProviderTypeOK, ControlTypeOK
<1>3. CASE seed[s] # NoKey
  <2>1. /\ pc'[p] = "count" /\ candidates'[p] = {seed[s]}
        /\ op' = op /\ slot' = slot /\ request' = request /\ seed' = seed
    BY <1>1, <1>3 DEF PublicSeed, HavePublicKey, Goto, End, Same, keystore, TypeOK,
      ProviderTypeOK, ControlTypeOK, RegisterTypeOK
  <2>2. seed[s] \in Keys
    BY <1>1, <1>3, ReadTypes DEF TypeOK, ProviderTypeOK
  <2>3. seed[s] \in Accepted[s]
    BY <1>1, <2>2, AcceptsOwn DEF Reader, Accepted
  <2>4. seed[s] \in seen'[p]
    BY <1>1, <2>1, <2>3, Narrowing DEF Reader, HistoryOK, Watched
  <2> QED BY <1>1, <2>1, <2>4 DEF VerifyOK, Verifying, Scanning, At, BoundTo
<1> QED BY <1>2, <1>3

\* The count bounds every version the archive holds at that moment.
LEMMA VerifyCounted ==
  ASSUME TypeOK, CallsWellFormed, Track, NEW p \in Procs, Reader(p), VerifyOK(p),
         VerifyCount(p)
  PROVE  VerifyOK(p)'
<1> DEFINE s == slot[p]
<1>1. s \in Slots /\ pc[p] # "idle" /\ Verifying(p) /\ At(p, "verify", "count")
  BY StepInRange DEF Reader, Verifying, VerifyCount, At
<1>2. /\ pc'[p] = IF archiveCount[s] = 0 THEN "check" ELSE "archived flag"
      /\ limit'[p] = archiveCount[s] /\ version'[p] = 0
      /\ candidates' = candidates /\ request' = request /\ op' = op /\ slot' = slot
      /\ seed' = seed /\ archive' = archive /\ archiveCount' = archiveCount
      /\ revokedVersions' = revokedVersions
  BY <1>1 DEF VerifyCount, Goto, Same, keystore, TypeOK, ProviderTypeOK, ControlTypeOK,
    RegisterTypeOK
<1>3. steady'[p] \subseteq steady[p] /\ seen[p] \subseteq seen'[p]
  BY <1>1, <1>2, Narrowing
<1>4. archiveCount[s] \in Nat
  BY <1>1, VersionAssumption DEF TypeOK, ProviderTypeOK, KeystoreTypeOK
<1>5. archiveCount[s] <= archiveCount[s] /\ (archiveCount[s] = 0 => archiveCount[s] <= 0)
  BY <1>4
<1>6. \A v \in Versions : ~(v < 0)
  BY VersionAssumption
<1>7. \A k \in steady'[p] \ candidates[p] : StillAhead(p, k)'
  BY <1>1, <1>2, <1>3, <1>6 DEF StillAhead, ArchivedAt, VerifyOK
<1>8. candidates[p] \subseteq seen'[p] /\ BoundTo(s, request[p].env)
  BY <1>1, <1>3 DEF VerifyOK
<1> QED BY <1>1, <1>2, <1>5, <1>7, <1>8 DEF VerifyOK, Verifying, Scanning, At, BoundTo

\* A version that is not revoked when its flag is read has an accepted key.
LEMMA VerifyFlagged ==
  ASSUME TypeOK, CallsWellFormed, Track, NEW p \in Procs, Reader(p), VerifyOK(p),
         VerifyFlag(p)
  PROVE  VerifyOK(p)'
<1> DEFINE s == slot[p]
           u == version[p]
<1>1. s \in Slots /\ pc[p] # "idle" /\ Verifying(p) /\ At(p, "verify", "archived flag")
  BY StepInRange DEF Reader, Verifying, VerifyFlag, At
<1>2. /\ candidates' = candidates /\ request' = request /\ op' = op /\ slot' = slot
      /\ seed' = seed /\ archive' = archive /\ archiveCount' = archiveCount
      /\ revokedVersions' = revokedVersions /\ limit' = limit
  BY DEF VerifyFlag, Same, keystore
<1>3. u \in Versions /\ u < limit[p] /\ limit[p] <= archiveCount[s]
  BY <1>1, ScanInRange DEF At, CallsWellFormed, VerifyOK, Scanning, TypeOK, ProviderTypeOK
<1>4. u \in Int /\ limit[p] \in Int /\ archiveCount[s] \in Int
  <2>1. version[p] \in 0 .. MaxVersion /\ limit[p] \in 0 .. MaxVersion
    BY StepIndices DEF TypeOK, ProviderTypeOK
  <2>2. archiveCount[s] \in 0 .. MaxVersion
    BY <1>1, ReadTypes DEF TypeOK, ProviderTypeOK
  <2> QED BY <2>1, <2>2, VersionAssumption
<1>5. u < archiveCount[s]
  BY <1>3, <1>4, Transitive
<1>6. steady'[p] \subseteq steady[p] /\ seen[p] \subseteq seen'[p]
  <2>1. pc'[p] # "idle"
    BY DEF VerifyFlag, NextVersion, Goto, TypeOK, ProviderTypeOK, ControlTypeOK
  <2> QED BY <1>1, <2>1, Narrowing
<1>7. candidates[p] \subseteq seen'[p] /\ BoundTo(s, request[p].env)
  BY <1>1, <1>6 DEF VerifyOK
<1>8. CASE u \in revokedVersions[s]
  <2>1. /\ version'[p] = u + 1
        /\ pc'[p] = IF u + 1 < limit[p] THEN "archived flag" ELSE "check"
    BY <1>8 DEF VerifyFlag, NextVersion, Goto, TypeOK, ProviderTypeOK, ControlTypeOK,
      RegisterTypeOK
  <2>2. pc'[p] = "check" => limit[p] <= u + 1
    <3>1. u + 1 \in Int
      BY StepIndices, IndexIsInt DEF TypeOK, ProviderTypeOK
    <3>2. pc'[p] = "check" => ~(u + 1 < limit[p])
      BY <2>1
    <3> QED BY <1>4, <3>1, <3>2, NotBelow
  <2>3. \A v \in Versions : v < u + 1 => v < u \/ v = u
    BY <1>4, VersionAssumption
  <2>4. \A k \in steady[p] \ candidates[p] : StillAhead(p, k)
    BY <1>1 DEF VerifyOK, Scanning, At
  <2>5. \A k \in steady'[p] \ candidates[p] : StillAhead(p, k)'
    BY <1>2, <1>6, <1>8, <2>1, <2>3, <2>4 DEF StillAhead, ArchivedAt
  <2> QED BY <1>1, <1>2, <1>3, <1>7, <2>1, <2>2, <2>5
    DEF VerifyOK, Verifying, Scanning, At, BoundTo
<1>9. CASE u \notin revokedVersions[s]
  <2>1. version' = version /\ pc'[p] = "archived key"
    BY <1>9 DEF VerifyFlag, NextVersion, Goto, TypeOK, ProviderTypeOK, ControlTypeOK
  <2>2. \A k \in steady'[p] \ candidates[p] : StillAhead(p, k)'
    BY <1>1, <1>2, <1>6, <2>1 DEF StillAhead, ArchivedAt, VerifyOK, Scanning, At
  <2>3. archive[s][u] \in Keys
    BY <1>1, <1>3, <1>5 DEF Reader, EntriesOK, TypeOK
  <2>4. u \in Usable(s, archive[s][u])
    BY <1>3, <1>5, <1>9 DEF Usable, ArchivedAt
  <2>5. archive[s][u] \in Accepted[s]
    BY <1>1, <2>3, <2>4, AcceptsOwn DEF Reader, Accepted
  <2>6. archive[s][u] \in seen'[p]
    BY <1>1, <1>6, <2>5 DEF Reader, HistoryOK, Watched
  <2> QED BY <1>1, <1>2, <1>3, <1>7, <2>1, <2>2, <2>6
    DEF VerifyOK, Verifying, Scanning, At, BoundTo
<1> QED BY <1>8, <1>9

\* The archived key joins the candidates.
LEMMA VerifyRead ==
  ASSUME TypeOK, CallsWellFormed, Track, NEW p \in Procs, Reader(p), VerifyOK(p),
         VerifyKey(p)
  PROVE  VerifyOK(p)'
<1> DEFINE s == slot[p]
           u == version[p]
<1>1. s \in Slots /\ pc[p] # "idle" /\ Verifying(p) /\ At(p, "verify", "archived key")
  BY StepInRange DEF Reader, Verifying, VerifyKey, At
<1>2. /\ request' = request /\ op' = op /\ slot' = slot
      /\ seed' = seed /\ archive' = archive /\ archiveCount' = archiveCount
      /\ revokedVersions' = revokedVersions /\ limit' = limit
  BY DEF VerifyKey, Same, keystore
<1>3. u \in Versions /\ u < limit[p] /\ limit[p] <= archiveCount[s]
  BY <1>1, ScanInRange DEF At, CallsWellFormed, VerifyOK, Scanning, TypeOK, ProviderTypeOK
<1>4. u \in Int /\ limit[p] \in Int /\ archiveCount[s] \in Int
  <2>1. version[p] \in 0 .. MaxVersion /\ limit[p] \in 0 .. MaxVersion
    BY StepIndices DEF TypeOK, ProviderTypeOK
  <2>2. archiveCount[s] \in 0 .. MaxVersion
    BY <1>1, ReadTypes DEF TypeOK, ProviderTypeOK
  <2> QED BY <2>1, <2>2, VersionAssumption
<1>5. u < archiveCount[s]
  BY <1>3, <1>4, Transitive
<1>6. archive[s][u] \in Keys
  BY <1>1, <1>3, <1>5 DEF Reader, EntriesOK, TypeOK
<1>7. /\ candidates'[p] = candidates[p] \cup {archive[s][u]}
      /\ version'[p] = u + 1
      /\ pc'[p] = IF u + 1 < limit[p] THEN "archived flag" ELSE "check"
  <2>1. {archive[s][u]} \ {NoKey} = {archive[s][u]}
    BY <1>6, SentinelAssumption
  <2> QED BY <2>1 DEF VerifyKey, NextVersion, Goto, TypeOK, ProviderTypeOK,
    ControlTypeOK, RegisterTypeOK
<1>8. steady'[p] \subseteq steady[p] /\ seen[p] \subseteq seen'[p]
  BY <1>1, <1>7, Narrowing
<1>9. candidates'[p] \subseteq seen'[p] /\ BoundTo(s, request[p].env)
  BY <1>1, <1>7, <1>8 DEF VerifyOK
<1>10. \A k \in steady'[p] \ candidates'[p] : StillAhead(p, k)'
  <2> SUFFICES ASSUME NEW k \in steady[p], k \notin candidates[p], k # archive[s][u]
               PROVE  StillAhead(p, k)'
    BY <1>7, <1>8
  <2>1. StillAhead(p, k)
    BY <1>1 DEF VerifyOK, Scanning, At
  <2>2. \A v \in Versions : v < u + 1 => v < u \/ v = u
    BY <1>4, VersionAssumption
  <2> QED BY <1>2, <1>7, <2>1, <2>2 DEF StillAhead, ArchivedAt
<1>11. pc'[p] = "check" => limit[p] <= u + 1
  <2>1. u + 1 \in Int
    BY StepIndices, IndexIsInt DEF TypeOK, ProviderTypeOK
  <2>2. pc'[p] = "check" => ~(u + 1 < limit[p])
    BY <1>7
  <2> QED BY <1>4, <2>1, <2>2, NotBelow
<1> QED BY <1>1, <1>2, <1>3, <1>7, <1>9, <1>10, <1>11
  DEF VerifyOK, Verifying, Scanning, At, BoundTo

\* verify begins with no candidate, at the current key: no flag is set.
LEMMA CallVerify ==
  ASSUME TypeOK, NEW p \in Procs, Call(p), \A s \in Slots : EntriesOK(s)
  PROVE  VerifyOK(p)'
<1>1. PICK s \in Slots :
        \/ Generate(p, s) \/ Rotate(p, s) \/ Revoke(p, s)
        \/ \E v \in Versions : RevokeVersion(p, s, v)
        \/ RegisterPublicKey(p, s) \/ PublicKey(p, s)
        \/ \E env \in Envelopes : Sign(p, s, env)
        \/ \E r \in Requests : Presentable(r) /\ Verify(p, s, r)
  BY DEF Call
<1>2. CASE Generate(p, s)
  BY <1>2, NotVerifying
    DEF Generate, Verifying, Goto, End, Begin, Same, At, TypeOK, ProviderTypeOK,
        ControlTypeOK
<1>3. CASE Rotate(p, s)
  BY <1>3, NotVerifying
    DEF Rotate, Verifying, Goto, End, Begin, Same, At, TypeOK, ProviderTypeOK,
        ControlTypeOK
<1>4. CASE Revoke(p, s)
  BY <1>4, NotVerifying
    DEF Revoke, Verifying, Goto, End, Begin, Same, At, TypeOK, ProviderTypeOK,
        ControlTypeOK
<1>5. CASE \E v \in Versions : RevokeVersion(p, s, v)
  BY <1>5, NotVerifying
    DEF RevokeVersion, Verifying, Goto, End, Begin, Same, At, TypeOK,
        ProviderTypeOK, ControlTypeOK
<1>6. CASE RegisterPublicKey(p, s)
  BY <1>6, NotVerifying
    DEF RegisterPublicKey, Verifying, Goto, End, Begin, Same, At, TypeOK,
        ProviderTypeOK, ControlTypeOK
<1>7. CASE PublicKey(p, s)
  BY <1>7, NotVerifying
    DEF PublicKey, Verifying, Goto, End, Begin, Same, At, TypeOK,
        ProviderTypeOK, ControlTypeOK
<1>8. CASE \E env \in Envelopes : Sign(p, s, env)
  BY <1>8, NotVerifying
    DEF Sign, Verifying, Goto, End, Begin, Same, At, TypeOK, ProviderTypeOK,
        ControlTypeOK
<1>9. CASE \E r \in Requests : Presentable(r) /\ Verify(p, s, r)
  <2>1. PICK r \in Requests : Verify(p, s, r)
    BY <1>9
  <2>2. op'[p] = "verify" /\ slot'[p] = s /\ request'[p] = r /\ candidates'[p] = {}
    BY <2>1 DEF Verify, Begin, TypeOK, ProviderTypeOK, ControlTypeOK, RegisterTypeOK
  <2>3. \/ pc'[p] = "returned"
        \/ pc'[p] = "current" /\ BoundTo(s, r.env)
    BY <2>1 DEF Verify, Goto, End, EntriesOK, TypeOK, ProviderTypeOK, ControlTypeOK
  <2> QED BY <2>2, <2>3 DEF VerifyOK, Verifying, Scanning, At, BoundTo
<1> QED BY <1>1, <1>2, <1>3, <1>4, <1>5, <1>6, <1>7, <1>8, <1>9

\* The access a verifying process makes keeps what it has collected.
LEMMA StepVerify ==
  ASSUME TypeOK, CallsWellFormed, Track, NEW p \in Procs, Reader(p), VerifyOK(p), Step(p)
  PROVE  VerifyOK(p)'
<1>1. CASE GenerateStore(p)
  BY <1>1, NotVerifying
    DEF GenerateStore, Verifying, Goto, End, Begin, Same, At, TypeOK,
        ProviderTypeOK, ControlTypeOK
<1>2. CASE RotateCount(p)
  BY <1>2, NotVerifying
    DEF RotateCount, Verifying, Goto, End, Begin, Same, At, TypeOK,
        ProviderTypeOK, ControlTypeOK
<1>3. CASE RotateArchive(p)
  BY <1>3, NotVerifying
    DEF RotateArchive, Verifying, Goto, End, Begin, Same, At, TypeOK,
        ProviderTypeOK, ControlTypeOK
<1>4. CASE RotateBump(p)
  BY <1>4, NotVerifying
    DEF RotateBump, Verifying, Goto, End, Begin, Same, At, TypeOK,
        ProviderTypeOK, ControlTypeOK
<1>5. CASE RotateStore(p)
  BY <1>5, NotVerifying
    DEF RotateStore, Verifying, Goto, End, Begin, Same, At, TypeOK,
        ProviderTypeOK, ControlTypeOK
<1>6. CASE RevokeProbe(p)
  BY <1>6, NotVerifying
    DEF RevokeProbe, Verifying, Goto, End, Begin, Same, At, TypeOK,
        ProviderTypeOK, ControlTypeOK
<1>7. CASE RevokeFlag(p)
  BY <1>7, NotVerifying
    DEF RevokeFlag, Verifying, Goto, End, Begin, Same, At, TypeOK,
        ProviderTypeOK, ControlTypeOK
<1>8. CASE PublicRevoked(p)
  <2>1. /\ pc'[p] \in {"returned", "registered"} /\ Verifying(p)
        /\ op' = op /\ slot' = slot /\ request' = request /\ candidates' = candidates
        /\ pc[p] # "idle" /\ pc'[p] # "idle"
    BY <1>8 DEF PublicRevoked, Goto, End, Same, At, Verifying, locals, TypeOK,
      ProviderTypeOK, ControlTypeOK
  <2> QED BY <2>1, Narrowing DEF VerifyOK, Verifying, Scanning, At, BoundTo
<1>9. CASE PublicRegistered(p)
  <2>1. slot[p] \in Slots /\ pubkey[slot[p]] = NoKey /\ pc[p] = "registered"
    BY <1>9, StepInRange DEF PublicRegistered, Reader, EntriesOK
  <2>2. /\ pc'[p] = "seed" /\ candidates' = candidates
        /\ op' = op /\ slot' = slot /\ request' = request
    BY <1>9, <2>1 DEF PublicRegistered, Goto, Same, TypeOK, ProviderTypeOK, ControlTypeOK
  <2> QED BY <2>1, <2>2, Narrowing DEF VerifyOK, Verifying, Scanning, At, BoundTo
<1>10. CASE PublicSeed(p)
  <2>1. CASE op[p] = "verify"
    BY <1>10, <2>1, VerifySeed DEF Reader
  <2>2. CASE op[p] # "verify"
    BY <1>10, <2>2, NotVerifying
      DEF PublicSeed, HavePublicKey, Verifying, Same
  <2> QED BY <2>1, <2>2
<1>11. CASE VerifyCount(p)
  BY <1>11, VerifyCounted
<1>12. CASE VerifyFlag(p)
  BY <1>12, VerifyFlagged
<1>13. CASE VerifyKey(p)
  BY <1>13, VerifyRead
<1>14. CASE VerifyCheck(p)
  BY <1>14, NotVerifying
    DEF VerifyCheck, Verifying, Goto, End, Begin, Same, At, TypeOK,
        ProviderTypeOK, ControlTypeOK
<1>15. CASE Return(p)
  BY <1>15, NotVerifying
    DEF Return, Clear, Verifying, Goto, End, Begin, Same, At, TypeOK,
        ProviderTypeOK, ControlTypeOK
<1> QED BY <1>1, <1>2, <1>3, <1>4, <1>5, <1>6, <1>7, <1>8, <1>9, <1>10, <1>11,
  <1>12, <1>13, <1>14, <1>15 DEF Step

LEMMA VerifyStep ==
  ASSUME TypeOK, OwnKeysOnly, CallsWellFormed, TypeOK', Track,
         \A s \in Slots : EntriesOK(s), NEW p \in Procs, MinterOK(p), StepOf(p),
         NEW q \in Procs, HistoryOK(q), VerifyOK(q)
  PROVE  VerifyOK(q)'
<1>1. CASE pc[q] # "idle"
  <2>1. slot[q] \in Slots /\ Reader(q)
    BY <1>1, StepInRange DEF Reader
  <2>2. CASE q # p
    <3>1. Frame(q) /\ Rely(slot[q])
      BY <2>1, <2>2, FrameOthers, RelyStep DEF TypeOK
    <3> QED BY <2>1, <3>1, VerifyFrame DEF TypeOK
  <2>3. CASE q = p /\ Step(p)
    BY <2>1, <2>3, StepVerify
  <2>4. CASE q = p /\ Call(p)
    BY <2>4, CallVerify
  <2>5. CASE q = p /\ Abort(p)
    BY <2>5, NotVerifying
      DEF Abort, Clear, Verifying, TypeOK, ProviderTypeOK, ControlTypeOK
  <2> QED BY <2>2, <2>3, <2>4, <2>5 DEF StepOf
<1>2. CASE pc[q] = "idle"
  <2>1. CASE q # p
    <3>1. pc'[q] = "idle"
      BY <1>2, <2>1, FrameOthers DEF Frame, TypeOK
    <3> QED BY <3>1, NotVerifying DEF Verifying
  <2>2. CASE q = p
    BY <1>2, <2>2, StepActive, CallVerify DEF StepOf, Abort
  <2> QED BY <2>1, <2>2
<1> QED BY <1>1, <1>2

-----------------------------------------------------------------------------
(* The answers.                                                            *)

ReceiptOK(p) ==
  Answered(p, "verify") /\ outcome[p] = "Receipt" =>
    /\ Genuine(request[p])
    /\ BoundTo(slot[p], request[p].env)
    /\ request[p].key \in seen[p]

Deserved(p) ==
  /\ request[p].scheme = "brine"
  /\ Genuine(request[p])
  /\ BoundTo(slot[p], request[p].env)
  /\ request[p].env \notin Unserializable
  /\ request[p].key \in steady[p] \ disowned[slot[p]]

SteadyOK(p) == Answered(p, "verify") /\ Deserved(p) => outcome[p] = "Receipt"

AnswerOK(p) == ReceiptOK(p) /\ SteadyOK(p)

LEMMA Answers ==
  ReceiptSound /\ SteadyKeyVerifies <=> \A p \in Procs : AnswerOK(p)
BY DEF ReceiptSound, SteadyKeyVerifies, AnswerOK, ReceiptOK, SteadyOK, Deserved

LEMMA NotAnswered ==
  ASSUME NEW p \in Procs, ~Answered(p, "verify")'
  PROVE  AnswerOK(p)'
BY DEF AnswerOK, ReceiptOK, SteadyOK

\* An answer stands while the caller has not taken it.
LEMMA AnswerFrame ==
  ASSUME TypeOK, CallsWellFormed, Track, NEW q \in Procs, Frame(q), AnswerOK(q)
  PROVE  AnswerOK(q)'
<1> SUFFICES ASSUME Answered(q, "verify")
             PROVE  AnswerOK(q)'
  BY NotAnswered DEF Answered, Frame
<1>1. steady'[q] \subseteq steady[q] /\ seen[q] \subseteq seen'[q]
  BY Narrowing DEF Answered, Frame
<1>2. slot[q] \in Slots
  BY StepInRange DEF Answered
<1>3. disowned[slot[q]] \subseteq disowned'[slot[q]]
  BY <1>2 DEF Track
<1>4. /\ slot'[q] = slot[q] /\ request'[q] = request[q] /\ outcome'[q] = outcome[q]
  BY DEF Frame
<1>5. ReceiptOK(q)'
  BY <1>1, <1>4 DEF AnswerOK, ReceiptOK, Answered, BoundTo, Genuine
<1>6. SteadyOK(q)'
  BY <1>1, <1>3, <1>4 DEF AnswerOK, SteadyOK, Deserved, Answered, BoundTo, Genuine
<1> QED BY <1>5, <1>6 DEF AnswerOK

\* verify answers at once only what no key could change.
LEMMA CallAnswer ==
  ASSUME TypeOK, NEW p \in Procs, Call(p)
  PROVE  AnswerOK(p)'
<1>1. PICK s \in Slots :
        \/ Generate(p, s) \/ Rotate(p, s) \/ Revoke(p, s)
        \/ \E v \in Versions : RevokeVersion(p, s, v)
        \/ RegisterPublicKey(p, s) \/ PublicKey(p, s)
        \/ \E env \in Envelopes : Sign(p, s, env)
        \/ \E r \in Requests : Presentable(r) /\ Verify(p, s, r)
  BY DEF Call
<1>2. CASE Generate(p, s)
  BY <1>2, NotAnswered
    DEF Generate, Answered, Goto, End, Begin, Same, At, TypeOK, ProviderTypeOK,
        ControlTypeOK
<1>3. CASE Rotate(p, s)
  BY <1>3, NotAnswered
    DEF Rotate, Answered, Goto, End, Begin, Same, At, TypeOK, ProviderTypeOK,
        ControlTypeOK
<1>4. CASE Revoke(p, s)
  BY <1>4, NotAnswered
    DEF Revoke, Answered, Goto, End, Begin, Same, At, TypeOK, ProviderTypeOK,
        ControlTypeOK
<1>5. CASE \E v \in Versions : RevokeVersion(p, s, v)
  BY <1>5, NotAnswered
    DEF RevokeVersion, Answered, Goto, End, Begin, Same, At, TypeOK,
        ProviderTypeOK, ControlTypeOK
<1>6. CASE RegisterPublicKey(p, s)
  BY <1>6, NotAnswered
    DEF RegisterPublicKey, Answered, Goto, End, Begin, Same, At, TypeOK,
        ProviderTypeOK, ControlTypeOK
<1>7. CASE PublicKey(p, s)
  BY <1>7, NotAnswered
    DEF PublicKey, Answered, Goto, End, Begin, Same, At, TypeOK, ProviderTypeOK,
        ControlTypeOK
<1>8. CASE \E env \in Envelopes : Sign(p, s, env)
  BY <1>8, NotAnswered
    DEF Sign, Answered, Goto, End, Begin, Same, At, TypeOK, ProviderTypeOK,
        ControlTypeOK
<1>9. CASE \E r \in Requests : Presentable(r) /\ Verify(p, s, r)
  <2>1. PICK r \in Requests : Verify(p, s, r)
    BY <1>9
  <2>2. slot'[p] = s /\ request'[p] = r
    BY <2>1 DEF Verify, Begin, TypeOK, ProviderTypeOK, ControlTypeOK, RegisterTypeOK
  <2>3. \/ pc'[p] # "returned"
        \/ /\ r.scheme # "brine" \/ ~BoundTo(s, r.env) \/ r.env \in Unserializable
           /\ outcome'[p] # "Receipt"
    BY <2>1 DEF Verify, Goto, End, TypeOK, ProviderTypeOK, ControlTypeOK
  <2> QED BY <2>2, <2>3
    DEF AnswerOK, ReceiptOK, SteadyOK, Deserved, Answered, BoundTo
<1> QED BY <1>1, <1>2, <1>3, <1>4, <1>5, <1>6, <1>7, <1>8, <1>9

\* The last access of verify gives the answer its candidates call for.
LEMMA StepAnswer ==
  ASSUME TypeOK, CallsWellFormed, Track, NEW p \in Procs, Reader(p), VerifyOK(p), Step(p)
  PROVE  AnswerOK(p)'
<1>1. CASE GenerateStore(p)
  BY <1>1, NotAnswered
    DEF GenerateStore, Answered, Goto, End, Begin, Same, At, TypeOK,
        ProviderTypeOK, ControlTypeOK
<1>2. CASE RotateCount(p)
  BY <1>2, NotAnswered
    DEF RotateCount, Answered, Goto, End, Begin, Same, At, TypeOK,
        ProviderTypeOK, ControlTypeOK
<1>3. CASE RotateArchive(p)
  BY <1>3, NotAnswered
    DEF RotateArchive, Answered, Goto, End, Begin, Same, At, TypeOK,
        ProviderTypeOK, ControlTypeOK
<1>4. CASE RotateBump(p)
  BY <1>4, NotAnswered
    DEF RotateBump, Answered, Goto, End, Begin, Same, At, TypeOK,
        ProviderTypeOK, ControlTypeOK
<1>5. CASE RotateStore(p)
  BY <1>5, NotAnswered
    DEF RotateStore, Answered, Goto, End, Begin, Same, At, TypeOK,
        ProviderTypeOK, ControlTypeOK
<1>6. CASE RevokeProbe(p)
  BY <1>6, NotAnswered
    DEF RevokeProbe, Answered, Goto, End, Begin, Same, At, TypeOK,
        ProviderTypeOK, ControlTypeOK
<1>7. CASE RevokeFlag(p)
  BY <1>7, NotAnswered
    DEF RevokeFlag, Answered, Goto, End, Begin, Same, At, TypeOK,
        ProviderTypeOK, ControlTypeOK
<1>8. CASE PublicRevoked(p)
  <2>1. ~revoked[slot[p]]
    BY DEF Reader, EntriesOK
  <2> QED BY <1>8, <2>1, NotAnswered
    DEF PublicRevoked, Answered, Goto, TypeOK, ProviderTypeOK, ControlTypeOK
<1>9. CASE PublicRegistered(p)
  <2>1. pubkey[slot[p]] = NoKey
    BY DEF Reader, EntriesOK
  <2> QED BY <1>9, <2>1, NotAnswered
    DEF PublicRegistered, Answered, Goto, TypeOK, ProviderTypeOK, ControlTypeOK
<1>10. CASE PublicSeed(p)
  <2>1. CASE op[p] = "public_key"
    BY <1>10, <2>1, NotAnswered DEF PublicSeed, Same, Answered
  <2>2. CASE op[p] # "public_key" /\ seed[slot[p]] # NoKey
    BY <1>10, <2>2, NotAnswered DEF PublicSeed, HavePublicKey, Goto, Answered, TypeOK,
      ProviderTypeOK, ControlTypeOK
  <2>3. CASE seed[slot[p]] = NoKey
    <3>1. pc'[p] = "returned" /\ outcome'[p] = "IDENTITY_NOT_FOUND"
      BY <1>10, <2>3
        DEF PublicSeed, HavePublicKey, End, TypeOK, ProviderTypeOK, ControlTypeOK
    <3>2. steady'[p] = {}
      BY <2>3, <3>1, NoSeedNoKeys, Narrowing DEF Reader
    <3> QED BY <3>1, <3>2 DEF AnswerOK, ReceiptOK, SteadyOK, Deserved
  <2> QED BY <2>1, <2>2, <2>3
<1>11. CASE VerifyCount(p)
  BY <1>11, NotAnswered
    DEF VerifyCount, Answered, Goto, End, Begin, Same, At, TypeOK,
        ProviderTypeOK, ControlTypeOK
<1>12. CASE VerifyFlag(p)
  BY <1>12, NotAnswered
    DEF VerifyFlag, NextVersion, Answered, Goto, End, Begin, Same, At, TypeOK,
        ProviderTypeOK, ControlTypeOK
<1>13. CASE VerifyKey(p)
  BY <1>13, NotAnswered
    DEF VerifyKey, NextVersion, Answered, Goto, End, Begin, Same, At, TypeOK,
        ProviderTypeOK, ControlTypeOK
<1>14. CASE VerifyCheck(p)
  <2>1. /\ pc'[p] = "returned" /\ slot' = slot /\ request' = request
        /\ outcome'[p] = IF Genuine(request[p]) /\ request[p].key \in candidates[p]
                         THEN "Receipt" ELSE "None"
    BY <1>14 DEF VerifyCheck, End, Same, locals, TypeOK, ProviderTypeOK, ControlTypeOK
  <2>2. steady'[p] \subseteq steady[p] /\ seen[p] \subseteq seen'[p]
    BY <2>1, Narrowing DEF Reader
  <2>3. /\ BoundTo(slot[p], request[p].env)
        /\ candidates[p] \subseteq seen[p]
        /\ steady[p] \subseteq candidates[p]
    BY <1>14, SteadyCandidates DEF VerifyCheck, At, Verifying, VerifyOK
  <2>4. ReceiptOK(p)'
    BY <2>1, <2>2, <2>3 DEF ReceiptOK, Genuine, BoundTo
  <2>5. SteadyOK(p)'
    BY <2>1, <2>2, <2>3 DEF SteadyOK, Deserved, Genuine, BoundTo
  <2> QED BY <2>4, <2>5 DEF AnswerOK
<1>15. CASE Return(p)
  BY <1>15, NotAnswered
    DEF Return, Clear, Answered, Goto, End, Begin, Same, At, TypeOK,
        ProviderTypeOK, ControlTypeOK
<1> QED BY <1>1, <1>2, <1>3, <1>4, <1>5, <1>6, <1>7, <1>8, <1>9, <1>10, <1>11,
  <1>12, <1>13, <1>14, <1>15 DEF Step

LEMMA AnswerStep ==
  ASSUME TypeOK, CallsWellFormed, Track, \A s \in Slots : EntriesOK(s),
         NEW p \in Procs, StepOf(p),
         NEW q \in Procs, HistoryOK(q), VerifyOK(q), AnswerOK(q)
  PROVE  AnswerOK(q)'
<1>1. CASE q # p
  BY <1>1, FrameOthers, AnswerFrame DEF TypeOK
<1>2. CASE q = p /\ Step(p)
  <2>1. Reader(p)
    BY <1>2, StepActive, StepInRange DEF Reader
  <2> QED BY <1>2, <2>1, StepAnswer
<1>3. CASE q = p /\ Call(p)
  BY <1>3, CallAnswer
<1>4. CASE q = p /\ Abort(p)
  BY <1>4, NotAnswered
    DEF Abort, Clear, Answered, TypeOK, ProviderTypeOK, ControlTypeOK
<1> QED BY <1>1, <1>2, <1>3, <1>4 DEF StepOf

-----------------------------------------------------------------------------
(* The invariant.                                                          *)

LEMMA IndInvInit ==
  Init => IndInv
<1> SUFFICES ASSUME Init PROVE IndInv
  OBVIOUS
<1>1. TypeOK /\ CallsWellFormed
  BY ProviderTypeInit DEF Init, HistoryInit, TypeOK
<1>2. ASSUME NEW s \in Slots PROVE EntriesOK(s)
  <2>1. \A v \in Versions : ~(v < 0)
    BY VersionAssumption
  <2> QED BY <2>1 DEF Init, ProviderInit, HistoryInit, EntriesOK
<1>3. ASSUME NEW p \in Procs PROVE MinterOK(p) /\ HistoryOK(p) /\ VerifyOK(p)
  BY DEF Init, ProviderInit, MinterOK, HistoryOK, VerifyOK, Verifying, Scanning,
    Rotating, At, Watched
<1>4. ReceiptSound /\ SteadyKeyVerifies
  BY DEF Init, ProviderInit, ReceiptSound, SteadyKeyVerifies, Answered
<1> QED BY <1>1, <1>2, <1>3, <1>4 DEF IndInv

LEMMA IndInvNext ==
  ASSUME SingleMinter, OwnKeysOnly, IndInv, Next
  PROVE  IndInv'
<1>1. PICK p \in Procs : StepOf(p)
  BY DEF Next, ProviderNext, StepOf
<1>2. Track /\ TypeOK /\ CallsWellFormed /\ (\A s \in Slots : EntriesOK(s))
  BY DEF Next, IndInv
<1>3. \A q \in Procs : MinterOK(q) /\ HistoryOK(q) /\ VerifyOK(q) /\ AnswerOK(q)
  BY Answers DEF IndInv
<1>4. TypeOK' /\ CallsWellFormed'
  BY <1>2, ProviderTypes, HistoryTypes DEF Next, TypeOK
<1>5. \A s \in Slots : EntriesOK(s)'
  BY <1>1, <1>2, <1>3, EntriesStep
<1>6. \A q \in Procs : MinterOK(q)'
  BY <1>1, <1>2, <1>3, MinterStep
<1>7. \A q \in Procs : HistoryOK(q)'
  BY <1>2, <1>3, HistoryStep
<1>8. \A q \in Procs : VerifyOK(q)'
  BY <1>1, <1>2, <1>3, <1>4, VerifyStep
<1>9. \A q \in Procs : AnswerOK(q)'
  BY <1>1, <1>2, <1>3, AnswerStep
<1>10. ReceiptSound' /\ SteadyKeyVerifies'
  BY <1>9, Answers DEF ReceiptSound, SteadyKeyVerifies, AnswerOK, ReceiptOK, SteadyOK,
    Deserved
<1> QED BY <1>4, <1>5, <1>6, <1>7, <1>8, <1>10 DEF IndInv

LEMMA IndInvStutter ==
  ASSUME IndInv, UNCHANGED vars
  PROVE  IndInv'
<1>1. TypeOK' /\ CallsWellFormed'
  BY DEF IndInv, vars, provider, keystore, world, locals, history, TypeOK,
    ProviderTypeOK, KeystoreTypeOK, ControlTypeOK, RegisterTypeOK, CallsWellFormed
<1>2. ASSUME NEW s \in Slots PROVE EntriesOK(s)'
  BY DEF IndInv, vars, provider, keystore, world, history, EntriesOK, ArchivedAt
<1>3. Accepted' = Accepted
  BY DEF vars, provider, keystore, Accepted, Accepts, CurrentKey, Usable, ArchivedAt
<1>4. ASSUME NEW p \in Procs PROVE MinterOK(p)'
  BY DEF IndInv, vars, provider, keystore, locals, MinterOK, Rotating, At, ArchivedAt
<1>5. ASSUME NEW p \in Procs PROVE HistoryOK(p)'
  BY <1>3 DEF IndInv, vars, provider, history, HistoryOK, Watched
<1>6. ASSUME NEW p \in Procs PROVE VerifyOK(p)'
  BY DEF IndInv, vars, provider, keystore, locals, history, VerifyOK, Verifying,
    Scanning, StillAhead, At, ArchivedAt, BoundTo
<1>7. ReceiptSound' /\ SteadyKeyVerifies'
  BY DEF IndInv, vars, provider, locals, history, ReceiptSound, SteadyKeyVerifies,
    Answered, Genuine, BoundTo
<1> QED BY <1>1, <1>2, <1>4, <1>5, <1>6, <1>7 DEF IndInv

\* The invariant holds in every reachable state of every instance in which one
\* process mints and keys are withdrawn by version only.
THEOREM Inductive == ASSUME SingleMinter, OwnKeysOnly PROVE Spec => []IndInv
<1>1. IndInv /\ [Next]_vars => IndInv'
  BY IndInvNext, IndInvStutter
<1> QED BY <1>1, IndInvInit, PTL DEF Spec

-----------------------------------------------------------------------------
(* What follows from it.                                                   *)

\* No key a slot has held is lost: rotate() interrupted anywhere, by the other
\* processes or for good, leaves it accepted or revoked.
THEOREM NoKeyLost ==
  ASSUME SingleMinter, OwnKeysOnly
  PROVE  Spec => []KeysNeverLost
<1>1. IndInv => KeysNeverLost
  <2> SUFFICES ASSUME IndInv, NEW s \in Slots, NEW k \in known[s],
                      ArchivedAt(s, k) \cap revokedVersions[s] = {}
               PROVE  Accepts(s, k)
    BY DEF KeysNeverLost
  <2>1. EntriesOK(s) /\ k \in Keys
    BY DEF IndInv, TypeOK
  <2>2. k = seed[s] \/ ArchivedAt(s, k) # {}
    BY <2>1 DEF EntriesOK
  <2>3. ArchivedAt(s, k) # {} => Usable(s, k) # {}
    BY DEF Usable
  <2> QED BY <2>1, <2>2, <2>3, AcceptsOwn
<1> QED BY <1>1, Inductive, PTL

\* A receipt means a genuine signature, bound to the identity, under a key that
\* was accepted at some moment of the call.
THEOREM ReceiptsSound ==
  ASSUME SingleMinter, OwnKeysOnly
  PROVE  Spec => []ReceiptSound
<1>1. IndInv => ReceiptSound
  BY DEF IndInv
<1> QED BY <1>1, Inductive, PTL

\* A genuine signature under a key that stays accepted gets its receipt, whatever
\* is rotated or withdrawn while verify reads.
THEOREM NoFalseAlarm ==
  ASSUME SingleMinter, OwnKeysOnly
  PROVE  Spec => []SteadyKeyVerifies
<1>1. IndInv => SteadyKeyVerifies
  BY DEF IndInv
<1> QED BY <1>1, Inductive, PTL

-----------------------------------------------------------------------------
(* The keystore implements the abstract key store.                         *)

\* What the entries of a slot determine.
LEMMA Accepting ==
  ASSUME NEW s \in Slots, EntriesOK(s)
  PROVE  Accepted[s] = {k \in Keys : seed[s] = k \/ Usable(s, k) # {}}
BY AcceptsOwn DEF Accepted

LEMMA AcceptingNext ==
  ASSUME NEW s \in Slots, EntriesOK(s)'
  PROVE  Accepted'[s] = {k \in Keys : seed'[s] = k \/ Usable(s, k)' # {}}
<1>1. \A k \in Keys : Accepts(s, k)' <=> (seed'[s] = k \/ Usable(s, k)' # {})
  BY DEF EntriesOK, Accepts, CurrentKey
<1> QED BY <1>1 DEF Accepted

LEMMA Knowing ==
  ASSUME TypeOK, Track, NEW s \in Slots, EntriesOK(s), EntriesOK(s)'
  PROVE  known'[s] = IF seed'[s] = seed[s] \/ seed'[s] = NoKey THEN known[s]
                     ELSE known[s] \cup {seed'[s]}
<1>1. known'[s] = known[s] \cup ({seed'[s]} \ {NoKey})
  BY KnownStep DEF EntriesOK
<1> QED BY <1>1 DEF EntriesOK

\* Each abstract variable is a function of the slot.
LEMMA Updates ==
  ASSUME TypeOK, TypeOK', NEW s \in Slots,
         \A t \in Slots \ {s} : /\ known'[t] = known[t] /\ Accepted'[t] = Accepted[t]
                                /\ Retired'[t] = Retired[t]
  PROVE  /\ known' = [known EXCEPT ![s] = known'[s]]
         /\ Accepted' = [Accepted EXCEPT ![s] = Accepted'[s]]
         /\ Retired' = [Retired EXCEPT ![s] = Retired'[s]]
BY DEF TypeOK, Accepted, Retired

LEMMA Untouched ==
  ASSUME TypeOK, Track, NEW s \in Slots, EntriesOK(s), EntriesOK(s)',
         seed'[s] = seed[s], archiveCount'[s] = archiveCount[s],
         revokedVersions'[s] = revokedVersions[s],
         \A v \in Versions : v < archiveCount[s] => archive'[s][v] = archive[s][v]
  PROVE  known'[s] = known[s] /\ Accepted'[s] = Accepted[s] /\ Retired'[s] = Retired[s]
<1>1. known'[s] = known[s]
  BY Knowing
<1>2. \A k \in Keys : Usable(s, k)' = Usable(s, k)
  BY DEF Usable, ArchivedAt
<1>3. /\ Accepted[s] = {k \in Keys : seed[s] = k \/ Usable(s, k) # {}}
      /\ Accepted'[s] = {k \in Keys : seed'[s] = k \/ Usable(s, k)' # {}}
  BY Accepting, AcceptingNext
<1>4. Retired'[s] = Retired[s]
  BY DEF Retired
<1> QED BY <1>1, <1>2, <1>3, <1>4

\* What withdrawing every version of a key comes to, in entries of the archive.
LEMMA WithdrawnMeans ==
  ASSUME NEW s \in Slots, NEW k \in Keys, NEW W
  PROVE  Abstract!Withdrawn(s, k, W)
           <=> ArchivedAt(s, k) # {} /\ ArchivedAt(s, k) \ W = {}
<1>1. Retired[s] = {<<v, archive[s][v]>> : v \in {w \in Versions : w < archiveCount[s]}}
  BY DEF Retired
<1>2. \A r \in Retired[s] :
        r[1] \in Versions /\ r[1] < archiveCount[s] /\ r[2] = archive[s][r[1]]
  BY <1>1
<1>3. \A v \in ArchivedAt(s, k) : <<v, k>> \in Retired[s]
  BY <1>1 DEF ArchivedAt
<1>4. \A r \in Retired[s] : r[2] = k => r[1] \in ArchivedAt(s, k)
  BY <1>2 DEF ArchivedAt
<1>5. (\E r \in Retired[s] : r[2] = k) <=> ArchivedAt(s, k) # {}
  <2>1. \A v \in ArchivedAt(s, k) : \E r \in Retired[s] : r[2] = k
    BY <1>3
  <2> QED BY <1>4, <2>1
<1>6. (\A r \in Retired[s] : r[2] = k => r[1] \in W) <=> ArchivedAt(s, k) \ W = {}
  <2>1. ASSUME \A r \in Retired[s] : r[2] = k => r[1] \in W, NEW v \in ArchivedAt(s, k)
        PROVE  v \in W
    BY <1>3, <2>1
  <2> QED BY <1>4, <2>1
<1> QED BY <1>5, <1>6 DEF Abstract!Withdrawn

\* A version is revoked: it is asked for, and the key that has no other one goes
\* unless it is the current key.
LEMMA RevokeRefines ==
  ASSUME IndInv, IndInv', Track, NEW p \in Procs, NEW s \in Slots, NEW v \in Versions,
         RevokeVersion(p, s, v)
  PROVE  [Abstract!Next]_(Abstract!trust)
<1>1. /\ TypeOK /\ TypeOK'
      /\ \A t \in Slots : EntriesOK(t) /\ EntriesOK(t)'
  BY DEF IndInv
<1>2. /\ seed' = seed /\ archive' = archive /\ archiveCount' = archiveCount
      /\ revokedVersions' = [revokedVersions EXCEPT ![s] = @ \cup {v}]
      /\ revoked' = revoked /\ pubkey' = pubkey
  BY DEF RevokeVersion
<1>3. \A t \in Slots \ {s} : /\ known'[t] = known[t] /\ Accepted'[t] = Accepted[t]
                             /\ Retired'[t] = Retired[t]
  BY <1>1, <1>2, Untouched DEF TypeOK, ProviderTypeOK, KeystoreTypeOK
<1>4. known' = known /\ Retired' = Retired
  <2>1. known'[s] = known[s]
    BY <1>1, <1>2, Knowing
  <2>2. Retired' = Retired
    BY <1>2 DEF Retired
  <2> QED BY <1>1, <1>3, <2>1, <2>2 DEF TypeOK
<1>5. revokedVersions'[s] = revokedVersions[s] \cup {v}
  BY <1>1, <1>2 DEF TypeOK, ProviderTypeOK, KeystoreTypeOK
<1>6. CASE v \in revokedVersions[s]
  <2>1. revokedVersions' = revokedVersions
    BY <1>1, <1>2, <1>5, <1>6 DEF TypeOK, ProviderTypeOK, KeystoreTypeOK
  <2>2. Accepted' = Accepted
    BY <1>2, <2>1 DEF Accepted, Accepts, CurrentKey, Usable, ArchivedAt
  <2> QED BY <1>2, <1>4, <2>1, <2>2 DEF Abstract!trust
<1>7. CASE v \notin revokedVersions[s]
  <2> DEFINE W == revokedVersions[s] \cup {v}
  <2>1. /\ Accepted[s] = {k \in Keys : seed[s] = k \/ Usable(s, k) # {}}
        /\ Accepted'[s] = {k \in Keys : seed[s] = k \/ Usable(s, k)' # {}}
    BY <1>1, <1>2, Accepting, AcceptingNext
  <2>2. \A k \in Keys : /\ Usable(s, k)' = ArchivedAt(s, k) \ W
                        /\ Usable(s, k)' # {} => Usable(s, k) # {}
                        /\ Usable(s, k) # {} => ArchivedAt(s, k) # {}
    BY <1>2, <1>5 DEF Usable, ArchivedAt
  <2>3. Accepted'[s] =
          {x \in Accepted[s] : x = seed[s] \/ ~Abstract!Withdrawn(s, x, W)}
    BY <2>1, <2>2, WithdrawnMeans
  <2>4. Accepted' = [Accepted EXCEPT ![s] =
          {x \in @ : x = seed[s] \/ ~Abstract!Withdrawn(s, x, W)}]
    BY <1>1, <1>3, <2>3, Updates DEF Accepted
  <2>5. Abstract!Withdraw(s, v)
    BY <1>2, <1>4, <1>7, <2>4 DEF Abstract!Withdraw
  <2> QED BY <2>5 DEF Abstract!Next
<1> QED BY <1>6, <1>7

\* generate() introduces the first key of a slot.
LEMMA GenerateRefines ==
  ASSUME IndInv, IndInv', Track, NEW p \in Procs, GenerateStore(p)
  PROVE  Abstract!Next
<1>0. PICK s \in Slots : s = slot[p]
  BY StepInRange DEF IndInv, GenerateStore, At
<1>1. /\ TypeOK /\ TypeOK'
      /\ \A t \in Slots : EntriesOK(t) /\ EntriesOK(t)'
  BY DEF IndInv
<1>2. PICK k \in Keys \ minted : seed' = [seed EXCEPT ![s] = k]
  BY <1>0 DEF GenerateStore, StoreFreshSeed
<1>3. /\ archive' = archive /\ archiveCount' = archiveCount
      /\ revokedVersions' = revokedVersions /\ Retired' = Retired
  BY DEF GenerateStore, Retired
<1>4. \A t \in Slots \ {s} : /\ known'[t] = known[t] /\ Accepted'[t] = Accepted[t]
                             /\ Retired'[t] = Retired[t]
  BY <1>1, <1>2, <1>3, Untouched DEF TypeOK, ProviderTypeOK, KeystoreTypeOK
<1>5. seed'[s] = k /\ seed[s] = NoKey /\ k # NoKey
  BY <1>0, <1>1, <1>2, SentinelAssumption
    DEF IndInv, MinterOK, GenerateStore, TypeOK, ProviderTypeOK, KeystoreTypeOK
<1>6. known[s] = {} /\ known'[s] = {k}
  BY <1>1, <1>5, Knowing DEF EntriesOK
<1>7. \A x \in Keys : Usable(s, x) = {} /\ Usable(s, x)' = {}
  <2>1. \A v \in Versions : ~(v < archiveCount[s])
    BY <1>1, <1>6 DEF EntriesOK
  <2> QED BY <1>3, <2>1 DEF Usable, ArchivedAt
<1>8. /\ Accepted[s] = {x \in Keys : seed[s] = x \/ Usable(s, x) # {}}
      /\ Accepted'[s] = {x \in Keys : seed'[s] = x \/ Usable(s, x)' # {}}
  BY <1>1, Accepting, AcceptingNext
<1>9. Accepted[s] = {} /\ Accepted'[s] = {k}
  BY <1>5, <1>7, <1>8, SentinelAssumption
<1>10. /\ known' = [known EXCEPT ![s] = @ \cup {k}]
       /\ Accepted' = [Accepted EXCEPT ![s] =
            {x \in @ : ~Abstract!Withdrawn(s, x, revokedVersions[s])} \cup {k}]
  <2>1. /\ known' = [known EXCEPT ![s] = known'[s]]
        /\ Accepted' = [Accepted EXCEPT ![s] = Accepted'[s]]
    BY <1>1, <1>4, Updates
  <2>2. /\ known'[s] = known[s] \cup {k}
        /\ Accepted'[s] =
             {x \in Accepted[s] : ~Abstract!Withdrawn(s, x, revokedVersions[s])} \cup {k}
    BY <1>6, <1>9
  <2> QED BY <2>1, <2>2 DEF TypeOK, Accepted
<1>11. Abstract!Introduce(s, k)
  BY <1>2, <1>3, <1>6, <1>10 DEF Abstract!Introduce
<1> QED BY <1>11 DEF Abstract!Next

\* rotate() introduces a key; the one it retires stays, unless every version it was
\* archived under is revoked.
LEMMA RotateRefines ==
  ASSUME IndInv, IndInv', Track, NEW p \in Procs, RotateStore(p)
  PROVE  Abstract!Next
<1>0. PICK s \in Slots : s = slot[p]
  BY StepInRange DEF IndInv, RotateStore, At
<1> DEFINE old == seed[s]
<1> DEFINE Kept(x) == ~Abstract!Withdrawn(s, x, revokedVersions[s])
<1>1. /\ TypeOK /\ TypeOK'
      /\ \A t \in Slots : EntriesOK(t) /\ EntriesOK(t)'
  BY DEF IndInv
<1>2. PICK k \in Keys \ minted : seed' = [seed EXCEPT ![s] = k]
  BY <1>0 DEF RotateStore, StoreFreshSeed
<1>3. /\ archive' = archive /\ archiveCount' = archiveCount
      /\ revokedVersions' = revokedVersions /\ Retired' = Retired
  BY DEF RotateStore, Retired
<1>4. \A t \in Slots \ {s} : /\ known'[t] = known[t] /\ Accepted'[t] = Accepted[t]
                             /\ Retired'[t] = Retired[t]
  BY <1>1, <1>2, <1>3, Untouched DEF TypeOK, ProviderTypeOK, KeystoreTypeOK
<1>5. seed'[s] = k /\ k # NoKey /\ old # k /\ ArchivedAt(s, old) # {}
  <2>1. old # NoKey /\ ArchivedAt(s, old) # {}
    BY <1>0 DEF IndInv, MinterOK, Rotating, RotateStore, At
  <2>2. old \in minted
    BY <1>1, <2>1 DEF EntriesOK
  <2> QED BY <1>1, <1>2, <2>1, <2>2, SentinelAssumption
    DEF TypeOK, ProviderTypeOK, KeystoreTypeOK
<1>6. k \notin known[s] /\ known'[s] = known[s] \cup {k}
  BY <1>1, <1>5, Knowing DEF EntriesOK
<1>7. \A x \in Keys : Usable(s, x)' = Usable(s, x)
  BY <1>3 DEF Usable, ArchivedAt
<1>8. /\ Accepted[s] = {x \in Keys : old = x \/ Usable(s, x) # {}}
      /\ Accepted'[s] = {x \in Keys : k = x \/ Usable(s, x) # {}}
  BY <1>1, <1>5, <1>7, Accepting, AcceptingNext
<1>9. known' = [known EXCEPT ![s] = @ \cup {k}]
  BY <1>1, <1>4, <1>6, Updates DEF TypeOK
<1>10. \A x \in Accepted[s] : Kept(x) <=> Usable(s, x) # {}
  <2> SUFFICES ASSUME NEW x \in Accepted[s] PROVE Kept(x) <=> Usable(s, x) # {}
    OBVIOUS
  <2>1. x \in Keys /\ Usable(s, x) = ArchivedAt(s, x) \ revokedVersions[s]
    BY <1>8 DEF Usable
  <2>2. ArchivedAt(s, x) # {}
    BY <1>5, <1>8, <2>1
  <2> QED BY <2>1, <2>2, WithdrawnMeans
<1>11. Accepted'[s] = {x \in Accepted[s] : Kept(x)} \cup {k}
  <2> HIDE DEF Kept
  <2> QED BY <1>8, <1>10
<1>12. Accepted' = [Accepted EXCEPT ![s] = {x \in @ : Kept(x)} \cup {k}]
  <2> HIDE DEF Kept
  <2> QED BY <1>1, <1>4, <1>11, Updates DEF Accepted
<1>13. Abstract!Introduce(s, k)
  BY <1>2, <1>3, <1>6, <1>9, <1>12 DEF Abstract!Introduce
<1> QED BY <1>13 DEF Abstract!Next

\* Archiving does not show, as the count does not reach the entry yet.
LEMMA ArchiveRefines ==
  ASSUME IndInv, IndInv', Track, NEW p \in Procs, RotateArchive(p)
  PROVE  UNCHANGED Abstract!trust
<1>1. /\ TypeOK /\ TypeOK' /\ MinterOK(p)
      /\ \A t \in Slots : EntriesOK(t) /\ EntriesOK(t)'
  BY DEF IndInv
<1>2. PICK s \in Slots : s = slot[p]
  BY StepInRange DEF IndInv, RotateArchive, At
<1>3. /\ seed' = seed /\ revokedVersions' = revokedVersions /\ archiveCount' = archiveCount
      /\ archive' = [archive EXCEPT ![s][version[p]] = existing[p]]
      /\ version[p] = archiveCount[s]
  BY <1>1, <1>2 DEF RotateArchive, MinterOK, Rotating, At
<1>4. \A t \in Slots, v \in Versions : v < archiveCount[t] => archive'[t][v] = archive[t][v]
  <2>1. \A v \in Versions : v < archiveCount[s] => v # archiveCount[s]
    <3>1. archiveCount[s] \in Int /\ \A v \in Versions : v \in Int
      BY <1>1, VersionAssumption DEF TypeOK, ProviderTypeOK, KeystoreTypeOK
    <3> QED BY <3>1
  <2> QED BY <1>1, <1>3, <2>1 DEF TypeOK, ProviderTypeOK, KeystoreTypeOK
<1>5. \A t \in Slots : /\ known'[t] = known[t] /\ Accepted'[t] = Accepted[t]
                       /\ Retired'[t] = Retired[t]
  BY <1>1, <1>3, <1>4, Untouched
<1> QED BY <1>1, <1>3, <1>5 DEF TypeOK, Accepted, Retired, Abstract!trust

\* Raising the count retires the current key, which stays accepted.
LEMMA BumpRefines ==
  ASSUME IndInv, IndInv', Track, NEW p \in Procs, RotateBump(p)
  PROVE  Abstract!Next
<1>1. /\ TypeOK /\ TypeOK' /\ CallsWellFormed /\ MinterOK(p)
      /\ \A t \in Slots : EntriesOK(t) /\ EntriesOK(t)'
  BY DEF IndInv
<1>2. PICK s \in Slots : s = slot[p]
  BY StepInRange DEF IndInv, RotateBump, At
<1> DEFINE n == archiveCount[s]
<1>3. /\ seed' = seed /\ revokedVersions' = revokedVersions /\ archive' = archive
      /\ version[p] = n /\ archive[s][n] = seed[s] /\ seed[s] # NoKey
      /\ archiveCount' = [archiveCount EXCEPT ![s] = n + 1] /\ n < MaxVersion
  BY <1>1, <1>2 DEF RotateBump, MinterOK, Rotating, CallsWellFormed, At
<1>4. n \in Versions /\ archiveCount'[s] = n + 1 /\ \A v \in Versions : v \in Int
  BY <1>1, <1>3, VersionAssumption DEF TypeOK, ProviderTypeOK, KeystoreTypeOK
<1>5. \A t \in Slots \ {s} : /\ known'[t] = known[t] /\ Accepted'[t] = Accepted[t]
                             /\ Retired'[t] = Retired[t]
  BY <1>1, <1>3, Untouched DEF TypeOK, ProviderTypeOK, KeystoreTypeOK
<1>6. known'[s] = known[s]
  BY <1>1, <1>3, Knowing
<1>7. \A v \in Versions : v < n + 1 <=> v < n \/ v = n
  BY <1>4
<1>8. Retired'[s] = Retired[s] \cup {<<n, seed[s]>>}
  <2>1. Retired[s] = {<<v, archive[s][v]>> : v \in {w \in Versions : w < n}}
    BY DEF Retired
  <2>2. Retired'[s] = {<<v, archive[s][v]>> : v \in {w \in Versions : w < n + 1}}
    BY <1>3, <1>4 DEF Retired
  <2> HIDE DEF n
  <2> QED BY <1>3, <1>4, <1>7, <2>1, <2>2
<1>9. \A x \in Keys : x # seed[s] => Usable(s, x)' = Usable(s, x)
  BY <1>3, <1>4, <1>7 DEF Usable, ArchivedAt
<1>10. Accepted'[s] = Accepted[s]
  <2>1. /\ Accepted[s] = {x \in Keys : seed[s] = x \/ Usable(s, x) # {}}
        /\ Accepted'[s] = {x \in Keys : seed[s] = x \/ Usable(s, x)' # {}}
    BY <1>1, <1>3, Accepting, AcceptingNext
  <2> QED BY <1>9, <2>1
<1>11. known' = known /\ Accepted' = Accepted
  BY <1>1, <1>5, <1>6, <1>10 DEF TypeOK, Accepted
<1>12. Retired' = [Retired EXCEPT ![s] = @ \cup {<<n, seed[s]>>}]
  BY <1>1, <1>5, <1>8, Updates DEF Retired
<1>13. Abstract!Retire(s)
  BY <1>3, <1>11, <1>12 DEF Abstract!Retire
<1> QED BY <1>13 DEF Abstract!Next

\* Every step of the keystore is a step of the abstract key store or invisible.
LEMMA StepRefines ==
  ASSUME SingleMinter, OwnKeysOnly, IndInv, Next
  PROVE  [Abstract!Next]_(Abstract!trust)
<1>1. PICK p \in Procs : StepOf(p)
  BY DEF Next, ProviderNext, StepOf
<1>2. IndInv' /\ Track
  BY IndInvNext DEF Next
<1>3. CASE Quiet
  <2>1. /\ TypeOK /\ TypeOK'
        /\ \A t \in Slots : EntriesOK(t) /\ EntriesOK(t)'
    BY <1>2 DEF IndInv
  <2>2. \A t \in Slots : /\ known'[t] = known[t] /\ Accepted'[t] = Accepted[t]
                         /\ Retired'[t] = Retired[t]
    BY <1>2, <1>3, <2>1, Untouched DEF Quiet, keystore
  <2> QED BY <1>3, <2>1, <2>2
    DEF TypeOK, Accepted, Retired, Quiet, keystore, Abstract!trust
<1>4. CASE \E s \in Slots, v \in Versions : RevokeVersion(p, s, v)
  BY <1>2, <1>4, RevokeRefines
<1>5. CASE GenerateStore(p)
  BY <1>2, <1>5, GenerateRefines
<1>6. CASE RotateArchive(p)
  BY <1>2, <1>6, ArchiveRefines
<1>7. CASE RotateBump(p)
  BY <1>2, <1>7, BumpRefines
<1>8. CASE RotateStore(p)
  BY <1>2, <1>8, RotateRefines
<1> QED BY <1>1, <1>3, <1>4, <1>5, <1>6, <1>7, <1>8, Effects DEF Writes, IndInv

\* The keystore with its entries and half-finished rotations implements KeyTrust:
\* verify() forgets no key but one that was replaced and whose versions were all
\* asked to be withdrawn, for every interleaving and wherever calls die.
THEOREM Refinement ==
  ASSUME SingleMinter, OwnKeysOnly
  PROVE  Spec => ImplementsKeyTrust
<1>1. Init => Abstract!Init
  <2> SUFFICES ASSUME Init PROVE Abstract!Init
    OBVIOUS
  <2>1. \A s \in Slots : EntriesOK(s) /\ seed[s] = NoKey /\ archiveCount[s] = 0
    BY IndInvInit DEF IndInv, Init, ProviderInit
  <2>2. \A v \in Versions : ~(v < 0)
    BY VersionAssumption
  <2>3. \A s \in Slots : Accepted[s] = {}
    <3>1. \A s \in Slots, k \in Keys : Usable(s, k) = {}
      BY <2>1, <2>2 DEF Usable, ArchivedAt
    <3> QED BY <2>1, <3>1, Accepting, SentinelAssumption
  <2>4. Accepted = [s \in Slots |-> {}]
    BY <2>3 DEF Accepted
  <2>5. Retired = [s \in Slots |-> {}]
    BY <2>1, <2>2 DEF Retired
  <2>6. /\ known = [s \in Slots |-> {}] /\ seed = [s \in Slots |-> NoKey]
        /\ archiveCount = [s \in Slots |-> 0] /\ revokedVersions = [s \in Slots |-> {}]
    BY DEF Init, HistoryInit, ProviderInit
  <2> QED BY <2>4, <2>5, <2>6 DEF Abstract!Init
<1>2. IndInv /\ [Next]_vars => [Abstract!Next]_(Abstract!trust)
  <2>1. UNCHANGED vars => UNCHANGED Abstract!trust
    BY DEF vars, provider, keystore, history, Accepted, Accepts, CurrentKey, Usable,
      ArchivedAt, Retired, Abstract!trust
  <2> QED BY <2>1, StepRefines
<1> QED BY <1>1, <1>2, Inductive, PTL DEF Spec, ImplementsKeyTrust, Abstract!Spec
=============================================================================
