---------------------------- MODULE BrineTypeProofs ------------------------
(***************************************************************************)
(* Proofs about BrineTrust, for every set of processes, slots, keys and    *)
(* envelopes and every bound on the versions.                              *)
(***************************************************************************)
EXTENDS BrineTrust, TLAPS

USE DEF Versions, Replies

-----------------------------------------------------------------------------
(* Types.                                                                  *)

\* The shape of a call and the keystore entries have their types initially.
LEMMA ProviderTypeInit ==
  ProviderInit => ProviderTypeOK /\ CallsWellFormed
BY VersionAssumption
  DEF ProviderInit, ProviderTypeOK, KeystoreTypeOK, ControlTypeOK, RegisterTypeOK,
      CallsWellFormed, Steps

\* Where a call in progress may look.
LEMMA StepInRange ==
  ASSUME CallsWellFormed, NEW p \in Procs, pc[p] # "idle"
  PROVE  slot[p] \in Slots /\ op[p] \in Methods
BY CallsAssumption DEF CallsWellFormed

\* The values an access may read, and the archive indices of a call.
LEMMA ReadTypes ==
  ASSUME KeystoreTypeOK, NEW s \in Slots
  PROVE  /\ seed[s] \in Keys \cup {NoKey}
         /\ pubkey[s] \in Keys \cup {NoKey}
         /\ archiveCount[s] \in 0 .. MaxVersion
         /\ \A v \in Versions : archive[s][v] \in Keys \cup {NoKey}
BY DEF KeystoreTypeOK

LEMMA StepIndices ==
  ASSUME RegisterTypeOK, NEW p \in Procs
  PROVE  version[p] \in 0 .. MaxVersion /\ limit[p] \in 0 .. MaxVersion
BY DEF RegisterTypeOK

\* Arithmetic of an index below a bound.
LEMMA Between ==
  ASSUME NEW m \in Nat, NEW a \in 0 .. m, NEW b \in 0 .. m, a < b
  PROVE  a \in 0 .. m - 1 /\ a + 1 \in 0 .. m
OBVIOUS

\* verify looks at an existing version only.
LEMMA ScanInRange ==
  ASSUME RegisterTypeOK, CallsWellFormed, NEW p \in Procs,
         pc[p] \in {"archived flag", "archived key"}
  PROVE  version[p] \in Versions /\ version[p] + 1 \in 0 .. MaxVersion
<1>1. version[p] < limit[p]
  BY DEF CallsWellFormed
<1>2. version[p] \in 0 .. MaxVersion /\ limit[p] \in 0 .. MaxVersion
  BY StepIndices
<1> QED BY <1>1, <1>2, VersionAssumption, Between

LEMMA StepActive ==
  ASSUME NEW p \in Procs, Step(p)
  PROVE  pc[p] # "idle"
BY DEF Step, At, GenerateStore, RotateCount, RotateArchive, RotateBump, RotateStore,
       RevokeProbe, RevokeFlag, PublicRevoked, PublicRegistered, PublicSeed,
       VerifyCount, VerifyFlag, VerifyKey, VerifyCheck, Return

\* Starting a call leaves the keystore typed.
LEMMA CallKeystore ==
  ASSUME ProviderTypeOK, CallsWellFormed, NEW p \in Procs, Call(p)
  PROVE  KeystoreTypeOK'
<1>1. PICK s \in Slots :
        \/ Generate(p, s) \/ Rotate(p, s) \/ Revoke(p, s)
        \/ \E v \in Versions : RevokeVersion(p, s, v)
        \/ RegisterPublicKey(p, s) \/ PublicKey(p, s)
        \/ \E env \in Envelopes : Sign(p, s, env)
        \/ \E r \in Requests : Presentable(r) /\ Verify(p, s, r)
  BY DEF Call
<1>2. CASE Generate(p, s)
  BY <1>2 DEF Generate, ProviderTypeOK, KeystoreTypeOK, keystore, world
<1>3. CASE Rotate(p, s)
  BY <1>3 DEF Rotate, ProviderTypeOK, KeystoreTypeOK, keystore, world
<1>4. CASE Revoke(p, s)
  BY <1>4 DEF Revoke, ProviderTypeOK, KeystoreTypeOK, keystore, world
<1>5. CASE \E v \in Versions : RevokeVersion(p, s, v)
  <2>1. PICK v \in Versions : RevokeVersion(p, s, v)
    BY <1>5
  <2> QED BY <2>1 DEF RevokeVersion, ProviderTypeOK, KeystoreTypeOK, world
<1>6. CASE RegisterPublicKey(p, s)
  BY <1>6 DEF RegisterPublicKey, ProviderTypeOK, KeystoreTypeOK, keystore, world
<1>7. CASE PublicKey(p, s)
  BY <1>7 DEF PublicKey, ProviderTypeOK, KeystoreTypeOK, keystore, world
<1>8. CASE \E env \in Envelopes : Sign(p, s, env)
  <2>1. PICK env \in Envelopes : Sign(p, s, env)
    BY <1>8
  <2> QED BY <2>1 DEF Sign, ProviderTypeOK, KeystoreTypeOK, keystore
<1>9. CASE \E r \in Requests : Presentable(r) /\ Verify(p, s, r)
  BY <1>9 DEF Verify, ProviderTypeOK, KeystoreTypeOK, keystore, world
<1> QED BY <1>1, <1>2, <1>3, <1>4, <1>5, <1>6, <1>7, <1>8, <1>9

\* An access leaves the keystore typed.
LEMMA StepKeystore ==
  ASSUME ProviderTypeOK, CallsWellFormed, NEW p \in Procs, Step(p)
  PROVE  KeystoreTypeOK'
<1>1. slot[p] \in Slots
  BY StepActive, StepInRange
<1>2. CASE GenerateStore(p)
  BY <1>1, <1>2
    DEF GenerateStore, StoreFreshSeed, ProviderTypeOK, KeystoreTypeOK, keystore,
        world, RegisterTypeOK
<1>3. CASE RotateCount(p)
  BY <1>1, <1>3
    DEF RotateCount, ProviderTypeOK, KeystoreTypeOK, keystore, world,
        RegisterTypeOK
<1>4. CASE RotateArchive(p)
  <2>1. version[p] < MaxVersion /\ version[p] \in 0 .. MaxVersion
    BY <1>4, StepIndices DEF RotateArchive, ProviderTypeOK
  <2>2. version[p] \in Versions
    BY <2>1, VersionAssumption
  <2> QED BY <1>4, <2>2 DEF RotateArchive, ProviderTypeOK, KeystoreTypeOK, RegisterTypeOK, world
<1>5. CASE RotateBump(p)
  <2>1. version[p] < MaxVersion /\ version[p] \in 0 .. MaxVersion
    BY <1>5, StepIndices DEF RotateBump, At, CallsWellFormed, ProviderTypeOK
  <2>2. version[p] + 1 \in 0 .. MaxVersion
    BY <2>1, VersionAssumption
  <2> QED BY <1>5, <2>2 DEF RotateBump, ProviderTypeOK, KeystoreTypeOK, world
<1>6. CASE RotateStore(p)
  BY <1>1, <1>6
    DEF RotateStore, StoreFreshSeed, ProviderTypeOK, KeystoreTypeOK, keystore,
        world, RegisterTypeOK
<1>7. CASE RevokeProbe(p)
  BY <1>1, <1>7
    DEF RevokeProbe, ProviderTypeOK, KeystoreTypeOK, keystore, world,
        RegisterTypeOK
<1>8. CASE RevokeFlag(p)
  BY <1>1, <1>8
    DEF RevokeFlag, ProviderTypeOK, KeystoreTypeOK, keystore, world,
        RegisterTypeOK
<1>9. CASE PublicRevoked(p)
  BY <1>1, <1>9
    DEF PublicRevoked, ProviderTypeOK, KeystoreTypeOK, keystore, world,
        RegisterTypeOK
<1>10. CASE PublicRegistered(p)
  BY <1>1, <1>10
    DEF PublicRegistered, HavePublicKey, ProviderTypeOK, KeystoreTypeOK,
        keystore, world, RegisterTypeOK
<1>11. CASE PublicSeed(p)
  BY <1>1, <1>11
    DEF PublicSeed, HavePublicKey, ProviderTypeOK, KeystoreTypeOK, keystore,
        world, RegisterTypeOK
<1>12. CASE VerifyCount(p)
  BY <1>1, <1>12
    DEF VerifyCount, ProviderTypeOK, KeystoreTypeOK, keystore, world,
        RegisterTypeOK
<1>13. CASE VerifyFlag(p)
  BY <1>1, <1>13
    DEF VerifyFlag, NextVersion, ProviderTypeOK, KeystoreTypeOK, keystore, world,
        RegisterTypeOK
<1>14. CASE VerifyKey(p)
  BY <1>1, <1>14
    DEF VerifyKey, NextVersion, ProviderTypeOK, KeystoreTypeOK, keystore, world,
        RegisterTypeOK
<1>15. CASE VerifyCheck(p)
  BY <1>1, <1>15
    DEF VerifyCheck, ProviderTypeOK, KeystoreTypeOK, keystore, world,
        RegisterTypeOK
<1>16. CASE Return(p)
  BY <1>1, <1>16
    DEF Return, Clear, ProviderTypeOK, KeystoreTypeOK, keystore, world,
        RegisterTypeOK
<1> QED BY <1>2, <1>3, <1>4, <1>5, <1>6, <1>7, <1>8, <1>9, <1>10, <1>11, <1>12, <1>13, <1>14, <1>15, <1>16 DEF Step

\* Starting a call leaves the control state typed.
LEMMA CallControl ==
  ASSUME ProviderTypeOK, CallsWellFormed, NEW p \in Procs, Call(p)
  PROVE  ControlTypeOK'
<1>1. PICK s \in Slots :
        \/ Generate(p, s) \/ Rotate(p, s) \/ Revoke(p, s)
        \/ \E v \in Versions : RevokeVersion(p, s, v)
        \/ RegisterPublicKey(p, s) \/ PublicKey(p, s)
        \/ \E env \in Envelopes : Sign(p, s, env)
        \/ \E r \in Requests : Presentable(r) /\ Verify(p, s, r)
  BY DEF Call
<1>2. CASE Generate(p, s)
  BY <1>2
    DEF Generate, ProviderTypeOK, ControlTypeOK, Begin, Goto, End, Steps,
        Methods, Results, Same
<1>3. CASE Rotate(p, s)
  BY <1>3
    DEF Rotate, ProviderTypeOK, ControlTypeOK, Begin, Goto, End, Steps, Methods,
        Results, Same
<1>4. CASE Revoke(p, s)
  BY <1>4
    DEF Revoke, ProviderTypeOK, ControlTypeOK, Begin, Goto, End, Steps, Methods,
        Results, Same
<1>5. CASE \E v \in Versions : RevokeVersion(p, s, v)
  <2>1. PICK v \in Versions : RevokeVersion(p, s, v)
    BY <1>5
  <2> QED
    BY <2>1 DEF RevokeVersion, ProviderTypeOK, ControlTypeOK, Begin, End, Steps, Methods,
                Results
<1>6. CASE RegisterPublicKey(p, s)
  BY <1>6
    DEF RegisterPublicKey, ProviderTypeOK, ControlTypeOK, Begin, Goto, End,
        Steps, Methods, Results, Same
<1>7. CASE PublicKey(p, s)
  BY <1>7
    DEF PublicKey, ProviderTypeOK, ControlTypeOK, Begin, Goto, End, Steps,
        Methods, Results, Same
<1>8. CASE \E env \in Envelopes : Sign(p, s, env)
  <2>1. PICK env \in Envelopes : Sign(p, s, env)
    BY <1>8
  <2> QED
    BY <2>1 DEF Sign, ProviderTypeOK, ControlTypeOK, Begin, End, Steps, Methods, Results
<1>9. CASE \E r \in Requests : Presentable(r) /\ Verify(p, s, r)
  <2>1. PICK r \in Requests : Verify(p, s, r)
    BY <1>9
  <2>2. pc' \in [Procs -> Steps] /\ outcome' \in [Procs -> Results \cup {NoResult}]
    BY <2>1 DEF Verify, ProviderTypeOK, ControlTypeOK, Goto, End, Steps, Results
  <2> QED BY <2>1, <2>2 DEF Verify, ProviderTypeOK, ControlTypeOK, Begin, Methods
<1> QED BY <1>1, <1>2, <1>3, <1>4, <1>5, <1>6, <1>7, <1>8, <1>9

\* An access leaves the control state typed.
LEMMA StepControl ==
  ASSUME ProviderTypeOK, CallsWellFormed, NEW p \in Procs, Step(p)
  PROVE  ControlTypeOK'
<1>1. slot[p] \in Slots
  BY StepActive, StepInRange
<1>2. CASE GenerateStore(p)
  BY <1>1, <1>2
    DEF GenerateStore, StoreFreshSeed, ProviderTypeOK, ControlTypeOK, Begin,
        Goto, End, Steps, Methods, Results, Same, KeystoreTypeOK
<1>3. CASE RotateCount(p)
  BY <1>1, <1>3
    DEF RotateCount, ProviderTypeOK, ControlTypeOK, Begin, Goto, End, Steps,
        Methods, Results, Same, KeystoreTypeOK
<1>4. CASE RotateArchive(p)
  BY <1>1, <1>4
    DEF RotateArchive, ProviderTypeOK, ControlTypeOK, Begin, Goto, End, Steps,
        Methods, Results, Same, KeystoreTypeOK
<1>5. CASE RotateBump(p)
  BY <1>1, <1>5
    DEF RotateBump, ProviderTypeOK, ControlTypeOK, Begin, Goto, End, Steps,
        Methods, Results, Same, KeystoreTypeOK
<1>6. CASE RotateStore(p)
  BY <1>1, <1>6
    DEF RotateStore, StoreFreshSeed, ProviderTypeOK, ControlTypeOK, Begin, Goto,
        End, Steps, Methods, Results, Same, KeystoreTypeOK
<1>7. CASE RevokeProbe(p)
  BY <1>1, <1>7
    DEF RevokeProbe, ProviderTypeOK, ControlTypeOK, Begin, Goto, End, Steps,
        Methods, Results, Same, KeystoreTypeOK
<1>8. CASE RevokeFlag(p)
  BY <1>1, <1>8
    DEF RevokeFlag, ProviderTypeOK, ControlTypeOK, Begin, Goto, End, Steps,
        Methods, Results, Same, KeystoreTypeOK
<1>9. CASE PublicRevoked(p)
  BY <1>1, <1>9
    DEF PublicRevoked, ProviderTypeOK, ControlTypeOK, Begin, Goto, End, Steps,
        Methods, Results, Same, KeystoreTypeOK
<1>10. CASE PublicRegistered(p)
  BY <1>1, <1>10
    DEF PublicRegistered, HavePublicKey, ProviderTypeOK, ControlTypeOK, Begin,
        Goto, End, Steps, Methods, Results, Same, KeystoreTypeOK
<1>11. CASE PublicSeed(p)
  BY <1>1, <1>11
    DEF PublicSeed, HavePublicKey, ProviderTypeOK, ControlTypeOK, Begin, Goto,
        End, Steps, Methods, Results, Same, KeystoreTypeOK
<1>12. CASE VerifyCount(p)
  BY <1>1, <1>12
    DEF VerifyCount, ProviderTypeOK, ControlTypeOK, Begin, Goto, End, Steps,
        Methods, Results, Same, KeystoreTypeOK
<1>13. CASE VerifyFlag(p)
  BY <1>1, <1>13
    DEF VerifyFlag, NextVersion, ProviderTypeOK, ControlTypeOK, Begin, Goto, End,
        Steps, Methods, Results, Same, KeystoreTypeOK
<1>14. CASE VerifyKey(p)
  BY <1>1, <1>14
    DEF VerifyKey, NextVersion, ProviderTypeOK, ControlTypeOK, Begin, Goto, End,
        Steps, Methods, Results, Same, KeystoreTypeOK
<1>15. CASE VerifyCheck(p)
  BY <1>1, <1>15
    DEF VerifyCheck, ProviderTypeOK, ControlTypeOK, Begin, Goto, End, Steps,
        Methods, Results, Same, KeystoreTypeOK
<1>16. CASE Return(p)
  BY <1>1, <1>16
    DEF Return, Clear, ProviderTypeOK, ControlTypeOK, Begin, Goto, End, Steps,
        Methods, Results, Same, KeystoreTypeOK
<1> QED BY <1>2, <1>3, <1>4, <1>5, <1>6, <1>7, <1>8, <1>9, <1>10, <1>11, <1>12, <1>13, <1>14, <1>15, <1>16 DEF Step

\* Starting a call leaves the registers typed.
LEMMA CallRegisters ==
  ASSUME ProviderTypeOK, CallsWellFormed, NEW p \in Procs, Call(p)
  PROVE  RegisterTypeOK'
<1>1. PICK s \in Slots :
        \/ Generate(p, s) \/ Rotate(p, s) \/ Revoke(p, s)
        \/ \E v \in Versions : RevokeVersion(p, s, v)
        \/ RegisterPublicKey(p, s) \/ PublicKey(p, s)
        \/ \E env \in Envelopes : Sign(p, s, env)
        \/ \E r \in Requests : Presentable(r) /\ Verify(p, s, r)
  BY DEF Call
<1>2. CASE Generate(p, s)
  BY <1>2, VersionAssumption, ReadTypes
    DEF Generate, ProviderTypeOK, RegisterTypeOK, locals
<1>3. CASE Rotate(p, s)
  BY <1>3, VersionAssumption, ReadTypes
    DEF Rotate, ProviderTypeOK, RegisterTypeOK, locals
<1>4. CASE Revoke(p, s)
  BY <1>4, VersionAssumption, ReadTypes
    DEF Revoke, ProviderTypeOK, RegisterTypeOK, locals
<1>5. CASE \E v \in Versions : RevokeVersion(p, s, v)
  BY <1>5, VersionAssumption, ReadTypes
    DEF RevokeVersion, ProviderTypeOK, RegisterTypeOK, locals
<1>6. CASE RegisterPublicKey(p, s)
  BY <1>6, VersionAssumption, ReadTypes
    DEF RegisterPublicKey, ProviderTypeOK, RegisterTypeOK, locals
<1>7. CASE PublicKey(p, s)
  BY <1>7, VersionAssumption, ReadTypes
    DEF PublicKey, ProviderTypeOK, RegisterTypeOK, locals
<1>8. CASE \E env \in Envelopes : Sign(p, s, env)
  BY <1>8, VersionAssumption, ReadTypes
    DEF Sign, ProviderTypeOK, RegisterTypeOK, locals
<1>9. CASE \E r \in Requests : Presentable(r) /\ Verify(p, s, r)
  BY <1>9, VersionAssumption, ReadTypes
    DEF Verify, ProviderTypeOK, RegisterTypeOK, locals
<1> QED BY <1>1, <1>2, <1>3, <1>4, <1>5, <1>6, <1>7, <1>8, <1>9

\* An access leaves the registers typed.
LEMMA StepRegisters ==
  ASSUME ProviderTypeOK, CallsWellFormed, NEW p \in Procs, Step(p)
  PROVE  RegisterTypeOK'
<1>1. slot[p] \in Slots
  BY StepActive, StepInRange
<1>2. CASE GenerateStore(p)
  BY <1>1, <1>2, VersionAssumption, ReadTypes
    DEF GenerateStore, StoreFreshSeed, ProviderTypeOK, RegisterTypeOK, locals
<1>3. CASE RotateCount(p)
  <2>1. archiveCount[slot[p]] \in 0 .. MaxVersion
    BY <1>1, ReadTypes DEF ProviderTypeOK
  <2> QED BY <2>1, <1>3 DEF RotateCount, ProviderTypeOK, RegisterTypeOK
<1>4. CASE RotateArchive(p)
  BY <1>1, <1>4, VersionAssumption, ReadTypes
    DEF RotateArchive, ProviderTypeOK, RegisterTypeOK, locals
<1>5. CASE RotateBump(p)
  BY <1>1, <1>5, VersionAssumption, ReadTypes
    DEF RotateBump, ProviderTypeOK, RegisterTypeOK, locals
<1>6. CASE RotateStore(p)
  BY <1>1, <1>6, VersionAssumption, ReadTypes
    DEF RotateStore, StoreFreshSeed, ProviderTypeOK, RegisterTypeOK, locals
<1>7. CASE RevokeProbe(p)
  BY <1>1, <1>7, VersionAssumption, ReadTypes
    DEF RevokeProbe, ProviderTypeOK, RegisterTypeOK, locals
<1>8. CASE RevokeFlag(p)
  BY <1>1, <1>8, VersionAssumption, ReadTypes
    DEF RevokeFlag, ProviderTypeOK, RegisterTypeOK, locals
<1>9. CASE PublicRevoked(p)
  BY <1>1, <1>9, VersionAssumption, ReadTypes
    DEF PublicRevoked, ProviderTypeOK, RegisterTypeOK, locals
<1>10. CASE PublicRegistered(p)
  <2>1. \/ candidates' = candidates
        \/ pubkey[slot[p]] # NoKey /\ candidates' = [candidates EXCEPT ![p] = {pubkey[slot[p]]}]
    BY <1>10 DEF PublicRegistered, HavePublicKey
  <2>2. pubkey[slot[p]] \in Keys \cup {NoKey}
    BY <1>1, ReadTypes DEF ProviderTypeOK
  <2>3. candidates' \in [Procs -> SUBSET Keys]
    BY <2>1, <2>2 DEF ProviderTypeOK, RegisterTypeOK
  <2> QED BY <2>3, <1>10 DEF PublicRegistered, ProviderTypeOK, RegisterTypeOK
<1>11. CASE PublicSeed(p)
  <2>1. \/ candidates' = candidates
        \/ seed[slot[p]] # NoKey /\ candidates' = [candidates EXCEPT ![p] = {seed[slot[p]]}]
    BY <1>11 DEF PublicSeed, HavePublicKey
  <2>2. seed[slot[p]] \in Keys \cup {NoKey}
    BY <1>1, ReadTypes DEF ProviderTypeOK
  <2>3. candidates' \in [Procs -> SUBSET Keys]
    BY <2>1, <2>2 DEF ProviderTypeOK, RegisterTypeOK
  <2> QED BY <2>3, <1>11 DEF PublicSeed, ProviderTypeOK, RegisterTypeOK
<1>12. CASE VerifyCount(p)
  <2>1. archiveCount[slot[p]] \in 0 .. MaxVersion /\ 0 \in 0 .. MaxVersion
    BY <1>1, ReadTypes, VersionAssumption DEF ProviderTypeOK
  <2> QED BY <2>1, <1>12 DEF VerifyCount, ProviderTypeOK, RegisterTypeOK
<1>13. CASE VerifyFlag(p)
  <2>1. version[p] + 1 \in 0 .. MaxVersion
    BY <1>13, ScanInRange DEF VerifyFlag, At, ProviderTypeOK
  <2> QED BY <2>1, <1>13 DEF VerifyFlag, NextVersion, ProviderTypeOK, RegisterTypeOK
<1>14. CASE VerifyKey(p)
  <2>1. version[p] \in Versions /\ version[p] + 1 \in 0 .. MaxVersion
    BY <1>14, ScanInRange DEF VerifyKey, At, ProviderTypeOK
  <2>2. archive[slot[p]][version[p]] \in Keys \cup {NoKey}
    BY <1>1, <2>1, ReadTypes DEF ProviderTypeOK
  <2> QED BY <2>1, <2>2, <1>14 DEF VerifyKey, NextVersion, ProviderTypeOK, RegisterTypeOK
<1>15. CASE VerifyCheck(p)
  BY <1>1, <1>15, VersionAssumption, ReadTypes
    DEF VerifyCheck, ProviderTypeOK, RegisterTypeOK, locals
<1>16. CASE Return(p)
  BY <1>1, <1>16, VersionAssumption, ReadTypes
    DEF Return, Clear, ProviderTypeOK, RegisterTypeOK, locals
<1> QED BY <1>2, <1>3, <1>4, <1>5, <1>6, <1>7, <1>8, <1>9, <1>10, <1>11, <1>12, <1>13, <1>14, <1>15, <1>16 DEF Step

\* Starting a call keeps every call one the instance makes.
LEMMA CallShape ==
  ASSUME ProviderTypeOK, CallsWellFormed, NEW p \in Procs, Call(p)
  PROVE  CallsWellFormed'
<1>1. PICK s \in Slots :
        \/ Generate(p, s) \/ Rotate(p, s) \/ Revoke(p, s)
        \/ \E v \in Versions : RevokeVersion(p, s, v)
        \/ RegisterPublicKey(p, s) \/ PublicKey(p, s)
        \/ \E env \in Envelopes : Sign(p, s, env)
        \/ \E r \in Requests : Presentable(r) /\ Verify(p, s, r)
  BY DEF Call
<1>2. CASE Generate(p, s)
  BY <1>2
    DEF Generate, ProviderTypeOK, ControlTypeOK, CallsWellFormed, Begin, Goto,
        End, Same, locals, At
<1>3. CASE Rotate(p, s)
  BY <1>3
    DEF Rotate, ProviderTypeOK, ControlTypeOK, CallsWellFormed, Begin, Goto, End,
        Same, locals, At
<1>4. CASE Revoke(p, s)
  BY <1>4
    DEF Revoke, ProviderTypeOK, ControlTypeOK, CallsWellFormed, Begin, Goto, End,
        Same, locals, At
<1>5. CASE \E v \in Versions : RevokeVersion(p, s, v)
  BY <1>5
    DEF RevokeVersion, ProviderTypeOK, ControlTypeOK, CallsWellFormed, Begin,
        Goto, End, Same, locals, At
<1>6. CASE RegisterPublicKey(p, s)
  BY <1>6
    DEF RegisterPublicKey, ProviderTypeOK, ControlTypeOK, CallsWellFormed, Begin,
        Goto, End, Same, locals, At
<1>7. CASE PublicKey(p, s)
  BY <1>7
    DEF PublicKey, ProviderTypeOK, ControlTypeOK, CallsWellFormed, Begin, Goto,
        End, Same, locals, At
<1>8. CASE \E env \in Envelopes : Sign(p, s, env)
  BY <1>8
    DEF Sign, ProviderTypeOK, ControlTypeOK, CallsWellFormed, Begin, Goto, End,
        Same, locals, At
<1>9. CASE \E r \in Requests : Presentable(r) /\ Verify(p, s, r)
  BY <1>9
    DEF Verify, ProviderTypeOK, ControlTypeOK, CallsWellFormed, Begin, Goto, End,
        Same, locals, At
<1> QED BY <1>1, <1>2, <1>3, <1>4, <1>5, <1>6, <1>7, <1>8, <1>9

\* An access keeps every call one the instance makes.
LEMMA StepShape ==
  ASSUME ProviderTypeOK, CallsWellFormed, NEW p \in Procs, Step(p)
  PROVE  CallsWellFormed'
<1>1. slot[p] \in Slots
  BY StepActive, StepInRange
<1>2. CASE GenerateStore(p)
  BY <1>1, <1>2
    DEF GenerateStore, StoreFreshSeed, ProviderTypeOK, ControlTypeOK,
        CallsWellFormed, Begin, Goto, End, Same, locals, At, RegisterTypeOK
<1>3. CASE RotateCount(p)
  BY <1>1, <1>3
    DEF RotateCount, ProviderTypeOK, ControlTypeOK, CallsWellFormed, Begin, Goto,
        End, Same, locals, At, RegisterTypeOK
<1>4. CASE RotateArchive(p)
  BY <1>1, <1>4
    DEF RotateArchive, ProviderTypeOK, ControlTypeOK, CallsWellFormed, Begin,
        Goto, End, Same, locals, At, RegisterTypeOK
<1>5. CASE RotateBump(p)
  BY <1>1, <1>5
    DEF RotateBump, ProviderTypeOK, ControlTypeOK, CallsWellFormed, Begin, Goto,
        End, Same, locals, At, RegisterTypeOK
<1>6. CASE RotateStore(p)
  BY <1>1, <1>6
    DEF RotateStore, StoreFreshSeed, ProviderTypeOK, ControlTypeOK,
        CallsWellFormed, Begin, Goto, End, Same, locals, At, RegisterTypeOK
<1>7. CASE RevokeProbe(p)
  BY <1>1, <1>7
    DEF RevokeProbe, ProviderTypeOK, ControlTypeOK, CallsWellFormed, Begin, Goto,
        End, Same, locals, At, RegisterTypeOK
<1>8. CASE RevokeFlag(p)
  BY <1>1, <1>8
    DEF RevokeFlag, ProviderTypeOK, ControlTypeOK, CallsWellFormed, Begin, Goto,
        End, Same, locals, At, RegisterTypeOK
<1>9. CASE PublicRevoked(p)
  <2>1. \A q \in Procs \ {p} : pc'[q] = pc[q]
    BY <1>9 DEF PublicRevoked, Goto, End, ProviderTypeOK, ControlTypeOK
  <2>2. pc'[p] \in {"returned", "registered"} /\ pc[p] # "idle"
    BY <1>9 DEF PublicRevoked, Goto, End, At, ProviderTypeOK, ControlTypeOK
  <2> QED BY <2>1, <2>2, <1>9 DEF PublicRevoked, Same, locals, CallsWellFormed
<1>10. CASE PublicRegistered(p)
  BY <1>1, <1>10
    DEF PublicRegistered, HavePublicKey, ProviderTypeOK, ControlTypeOK,
        CallsWellFormed, Begin, Goto, End, Same, locals, At, RegisterTypeOK
<1>11. CASE PublicSeed(p)
  BY <1>1, <1>11
    DEF PublicSeed, HavePublicKey, ProviderTypeOK, ControlTypeOK,
        CallsWellFormed, Begin, Goto, End, Same, locals, At, RegisterTypeOK
<1>12. CASE VerifyCount(p)
  <2>1. \A q \in Procs \ {p} :
          pc'[q] = pc[q] /\ limit'[q] = limit[q] /\ version'[q] = version[q]
    BY <1>12 DEF VerifyCount, Goto, ProviderTypeOK, ControlTypeOK, RegisterTypeOK
  <2>2. limit'[p] = archiveCount[slot[p]] /\ version'[p] = 0
    BY <1>12 DEF VerifyCount, ProviderTypeOK, RegisterTypeOK
  <2>3. pc'[p] = IF archiveCount[slot[p]] = 0 THEN "check" ELSE "archived flag"
    BY <1>12 DEF VerifyCount, Goto, ProviderTypeOK, ControlTypeOK
  <2>4. slot' = slot /\ op' = op /\ pc[p] # "idle"
    BY <1>12 DEF VerifyCount, Same, At
  <2>5. archiveCount[slot[p]] \in 0 .. MaxVersion
    BY <1>1, ReadTypes DEF ProviderTypeOK
  <2>6. pc'[p] = "archived flag" => version'[p] < limit'[p]
    <3> SUFFICES ASSUME archiveCount[slot[p]] # 0
                 PROVE  0 < archiveCount[slot[p]]
      BY <2>2, <2>3
    <3> QED BY <2>5, VersionAssumption
  <2> QED BY <2>1, <2>3, <2>4, <2>6 DEF CallsWellFormed
<1>13. CASE VerifyFlag(p)
  <2>1. \A q \in Procs \ {p} :
          pc'[q] = pc[q] /\ version'[q] = version[q]
    BY <1>13 DEF VerifyFlag, NextVersion, Goto, ProviderTypeOK, ControlTypeOK, RegisterTypeOK
  <2>2. \/ pc'[p] = "archived flag" /\ version'[p] < limit[p]
        \/ pc'[p] = "archived key" /\ version'[p] = version[p]
        \/ pc'[p] = "check"
    BY <1>13 DEF VerifyFlag, NextVersion, Goto, ProviderTypeOK, ControlTypeOK, RegisterTypeOK
  <2>3. slot' = slot /\ op' = op /\ limit' = limit /\ pc[p] = "archived flag"
    BY <1>13 DEF VerifyFlag, Same, At
  <2> QED BY <2>1, <2>2, <2>3 DEF CallsWellFormed
<1>14. CASE VerifyKey(p)
  BY <1>1, <1>14
    DEF VerifyKey, NextVersion, ProviderTypeOK, ControlTypeOK, CallsWellFormed,
        Begin, Goto, End, Same, locals, At, RegisterTypeOK
<1>15. CASE VerifyCheck(p)
  BY <1>1, <1>15
    DEF VerifyCheck, ProviderTypeOK, ControlTypeOK, CallsWellFormed, Begin, Goto,
        End, Same, locals, At, RegisterTypeOK
<1>16. CASE Return(p)
  BY <1>1, <1>16
    DEF Return, Clear, ProviderTypeOK, ControlTypeOK, CallsWellFormed, Begin,
        Goto, End, Same, locals, At, RegisterTypeOK
<1> QED BY <1>2, <1>3, <1>4, <1>5, <1>6, <1>7, <1>8, <1>9, <1>10, <1>11, <1>12, <1>13, <1>14, <1>15, <1>16 DEF Step

\* A call that dies leaves everything typed.
LEMMA AbortTypes ==
  ASSUME ProviderTypeOK, CallsWellFormed, NEW p \in Procs, Abort(p)
  PROVE  ProviderTypeOK' /\ CallsWellFormed'
<1>1. KeystoreTypeOK'
  BY DEF Abort, Clear, ProviderTypeOK, KeystoreTypeOK, keystore, world
<1>2. ControlTypeOK'
  BY DEF Abort, Clear, ProviderTypeOK, ControlTypeOK, Steps
<1>3. RegisterTypeOK'
  BY VersionAssumption DEF Abort, Clear, ProviderTypeOK, RegisterTypeOK
<1>4. CallsWellFormed'
  BY DEF Abort, Clear, ProviderTypeOK, ControlTypeOK, RegisterTypeOK, CallsWellFormed
<1> QED BY <1>1, <1>2, <1>3, <1>4 DEF ProviderTypeOK

LEMMA ProviderTypes ==
  ASSUME ProviderTypeOK, CallsWellFormed, ProviderNext
  PROVE  ProviderTypeOK' /\ CallsWellFormed'
<1>1. PICK p \in Procs : Call(p) \/ Step(p) \/ Abort(p)
  BY DEF ProviderNext
<1>2. CASE Call(p)
  BY <1>2, CallKeystore, CallControl, CallRegisters, CallShape DEF ProviderTypeOK
<1>3. CASE Step(p)
  BY <1>3, StepKeystore, StepControl, StepRegisters, StepShape DEF ProviderTypeOK
<1>4. CASE Abort(p)
  BY <1>4, AbortTypes
<1> QED BY <1>1, <1>2, <1>3, <1>4

\* The history variables are updated by functions of typed state.
LEMMA HistoryTypes ==
  ASSUME TypeOK, ProviderTypeOK', CallsWellFormed', Track
  PROVE  TypeOK'
<1>1. Accepted' \in [Slots -> SUBSET Keys]
  BY DEF Accepted
<1>2. \A p \in Procs : Watched(p)' => slot'[p] \in Slots
  BY CallsAssumption DEF Watched, CallsWellFormed
<1>3. \A s \in Slots : {seed'[s], pubkey'[s]} \ {NoKey} \subseteq Keys
  BY DEF ProviderTypeOK, KeystoreTypeOK
<1>4. known' \in [Slots -> SUBSET Keys]
  BY <1>3 DEF TypeOK, Track
<1>5. \A s \in Slots : {CurrentKey(s)} \ {NoKey} \subseteq Keys
  BY DEF TypeOK, ProviderTypeOK, KeystoreTypeOK, CurrentKey
<1>6. disowned' \in [Slots -> SUBSET Keys]
  BY <1>5 DEF TypeOK, Track
<1>7. steady' \in [Procs -> SUBSET Keys]
  BY <1>1, <1>2 DEF TypeOK, Track
<1>8. seen' \in [Procs -> SUBSET Keys]
  BY <1>1, <1>2 DEF TypeOK, Track
<1> QED BY <1>4, <1>6, <1>7, <1>8 DEF TypeOK

\* Every variable of the keystore, of the calls and of the history keeps its
\* type, and every access is made within range, in every instance.
THEOREM TypeCorrect == Spec => []TypeOK
<1> DEFINE Inv == TypeOK /\ CallsWellFormed
<1>1. Init => Inv
  BY ProviderTypeInit DEF Init, HistoryInit, TypeOK
<1>2. Inv /\ [Next]_vars => Inv'
  <2>1. CASE Next
    BY <2>1, ProviderTypes, HistoryTypes DEF Next, TypeOK
  <2>2. CASE UNCHANGED vars
    BY <2>2 DEF vars, provider, keystore, world, locals, history, TypeOK,
      ProviderTypeOK, KeystoreTypeOK, ControlTypeOK, RegisterTypeOK, CallsWellFormed
  <2> QED BY <2>1, <2>2
<1> QED BY <1>1, <1>2, PTL DEF Spec

=============================================================================
