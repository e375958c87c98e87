-------------------------- MODULE BrineSlotsProofs --------------------------
(***************************************************************************)
(* Proofs of the trust properties of BrineTrust where the current key of a *)
(* slot may be revoked or registered as well: what holds of the entries    *)
(* whoever calls what, and what a reader of a settled slot may rely on.    *)
(***************************************************************************)
EXTENDS BrineTrustProofs

USE DEF Versions

-----------------------------------------------------------------------------
(* Which steps there are, and who makes them.                              *)

\* The steps that change the keystore.
AnyWrite(p) ==
  Writes(p) \/ RevokeFlag(p) \/ \E s \in Slots : RegisterPublicKey(p, s)

\* A call that starts writes only to revoke a version or to register a key.
LEMMA CallWrites ==
  ASSUME NEW p \in Procs, Call(p)
  PROVE  Quiet \/ AnyWrite(p)
<1>1. PICK s \in Slots :
        \/ Generate(p, s) \/ Rotate(p, s) \/ Revoke(p, s)
        \/ \E v \in Versions : RevokeVersion(p, s, v)
        \/ RegisterPublicKey(p, s) \/ PublicKey(p, s)
        \/ \E env \in Envelopes : Sign(p, s, env)
        \/ \E r \in Requests : Presentable(r) /\ Verify(p, s, r)
  BY DEF Call
<1>2. CASE Generate(p, s) \/ Rotate(p, s) \/ Revoke(p, s) \/ PublicKey(p, s)
  BY <1>2 DEF Generate, Rotate, Revoke, PublicKey, Quiet, world
<1>3. CASE \E v \in Versions : RevokeVersion(p, s, v)
  BY <1>3 DEF AnyWrite, Writes
<1>4. CASE RegisterPublicKey(p, s)
  BY <1>4 DEF AnyWrite
<1>5. CASE \E env \in Envelopes : Sign(p, s, env)
  BY <1>5 DEF Sign, Quiet
<1>6. CASE \E r \in Requests : Presentable(r) /\ Verify(p, s, r)
  BY <1>6 DEF Verify, Quiet, world
<1> QED BY <1>1, <1>2, <1>3, <1>4, <1>5, <1>6

\* Every other access of a call in progress only reads.
LEMMA StepWrites ==
  ASSUME NEW p \in Procs, Step(p)
  PROVE  Quiet \/ AnyWrite(p)
<1>1. CASE GenerateStore(p) \/ RotateArchive(p) \/ RotateBump(p) \/ RotateStore(p)
  BY <1>1 DEF AnyWrite, Writes
<1>2. CASE RevokeFlag(p)
  BY <1>2 DEF AnyWrite
<1>3. CASE RotateCount(p) \/ RevokeProbe(p)
  BY <1>3 DEF RotateCount, RevokeProbe, Quiet, world
<1>4. CASE PublicRevoked(p) \/ PublicRegistered(p) \/ PublicSeed(p)
  BY <1>4 DEF PublicRevoked, PublicRegistered, PublicSeed, Quiet, world
<1>5. CASE VerifyCount(p) \/ VerifyFlag(p) \/ VerifyKey(p) \/ VerifyCheck(p)
  BY <1>5 DEF VerifyCount, VerifyFlag, VerifyKey, VerifyCheck, Quiet, world
<1>6. CASE Return(p)
  BY <1>6 DEF Return, Clear, Quiet, world
<1> QED BY <1>1, <1>2, <1>3, <1>4, <1>5, <1>6 DEF Step

LEMMA Writing ==
  ASSUME NEW p \in Procs, StepOf(p)
  PROVE  Quiet \/ AnyWrite(p)
<1>1. CASE Abort(p)
  BY <1>1 DEF Abort, Clear, Quiet, world
<1> QED BY <1>1, CallWrites, StepWrites DEF StepOf

\* A process in a call is a user of its slot.
LEMMA InCall ==
  ASSUME CallsWellFormed, NEW p \in Procs, pc[p] # "idle"
  PROVE  slot[p] \in Slots /\ p \in Users(slot[p], op[p]) /\ op[p] \in Methods
BY StepInRange DEF CallsWellFormed, Users

\* Every entry of a slot is written by one method, of a user of the slot.
EntryWriters(p, s) ==
  /\ seed'[s] # seed[s] => /\ p \in Minters(s) /\ seed'[s] \in Keys
                           /\ GenerateStore(p) \/ RotateStore(p)
  /\ pubkey'[s] # pubkey[s] => p \in Users(s, "register_public_key") /\ pubkey'[s] \in Keys
  /\ revoked'[s] # revoked[s] => /\ p \in Users(s, "revoke") /\ slot[p] = s
                                 /\ RevokeFlag(p) /\ revoked'[s]
  /\ archive'[s] # archive[s] => p \in Users(s, "rotate")
  /\ archiveCount'[s] # archiveCount[s] => p \in Users(s, "rotate")
  /\ revokedVersions'[s] # revokedVersions[s] => p \in Users(s, "revoke_version")

LEMMA EntriesWritten ==
  ASSUME TypeOK, CallsWellFormed, NEW p \in Procs, StepOf(p), NEW s \in Slots
  PROVE  EntryWriters(p, s)
<1>0. KeystoreTypeOK
  BY DEF TypeOK, ProviderTypeOK
<1>1. CASE Quiet
  BY <1>1 DEF Quiet, keystore, EntryWriters
<1>2. CASE \E t \in Slots, v \in Versions : RevokeVersion(p, t, v)
  BY <1>0, <1>2 DEF RevokeVersion, Begin, KeystoreTypeOK, EntryWriters, Users
<1>3. CASE GenerateStore(p)
  <2>1. p \in Users(slot[p], "generate") /\ slot[p] \in Slots
    BY <1>3, InCall DEF GenerateStore, At
  <2> QED BY <1>0, <1>3, <2>1
    DEF GenerateStore, StoreFreshSeed, KeystoreTypeOK, EntryWriters, Minters
<1>4. CASE RotateArchive(p)
  <2>1. p \in Users(slot[p], "rotate") /\ slot[p] \in Slots
    BY <1>4, InCall DEF RotateArchive, At
  <2> QED BY <1>0, <1>4, <2>1 DEF RotateArchive, KeystoreTypeOK, EntryWriters
<1>5. CASE RotateBump(p)
  <2>1. p \in Users(slot[p], "rotate") /\ slot[p] \in Slots
    BY <1>5, InCall DEF RotateBump, At
  <2> QED BY <1>0, <1>5, <2>1 DEF RotateBump, KeystoreTypeOK, EntryWriters
<1>6. CASE RotateStore(p)
  <2>1. p \in Users(slot[p], "rotate") /\ slot[p] \in Slots
    BY <1>6, InCall DEF RotateStore, At
  <2> QED BY <1>0, <1>6, <2>1
    DEF RotateStore, StoreFreshSeed, KeystoreTypeOK, EntryWriters, Minters
<1>7. CASE RevokeFlag(p)
  <2>1. p \in Users(slot[p], "revoke") /\ slot[p] \in Slots
    BY <1>7, InCall DEF RevokeFlag, At
  <2> QED BY <1>0, <1>7, <2>1 DEF RevokeFlag, KeystoreTypeOK, EntryWriters
<1>8. CASE \E t \in Slots : RegisterPublicKey(p, t)
  BY <1>0, <1>8 DEF RegisterPublicKey, Begin, KeystoreTypeOK, EntryWriters, Users
<1> QED BY <1>1, <1>2, <1>3, <1>4, <1>5, <1>6, <1>7, <1>8, Writing DEF AnyWrite, Writes

\* Where all calls on a slot are of one process, the others leave it alone.
LEMMA OneCallerAlone ==
  ASSUME TypeOK, CallsWellFormed, NEW p \in Procs, StepOf(p),
         NEW q \in Procs, q # p, pc[q] # "idle", OneCaller(slot[q])
  PROVE  LET s == slot[q]
         IN  /\ seed'[s] = seed[s] /\ pubkey'[s] = pubkey[s] /\ revoked'[s] = revoked[s]
             /\ archive'[s] = archive[s] /\ archiveCount'[s] = archiveCount[s]
             /\ revokedVersions'[s] = revokedVersions[s]
<1>1. slot[q] \in Slots /\ q \in Users(slot[q], op[q]) /\ op[q] \in Methods
  BY InCall
<1>2. \A o \in Methods : p \notin Users(slot[q], o)
  BY <1>1 DEF OneCaller, Users
<1>3. /\ p \notin Users(slot[q], "generate") /\ p \notin Users(slot[q], "rotate")
      /\ p \notin Users(slot[q], "register_public_key")
      /\ p \notin Users(slot[q], "revoke") /\ p \notin Users(slot[q], "revoke_version")
  BY <1>2 DEF Methods
<1> QED BY <1>1, <1>3, EntriesWritten DEF EntryWriters, Minters

-----------------------------------------------------------------------------
(* Where a step takes the process that makes it.                           *)

Begins(p, o) ==
  \E s \in Slots :
    \/ o = "revoke" /\ Revoke(p, s)
    \/ o = "public_key" /\ PublicKey(p, s)
    \/ o = "verify" /\ \E r \in Requests : Verify(p, s, r)

Arrives(p) ==
  /\ pc'[p] = "probe" => Begins(p, "revoke")
  /\ pc'[p] = "flag" => RevokeProbe(p)
  /\ pc'[p] = "registered" => PublicRevoked(p) \/ Begins(p, "public_key")
  /\ pc'[p] = "seed" => PublicRegistered(p)
  /\ Verifying(p)' => \/ Begins(p, "verify")
                      \/ PublicRevoked(p) \/ PublicRegistered(p) \/ PublicSeed(p)
                      \/ VerifyCount(p) \/ VerifyFlag(p) \/ VerifyKey(p)
  /\ Scanning(p)' => VerifyCount(p) \/ VerifyFlag(p) \/ VerifyKey(p)
  /\ At(p, "verify", "archived key")' => VerifyFlag(p)
  /\ Answered(p, "verify")' => \/ Begins(p, "verify") \/ PublicRevoked(p)
                               \/ PublicSeed(p) \/ VerifyCheck(p)
  /\ Answered(p, "verify")' /\ outcome'[p] = "Receipt" => VerifyCheck(p)
  /\ Answered(p, "public_key")' /\ outcome'[p] \in Keys =>
       PublicRegistered(p) \/ PublicSeed(p)

LEMMA CallArrives ==
  ASSUME TypeOK, NEW p \in Procs, Call(p)
  PROVE  Arrives(p)
<1> USE DEF Begin, Goto, End, At, Answered, Verifying, Scanning
<1>0. ControlTypeOK
  BY DEF TypeOK, ProviderTypeOK
<1>1. PICK s \in Slots :
        \/ Generate(p, s) \/ Rotate(p, s) \/ Revoke(p, s)
        \/ \E v \in Versions : RevokeVersion(p, s, v)
        \/ RegisterPublicKey(p, s) \/ PublicKey(p, s)
        \/ \E env \in Envelopes : Sign(p, s, env)
        \/ \E r \in Requests : Presentable(r) /\ Verify(p, s, r)
  BY DEF Call
<1>2. CASE Generate(p, s)
  BY <1>0, <1>2 DEF Generate, ControlTypeOK, Arrives
<1>3. CASE Rotate(p, s)
  BY <1>0, <1>3 DEF Rotate, ControlTypeOK, Arrives
<1>4. CASE Revoke(p, s)
  BY <1>0, <1>4 DEF Revoke, ControlTypeOK, Arrives, Begins
<1>5. CASE \E v \in Versions : RevokeVersion(p, s, v)
  BY <1>0, <1>5 DEF RevokeVersion, ControlTypeOK, Arrives
<1>6. CASE RegisterPublicKey(p, s)
  BY <1>0, <1>6 DEF RegisterPublicKey, ControlTypeOK, Arrives
<1>7. CASE PublicKey(p, s)
  BY <1>0, <1>7, SentinelAssumption DEF PublicKey, ControlTypeOK, Arrives, Begins, Replies
<1>8. CASE \E env \in Envelopes : Sign(p, s, env)
  BY <1>0, <1>8 DEF Sign, ControlTypeOK, Arrives
<1>9. CASE \E r \in Requests : Presentable(r) /\ Verify(p, s, r)
  <2>1. Begins(p, "verify")
    BY <1>9 DEF Begins
  <2>2. PICK r \in Requests : Verify(p, s, r)
    BY <1>9
  <2>3. /\ op'[p] = "verify"
        /\ \/ pc'[p] \in {"count", "current"}
           \/ pc'[p] = "returned" /\ outcome'[p] # "Receipt"
    BY <1>0, <2>2 DEF Verify, ControlTypeOK
  <2> QED BY <2>1, <2>3 DEF Arrives
<1> QED BY <1>1, <1>2, <1>3, <1>4, <1>5, <1>6, <1>7, <1>8, <1>9

LEMMA StepArrives ==
  ASSUME TypeOK, NEW p \in Procs, Step(p)
  PROVE  Arrives(p)
<1> USE DEF Goto, End, Same, At, Answered, Verifying, Scanning
<1>0. ControlTypeOK
  BY DEF TypeOK, ProviderTypeOK
<1>1. CASE GenerateStore(p)
  BY <1>0, <1>1 DEF GenerateStore, ControlTypeOK, Arrives
<1>2. CASE RotateCount(p)
  BY <1>0, <1>2 DEF RotateCount, ControlTypeOK, Arrives
<1>3. CASE RotateArchive(p)
  BY <1>0, <1>3 DEF RotateArchive, ControlTypeOK, Arrives
<1>4. CASE RotateBump(p)
  BY <1>0, <1>4 DEF RotateBump, ControlTypeOK, Arrives
<1>5. CASE RotateStore(p)
  BY <1>0, <1>5 DEF RotateStore, ControlTypeOK, Arrives
<1>6. CASE RevokeProbe(p)
  <2>1. op'[p] = "revoke" /\ pc'[p] \in {"returned", "flag"}
    BY <1>0, <1>6 DEF RevokeProbe, ControlTypeOK
  <2> QED BY <1>6, <2>1 DEF Arrives
<1>7. CASE RevokeFlag(p)
  BY <1>0, <1>7 DEF RevokeFlag, ControlTypeOK, Arrives
<1>8. CASE PublicRevoked(p)
  <2>1. op'[p] = "verify"
    BY <1>8 DEF PublicRevoked
  <2>2. pc'[p] = "registered" \/ (pc'[p] = "returned" /\ outcome'[p] = "KEY_REVOKED")
    BY <1>0, <1>8 DEF PublicRevoked, ControlTypeOK
  <2> QED BY <1>8, <2>1, <2>2 DEF Arrives
<1>9. CASE PublicRegistered(p)
  <2>1. \/ pc'[p] \in {"seed", "count"}
        \/ pc'[p] = "returned" /\ op'[p] = "public_key"
    BY <1>0, <1>9 DEF PublicRegistered, HavePublicKey, ControlTypeOK
  <2> QED BY <1>9, <2>1 DEF Arrives
<1>10. CASE PublicSeed(p)
  <2>1. \/ pc'[p] = "count"
        \/ pc'[p] = "returned" /\ (op'[p] = "public_key" \/ outcome'[p] # "Receipt")
    BY <1>0, <1>10 DEF PublicSeed, HavePublicKey, ControlTypeOK
  <2> QED BY <1>10, <2>1 DEF Arrives
<1>11. CASE VerifyCount(p)
  <2>1. op'[p] = "verify" /\ pc'[p] \in {"check", "archived flag"}
    BY <1>0, <1>11 DEF VerifyCount, ControlTypeOK
  <2> QED BY <1>11, <2>1 DEF Arrives
<1>12. CASE VerifyFlag(p)
  <2>1. op'[p] = "verify" /\ pc'[p] \in {"check", "archived flag", "archived key"}
    BY <1>0, <1>12 DEF VerifyFlag, NextVersion, ControlTypeOK
  <2> QED BY <1>12, <2>1 DEF Arrives
<1>13. CASE VerifyKey(p)
  <2>1. op'[p] = "verify" /\ pc'[p] \in {"check", "archived flag"}
    BY <1>0, <1>13 DEF VerifyKey, NextVersion, ControlTypeOK
  <2> QED BY <1>13, <2>1 DEF Arrives
<1>14. CASE VerifyCheck(p)
  <2>1. op'[p] = "verify" /\ pc'[p] = "returned"
    BY <1>0, <1>14 DEF VerifyCheck, ControlTypeOK
  <2> QED BY <1>14, <2>1 DEF Arrives
<1>15. CASE Return(p)
  BY <1>0, <1>15 DEF Return, Clear, ControlTypeOK, Arrives
<1> QED BY <1>1, <1>2, <1>3, <1>4, <1>5, <1>6, <1>7, <1>8, <1>9, <1>10, <1>11,
  <1>12, <1>13, <1>14, <1>15 DEF Step

LEMMA Arriving ==
  ASSUME TypeOK, NEW p \in Procs, StepOf(p)
  PROVE  Arrives(p)
<1>1. CASE Abort(p)
  BY <1>1 DEF Abort, Clear, TypeOK, ProviderTypeOK, ControlTypeOK, Arrives, Answered,
    Verifying, Scanning, At
<1> QED BY <1>1, CallArrives, StepArrives DEF StepOf

-----------------------------------------------------------------------------
(* Whoever calls what.                                                     *)

\* No method deletes a key.
LEMMA KeyStays ==
  ASSUME TypeOK, CallsWellFormed, NEW p \in Procs, StepOf(p), NEW s \in Slots,
         CurrentKey(s) # NoKey
  PROVE  CurrentKey(s)' # NoKey
BY EntriesWritten, SentinelAssumption DEF EntryWriters, CurrentKey

LEMMA EntriesFollow ==
  ASSUME TypeOK, CallsWellFormed, Track, NEW p \in Procs, StepOf(p), RevokerOK(p),
         NEW s \in Slots, EntriesFollowCalls(s)
  PROVE  EntriesFollowCalls(s)'
<1>1. EntryWriters(p, s)
  BY EntriesWritten
<1>2. /\ Users(s, "register_public_key") = {} => pubkey'[s] = NoKey
      /\ Users(s, "revoke") = {} => ~revoked'[s]
      /\ Minters(s) = {} => seed'[s] = NoKey
      /\ Users(s, "rotate") = {} => archiveCount'[s] = 0
  BY <1>1 DEF EntriesFollowCalls, EntryWriters
<1>3. revoked'[s] => CurrentKey(s)' # NoKey
  <2>1. revoked'[s] => CurrentKey(s) # NoKey
    BY <1>1 DEF EntriesFollowCalls, EntryWriters, RevokerOK, RevokeFlag
  <2> QED BY <2>1, KeyStays
<1>4. disowned'[s] # {} => revoked'[s]
  <2>1. CASE \E q \in Procs : RevokeFlag(q) /\ slot[q] = s
    BY <2>1 DEF RevokeFlag, TypeOK, ProviderTypeOK, KeystoreTypeOK
  <2>2. CASE ~\E q \in Procs : RevokeFlag(q) /\ slot[q] = s
    <3>1. disowned'[s] = disowned[s]
      BY <2>2 DEF Track
    <3> QED BY <1>1, <3>1 DEF EntriesFollowCalls, EntryWriters
  <2> QED BY <2>1, <2>2
<1> QED BY <1>2, <1>3, <1>4 DEF EntriesFollowCalls, Users, Minters

LEMMA RevokerStep ==
  ASSUME TypeOK, CallsWellFormed, NEW p \in Procs, StepOf(p), NEW q \in Procs, RevokerOK(q)
  PROVE  RevokerOK(q)'
<1>1. CASE q # p
  <2>1. Frame(q)
    BY <1>1, FrameOthers DEF TypeOK
  <2>2. \A s \in Slots : CurrentKey(s) # NoKey => CurrentKey(s)' # NoKey
    BY KeyStays
  <2>3. pc[q] # "idle" /\ CurrentKey(slot[q]) # NoKey => CurrentKey(slot[q])' # NoKey
    BY <2>1, <2>2, InCall DEF Frame, CurrentKey
  <2> QED BY <2>1, <2>3 DEF Frame, RevokerOK, At
<1>2. CASE q = p
  <2>1. At(p, "revoke", "probe")' => existing'[p] = NoKey \/ CurrentKey(slot[p])' # NoKey
    <3> SUFFICES ASSUME NEW s \in Slots, Revoke(p, s), existing'[p] # NoKey
                 PROVE  CurrentKey(slot[p])' # NoKey
      BY Arriving DEF Arrives, Begins, At
    <3>1. slot'[p] = s /\ existing'[p] = seed[s] /\ UNCHANGED keystore
      BY DEF Revoke, Begin, TypeOK, ProviderTypeOK, ControlTypeOK, RegisterTypeOK
    <3> QED BY <3>1 DEF keystore, CurrentKey
  <2>2. At(p, "revoke", "flag")' => CurrentKey(slot[p])' # NoKey
    <3> SUFFICES ASSUME RevokeProbe(p), pc'[p] = "flag"
                 PROVE  CurrentKey(slot[p])' # NoKey
      BY Arriving DEF Arrives, At
    <3>1. existing[p] # NoKey \/ pubkey[slot[p]] # NoKey
      BY DEF RevokeProbe, End, TypeOK, ProviderTypeOK, ControlTypeOK
    <3>2. CurrentKey(slot[p]) # NoKey
      BY <1>2, <3>1 DEF RevokeProbe, RevokerOK, CurrentKey
    <3> QED BY <3>2 DEF RevokeProbe, Same, keystore, CurrentKey
  <2> QED BY <1>2, <2>1, <2>2 DEF RevokerOK, At, CurrentKey
<1> QED BY <1>1, <1>2

LEMMA KeystoreInit == ASSUME Init PROVE KeystoreInv
<1>1. TypeOK /\ CallsWellFormed
  BY ProviderTypeInit DEF Init, HistoryInit, TypeOK
<1>2. \A s \in Slots : EntriesFollowCalls(s)
  BY DEF Init, ProviderInit, HistoryInit, EntriesFollowCalls
<1>3. \A p \in Procs : RevokerOK(p) /\ HistoryOK(p)
  BY DEF Init, ProviderInit, RevokerOK, HistoryOK, At, Watched
<1> QED BY <1>1, <1>2, <1>3 DEF KeystoreInv

LEMMA KeystoreNext == ASSUME KeystoreInv, Next PROVE KeystoreInv'
<1>1. PICK p \in Procs : StepOf(p)
  BY DEF Next, ProviderNext, StepOf
<1>2. Track /\ TypeOK /\ CallsWellFormed
  BY DEF Next, KeystoreInv
<1>3. TypeOK' /\ CallsWellFormed'
  BY <1>2, ProviderTypes, HistoryTypes DEF Next, TypeOK
<1>4. \A s \in Slots : EntriesFollowCalls(s)'
  BY <1>1, <1>2, EntriesFollow DEF KeystoreInv
<1>5. \A q \in Procs : RevokerOK(q)' /\ HistoryOK(q)'
  BY <1>1, <1>2, RevokerStep, HistoryStep DEF KeystoreInv
<1> QED BY <1>3, <1>4, <1>5 DEF KeystoreInv

LEMMA KeystoreStutter == ASSUME KeystoreInv, UNCHANGED vars PROVE KeystoreInv'
<1>1. TypeOK' /\ CallsWellFormed'
  BY DEF KeystoreInv, vars, provider, keystore, world, locals, history, TypeOK,
    ProviderTypeOK, KeystoreTypeOK, ControlTypeOK, RegisterTypeOK, CallsWellFormed
<1>2. \A s \in Slots : EntriesFollowCalls(s)'
  BY DEF KeystoreInv, vars, provider, keystore, history, EntriesFollowCalls, CurrentKey
<1>3. Accepted' = Accepted
  BY DEF vars, provider, keystore, Accepted, Accepts, CurrentKey, Usable, ArchivedAt
<1>4. \A p \in Procs : RevokerOK(p)' /\ HistoryOK(p)'
  BY <1>3 DEF KeystoreInv, vars, provider, keystore, locals, history, RevokerOK,
    HistoryOK, At, Watched, CurrentKey
<1> QED BY <1>1, <1>2, <1>4 DEF KeystoreInv

\* Whoever calls what, a key is flagged as revoked only where there is one, and an
\* entry that no method of the instance writes is never there.
THEOREM EntriesHaveWriters == Spec => []KeystoreInv
<1>1. KeystoreInv /\ [Next]_vars => KeystoreInv'
  BY KeystoreNext, KeystoreStutter
<1> QED BY <1>1, KeystoreInit, PTL DEF Spec

\* A read of a scanning verify() is one of a version's flag, of its key, or none.
LEMMA ScanReads ==
  ASSUME TypeOK, NEW p \in Procs, StepOf(p), Scanning(p), Scanning(p)'
  PROVE  VerifyFlag(p) \/ VerifyKey(p)
<1>1. ~Call(p)
  BY DEF Scanning, Call, Generate, Rotate, Revoke, RevokeVersion, RegisterPublicKey,
    PublicKey, Sign, Verify, Begin
<1>2. ~Abort(p) /\ ~Return(p)
  BY DEF Scanning, Abort, Return, Clear, TypeOK, ProviderTypeOK, ControlTypeOK
<1>3. ~VerifyCheck(p)
  BY DEF Scanning, VerifyCheck, End, TypeOK, ProviderTypeOK, ControlTypeOK
<1> QED BY <1>1, <1>2, <1>3 DEF StepOf, Step, Scanning, At, GenerateStore, RotateCount,
  RotateArchive, RotateBump, RotateStore, RevokeProbe, RevokeFlag, PublicRevoked,
  PublicRegistered, PublicSeed, VerifyCount

\* A version passed by is two reads, and a key's read follows its flag's.
LEMMA FewerReads ==
  ASSUME NEW l \in Int, NEW v \in Int, NEW a \in {0, 1}, NEW b \in {0, 1}
  PROVE  /\ 2 * (l - (v + 1)) + a < 2 * (l - v) + b
         /\ 2 * (l - v) + 0 < 2 * (l - v) + 1
  OBVIOUS

\* Each of them leaves one read less to make.
LEMMA ScanNearer ==
  ASSUME TypeOK, NEW p \in Procs, VerifyFlag(p) \/ VerifyKey(p)
  PROVE  ReadsAhead(p)' < ReadsAhead(p)
<1> DEFINE rest(c) == IF c = "archived flag" THEN 1 ELSE 0
<1>1. /\ limit'[p] = limit[p]
      /\ \/ /\ pc[p] = "archived flag" /\ pc'[p] = "archived key"
            /\ version'[p] = version[p]
         \/ /\ pc[p] \in {"archived flag", "archived key"}
            /\ version'[p] = version[p] + 1
  BY DEF VerifyFlag, VerifyKey, NextVersion, Goto, At, TypeOK, ProviderTypeOK,
    ControlTypeOK, RegisterTypeOK
<1>2. version[p] \in Int /\ limit[p] \in Int
  BY VersionAssumption DEF TypeOK, ProviderTypeOK, RegisterTypeOK
<1>3. ReadsAhead(p) = 2 * (limit[p] - version[p]) + rest(pc[p])
  BY DEF ReadsAhead
<1>4. ReadsAhead(p)' = 2 * (limit'[p] - version'[p]) + rest(pc'[p])
  BY DEF ReadsAhead
<1>5. rest(pc[p]) \in {0, 1} /\ rest(pc'[p]) \in {0, 1}
  OBVIOUS
<1>6. CASE pc'[p] = "archived key" /\ version'[p] = version[p] /\ pc[p] = "archived flag"
  <2>1. rest(pc[p]) = 1 /\ rest(pc'[p]) = 0
    BY <1>6
  <2> HIDE DEF rest
  <2>2. ReadsAhead(p)' = 2 * (limit[p] - version[p]) + 0
    BY <1>1, <1>4, <1>6, <2>1
  <2>3. ReadsAhead(p) = 2 * (limit[p] - version[p]) + 1
    BY <1>3, <2>1
  <2> QED BY <1>2, <2>2, <2>3, FewerReads
<1>7. CASE version'[p] = version[p] + 1
  <2> HIDE DEF rest
  <2>1. ReadsAhead(p)' = 2 * (limit[p] - (version[p] + 1)) + rest(pc'[p])
    BY <1>1, <1>4, <1>7
  <2>2. 2 * (limit[p] - (version[p] + 1)) + rest(pc'[p])
          < 2 * (limit[p] - version[p]) + rest(pc[p])
    BY <1>2, <1>5, FewerReads
  <2> QED BY <1>3, <2>1, <2>2
<1> QED BY <1>1, <1>6, <1>7

\* However many processes rotate meanwhile, and for every bound on the versions:
\* a verify() that has read the count comes nearer to its end with every read, and
\* nobody else moves that end (_archived_verify_keys).
THEOREM ScansAdvance == Spec => ScanAdvances
<1>1. ASSUME TypeOK, [Next]_vars, NEW p \in Procs, Scanning(p), Scanning(p)'
      PROVE  \/ ReadsAhead(p)' < ReadsAhead(p)
             \/ UNCHANGED <<pc[p], version[p], limit[p]>>
  <2>1. CASE UNCHANGED vars
    BY <2>1 DEF vars, provider, locals
  <2>2. CASE Next
    <3>1. PICK q \in Procs : StepOf(q)
      BY <2>2 DEF Next, ProviderNext, StepOf
    <3>2. CASE q = p
      BY <1>1, <3>1, <3>2, ScanReads, ScanNearer
    <3>3. CASE q # p
      BY <1>1, <3>1, <3>3, FrameOthers DEF Frame, TypeOK
    <3> QED BY <3>2, <3>3
  <2> QED BY <1>1, <2>1, <2>2
<1>2. TypeOK /\ [Next]_vars =>
        [\A p \in Procs : Scanning(p) /\ Scanning(p)' =>
           \/ ReadsAhead(p)' < ReadsAhead(p)
           \/ UNCHANGED <<pc[p], version[p], limit[p]>>]_vars
  BY <1>1
<1> QED BY <1>2, TypeCorrect, PTL DEF Spec, ScanAdvances

-----------------------------------------------------------------------------
(* A settled slot.                                                         *)

\* The process that mints the keys of a slot is not disturbed by the others.
LEMMA MinterUndisturbed ==
  ASSUME TypeOK, SingleMinter, CallsWellFormed,
         NEW p \in Procs, StepOf(p), NEW q \in Procs, q # p, MinterOK(q)
  PROVE  MinterOK(q)'
<1>1. Frame(q)
  BY FrameOthers DEF TypeOK
<1>2. CASE op[q] \in {"generate", "rotate"} /\ pc[q] # "idle"
  <2>1. slot[q] \in Slots /\ q \in Minters(slot[q])
    BY <1>2, InCall DEF Minters
  <2>2. p \notin Minters(slot[q])
    BY <2>1 DEF SingleMinter, SoleMinter
  <2>3. /\ seed'[slot[q]] = seed[slot[q]]
        /\ archive'[slot[q]] = archive[slot[q]]
        /\ archiveCount'[slot[q]] = archiveCount[slot[q]]
    BY <2>1, <2>2, EntriesWritten DEF EntryWriters, Minters
  <2> QED BY <1>1, <2>3 DEF Frame, MinterOK, Rotating, At, ArchivedAt
<1>3. CASE ~(op[q] \in {"generate", "rotate"} /\ pc[q] # "idle")
  BY <1>1, <1>3 DEF Frame, MinterOK, Rotating, At
<1> QED BY <1>2, <1>3

LEMMA MintersStep ==
  ASSUME TypeOK, SingleMinter, CallsWellFormed, NEW p \in Procs, StepOf(p),
         NEW q \in Procs, MinterOK(q)
  PROVE  MinterOK(q)'
<1>1. CASE q = p /\ Abort(p)
  BY <1>1, NotMinting DEF Abort, Clear, Minter, TypeOK, ProviderTypeOK, ControlTypeOK
<1> QED BY <1>1, MinterUndisturbed, CallMinter, StepMinter DEF StepOf

\* The archive of a slot with one minter only grows.
LEMMA ArchiveGrows ==
  ASSUME TypeOK, CallsWellFormed, NEW p \in Procs, MinterOK(p), StepOf(p), NEW s \in Slots
  PROVE  Rely(s)
<1>1. CASE RevokeFlag(p) \/ \E t \in Slots : RegisterPublicKey(p, t)
  <2>1. /\ seed' = seed /\ archive' = archive /\ archiveCount' = archiveCount
        /\ revokedVersions' = revokedVersions
    BY <1>1 DEF RevokeFlag, RegisterPublicKey
  <2>2. archiveCount[s] <= archiveCount[s]
    BY ReadTypes, VersionAssumption DEF TypeOK, ProviderTypeOK
  <2> QED BY <2>1, <2>2 DEF Rely
<1> QED BY <1>1, Writing, RelyQuiet, RelyRevokeVersion, RelyStore, RelyArchive, RelyBump
  DEF AnyWrite, Writes

\* What a reader of a settled slot has read of the flag, the registered key and the
\* seed still tells which key was current.
LEMMA Undisturbed ==
  ASSUME TypeOK, CallsWellFormed, NEW p \in Procs, StepOf(p), MinterOK(p), RevokerOK(p),
         NEW q \in Procs, q # p, pc[q] # "idle", NEW s \in Slots, s = slot[q], Settled(s),
         EntriesFollowCalls(s), EntriesFollowCalls(s)'
  PROVE  /\ revoked'[s] => /\ CurrentKey(s)' = CurrentKey(s)
                           /\ CurrentKey(s) # NoKey
         /\ pubkey[s] = NoKey \/ seed[s] = NoKey => pubkey'[s] = NoKey \/ seed'[s] = NoKey
<1>1. EntryWriters(p, s)
  BY EntriesWritten
<1>2. CASE Users(s, "revoke") = {} /\ Users(s, "register_public_key") = {}
  BY <1>2 DEF EntriesFollowCalls, Users
<1>3. CASE Users(s, "revoke") = {} /\ Minters(s) = {}
  BY <1>3 DEF EntriesFollowCalls, Users, Minters
<1>4. CASE Users(s, "rotate") = {} /\ Users(s, "register_public_key") = {}
  <2>1. pubkey[s] = NoKey /\ pubkey'[s] = NoKey
    BY <1>4 DEF EntriesFollowCalls, Users
  <2>2. ASSUME revoked'[s] PROVE CurrentKey(s) # NoKey
    BY <1>1, <2>2 DEF EntryWriters, EntriesFollowCalls, RevokerOK, RevokeFlag
  <2>3. ASSUME revoked'[s] PROVE seed'[s] = seed[s]
    <3> SUFFICES ASSUME seed'[s] # seed[s] PROVE FALSE
      OBVIOUS
    <3>1. p \in Minters(s) /\ (GenerateStore(p) \/ RotateStore(p))
      BY <1>1 DEF EntryWriters
    <3>2. slot[p] = s
      BY <3>1 DEF GenerateStore, RotateStore, StoreFreshSeed, TypeOK, ProviderTypeOK,
        KeystoreTypeOK
    <3>3. GenerateStore(p)
      BY <1>4, <3>1, <3>2, InCall DEF RotateStore, At
    <3>4. seed[s] = NoKey
      BY <3>2, <3>3 DEF GenerateStore, MinterOK
    <3> QED BY <2>1, <2>2, <2>3, <3>4 DEF CurrentKey
  <2> QED BY <2>1, <2>2, <2>3 DEF CurrentKey
<1>5. CASE OneCaller(s)
  BY <1>5, OneCallerAlone DEF CurrentKey, EntriesFollowCalls
<1> QED BY <1>2, <1>3, <1>4, <1>5 DEF Settled

\* No revocation, registration or rotation by another process invalidates what a
\* reader knows.
LEMMA ReaderFrame ==
  ASSUME TypeOK, TypeOK', CallsWellFormed, Track, NEW p \in Procs, StepOf(p), MinterOK(p), RevokerOK(p),
         NEW q \in Procs, q # p, pc[q] # "idle", Settled(slot[q]), HistoryOK(q), ReaderOK(q),
         EntriesFollowCalls(slot[q]), EntriesFollowCalls(slot[q])'
  PROVE  ReaderOK(q)'
<1>0. PICK s \in Slots : s = slot[q]
  BY InCall
<1>1. Frame(q) /\ slot'[q] = s /\ EntryWriters(p, s) /\ Rely(s)
  BY <1>0, FrameOthers, EntriesWritten, ArchiveGrows DEF Frame, TypeOK
<1>2. seen[q] \subseteq seen'[q]
  BY <1>1, Narrowing DEF Frame
<1>3. EntriesFollowCalls(s) /\ EntriesFollowCalls(s)'
  BY <1>0, <1>1 DEF EntriesFollowCalls, CurrentKey
<1>4. /\ revoked'[s] => CurrentKey(s)' = CurrentKey(s) /\ CurrentKey(s) # NoKey
      /\ pubkey[s] = NoKey \/ seed[s] = NoKey => pubkey'[s] = NoKey \/ seed'[s] = NoKey
  BY <1>0, <1>3, Undisturbed
<1>5. ~revoked[s] /\ CurrentKey(s) # NoKey => CurrentKey(s) \in seen[q]
  <2>1. CurrentKey(s) \in Keys \cup {NoKey}
    BY ReadTypes DEF CurrentKey, TypeOK, ProviderTypeOK
  <2> QED BY <1>0, <2>1 DEF HistoryOK, Watched, Accepted, Accepts
<1>6. ASSUME pc'[q] \in {"registered", "seed"}, revoked'[s]
      PROVE  CurrentKey(s)' \in seen'[q]
  BY <1>0, <1>1, <1>2, <1>4, <1>5, <1>6 DEF ReaderOK, Frame
<1>7. pc'[q] = "seed" => pubkey'[s] = NoKey \/ seed'[s] = NoKey
  BY <1>0, <1>1, <1>4 DEF ReaderOK, Frame
<1>8. Verifying(q)' => BoundTo(s, request'[q].env) /\ candidates'[q] \subseteq seen'[q]
  BY <1>0, <1>1, <1>2 DEF ReaderOK, Frame, Verifying, BoundTo
<1>9. Scanning(q)' => limit'[q] <= archiveCount'[s]
  <2> SUFFICES ASSUME Scanning(q)' PROVE limit[q] <= archiveCount'[s]
    BY <1>1 DEF Frame
  <2>1. limit[q] <= archiveCount[s] /\ archiveCount[s] <= archiveCount'[s]
    BY <1>0, <1>1 DEF Frame, Scanning, ReaderOK, Rely
  <2>2. /\ limit[q] \in 0 .. MaxVersion /\ archiveCount[s] \in 0 .. MaxVersion
        /\ archiveCount'[s] \in 0 .. MaxVersion
    BY DEF TypeOK, ProviderTypeOK, KeystoreTypeOK, RegisterTypeOK
  <2> QED BY <2>1, <2>2, VersionAssumption
<1>10. At(q, "verify", "archived key")' =>
         archive'[s][version'[q]] \in seen'[q] \cup {NoKey}
  <2> SUFFICES ASSUME At(q, "verify", "archived key")
               PROVE  archive'[s][version[q]] = archive[s][version[q]]
    BY <1>0, <1>1, <1>2 DEF ReaderOK, Frame, At
  <2>0. version[q] \in Versions
    BY ScanInRange DEF At, TypeOK, ProviderTypeOK
  <2>1. version[q] < limit[q] /\ limit[q] <= archiveCount[s]
    BY <1>0 DEF At, ReaderOK, Scanning, CallsWellFormed
  <2>2. version[q] < archiveCount[s]
    <3>1. /\ version[q] \in 0 .. MaxVersion /\ limit[q] \in 0 .. MaxVersion
          /\ archiveCount[s] \in 0 .. MaxVersion
      BY StepIndices, ReadTypes DEF TypeOK, ProviderTypeOK
    <3>2. version[q] \in Int /\ limit[q] \in Int /\ archiveCount[s] \in Int
      BY <3>1, IndexIsInt
    <3> QED BY <2>1, <3>2, Transitive
  <2> QED BY <1>1, <2>0, <2>2 DEF Rely
<1> QED BY <1>1, <1>6, <1>7, <1>8, <1>9, <1>10 DEF ReaderOK, CurrentKey

\* The key a reader finds, registered or as a seed, was accepted during its call.
LEMMA KeyFoundSeen ==
  ASSUME TypeOK, CallsWellFormed, NEW p \in Procs, HistoryOK(p), ReaderOK(p)
  PROVE  /\ pc[p] = "registered" /\ pubkey[slot[p]] # NoKey => pubkey[slot[p]] \in seen[p]
         /\ pc[p] = "seed" /\ seed[slot[p]] # NoKey => seed[slot[p]] \in seen[p]
<1> SUFFICES ASSUME pc[p] \in {"registered", "seed"}, CurrentKey(slot[p]) # NoKey
             PROVE  CurrentKey(slot[p]) \in seen[p]
  BY DEF ReaderOK, CurrentKey
<1>1. slot[p] \in Slots
  BY InCall
<1>2. CASE revoked[slot[p]]
  BY <1>2 DEF ReaderOK
<1>3. CASE ~revoked[slot[p]]
  <2>1. CurrentKey(slot[p]) \in Keys
    BY <1>1, ReadTypes DEF CurrentKey, TypeOK, ProviderTypeOK
  <2> QED BY <1>1, <1>3, <2>1 DEF HistoryOK, Watched, Accepted, Accepts
<1> QED BY <1>2, <1>3

\* So was an archived key whose version the reader found unrevoked.
LEMMA ArchivedKeySeen ==
  ASSUME TypeOK, CallsWellFormed, NEW p \in Procs, HistoryOK(p), ReaderOK(p),
         At(p, "verify", "archived flag"), version[p] \notin revokedVersions[slot[p]]
  PROVE  archive[slot[p]][version[p]] \in seen[p] \cup {NoKey}
<1> DEFINE s == slot[p]
           k == archive[s][version[p]]
<1>1. s \in Slots /\ version[p] \in Versions
  BY InCall, ScanInRange DEF At, TypeOK, ProviderTypeOK
<1>2. version[p] < archiveCount[s]
  <2>1. version[p] < limit[p] /\ limit[p] <= archiveCount[s]
    BY DEF At, ReaderOK, Scanning, CallsWellFormed
  <2>2. /\ version[p] \in 0 .. MaxVersion /\ limit[p] \in 0 .. MaxVersion
        /\ archiveCount[s] \in 0 .. MaxVersion
    BY <1>1, StepIndices, ReadTypes DEF TypeOK, ProviderTypeOK
  <2>3. version[p] \in Int /\ limit[p] \in Int /\ archiveCount[s] \in Int
    BY <2>2, IndexIsInt
  <2> QED BY <2>1, <2>3, Transitive
<1>3. k \in Keys \cup {NoKey}
  BY <1>1, ReadTypes DEF TypeOK, ProviderTypeOK
<1>4. version[p] \in Usable(s, k)
  BY <1>1, <1>2 DEF Usable, ArchivedAt
<1>5. k \in Keys => k \in Accepted[s]
  BY <1>1, <1>4 DEF Accepted, Accepts
<1> QED BY <1>3, <1>5 DEF HistoryOK, Watched, At

\* Every read of a reader adds what the next one relies on.
LEMMA ReaderOwn ==
  ASSUME TypeOK, CallsWellFormed, Track, NEW p \in Procs, StepOf(p),
         HistoryOK(p), ReaderOK(p)
  PROVE  ReaderOK(p)'
<1>0. /\ Arrives(p)
      /\ pc[p] # "idle" /\ pc'[p] # "idle" => seen[p] \subseteq seen'[p]
      /\ ControlTypeOK /\ RegisterTypeOK
  BY Arriving, Narrowing DEF TypeOK, ProviderTypeOK
<1>1. pc'[p] \in {"registered", "seed"} /\ revoked'[slot'[p]] =>
        CurrentKey(slot[p])' \in seen'[p]
  <2>1. pc'[p] = "registered" => ~revoked'[slot'[p]]
    <3>1. ASSUME PublicRevoked(p), pc'[p] = "registered" PROVE ~revoked'[slot'[p]]
      BY <1>0, <3>1 DEF PublicRevoked, End, Same, keystore, ControlTypeOK
    <3>2. ASSUME NEW s \in Slots, PublicKey(p, s), pc'[p] = "registered"
          PROVE  ~revoked'[slot'[p]]
      BY <1>0, <3>2 DEF PublicKey, Begin, End, keystore, ControlTypeOK
    <3> QED BY <1>0, <3>1, <3>2 DEF Arrives, Begins
  <2>2. ASSUME PublicRegistered(p), pc'[p] = "seed", revoked'[slot'[p]]
        PROVE  CurrentKey(slot[p])' \in seen'[p]
    <3>1. slot' = slot /\ UNCHANGED keystore /\ pc[p] = "registered"
      BY <2>2 DEF PublicRegistered, Same
    <3> QED BY <1>0, <2>2, <3>1 DEF ReaderOK, CurrentKey, keystore
  <2> QED BY <1>0, <2>1, <2>2 DEF Arrives
<1>2. pc'[p] = "seed" => pubkey'[slot'[p]] = NoKey
  <2> SUFFICES ASSUME PublicRegistered(p), pc'[p] = "seed" PROVE pubkey'[slot'[p]] = NoKey
    BY <1>0 DEF Arrives
  <2> QED BY <1>0 DEF PublicRegistered, HavePublicKey, Goto, End, Same, keystore, ControlTypeOK
<1>3. Verifying(p)' => BoundTo(slot'[p], request'[p].env) /\ candidates'[p] \subseteq seen'[p]
  <2>1. ASSUME NEW s \in Slots, NEW r \in Requests, Verify(p, s, r), pc'[p] # "returned"
        PROVE  BoundTo(slot'[p], request'[p].env) /\ candidates'[p] = {}
    <3>1. slot'[p] = s /\ request'[p] = r /\ candidates'[p] = {}
      BY <1>0, <2>1 DEF Verify, Begin, ControlTypeOK, RegisterTypeOK
    <3>2. BoundTo(s, r.env)
      BY <1>0, <2>1 DEF Verify, End, ControlTypeOK
    <3> QED BY <3>1, <3>2 DEF BoundTo
  <2>2. ASSUME \/ PublicRevoked(p) \/ PublicRegistered(p) \/ PublicSeed(p)
               \/ VerifyCount(p) \/ VerifyFlag(p) \/ VerifyKey(p),
               op'[p] = "verify", pc'[p] \notin {"idle", "returned"}
        PROVE  BoundTo(slot'[p], request'[p].env) /\ candidates'[p] \subseteq seen'[p]
    <3>1. slot' = slot /\ request' = request /\ op' = op
      BY <2>2 DEF PublicRevoked, PublicRegistered, PublicSeed, VerifyCount, VerifyFlag,
        VerifyKey, Same, locals
    <3>2. pc[p] \notin {"idle", "returned"}
      BY <2>2 DEF PublicRevoked, PublicRegistered, PublicSeed, VerifyCount, VerifyFlag,
        VerifyKey, At
    <3>3. BoundTo(slot[p], request[p].env) /\ candidates[p] \subseteq seen[p]
      BY <2>2, <3>1, <3>2 DEF ReaderOK, Verifying
    <3>4. candidates'[p] \subseteq seen[p]
      <4>1. CASE PublicRevoked(p) \/ VerifyCount(p) \/ VerifyFlag(p)
        BY <3>3, <4>1 DEF PublicRevoked, VerifyCount, VerifyFlag, locals
      <4>2. CASE PublicRegistered(p)
        BY <1>0, <3>3, <4>2, KeyFoundSeen
          DEF PublicRegistered, HavePublicKey, RegisterTypeOK
      <4>3. CASE PublicSeed(p)
        BY <1>0, <3>3, <4>3, KeyFoundSeen DEF PublicSeed, HavePublicKey, RegisterTypeOK
      <4>4. CASE VerifyKey(p)
        BY <1>0, <3>3, <4>4 DEF VerifyKey, ReaderOK, RegisterTypeOK
      <4> QED BY <2>2, <4>1, <4>2, <4>3, <4>4
    <3> QED BY <1>0, <2>2, <3>1, <3>2, <3>3, <3>4 DEF BoundTo
  <2> QED BY <1>0, <2>1, <2>2 DEF Arrives, Begins, Verifying
<1>4. Scanning(p)' => limit'[p] <= archiveCount'[slot'[p]]
  <2>1. ASSUME VerifyCount(p) PROVE limit'[p] <= archiveCount'[slot'[p]]
    <3>1. limit'[p] = archiveCount[slot[p]] /\ archiveCount'[slot'[p]] = archiveCount[slot[p]]
      BY <1>0, <2>1 DEF VerifyCount, Same, keystore, RegisterTypeOK
    <3>2. archiveCount[slot[p]] \in 0 .. MaxVersion
      BY <2>1, InCall, ReadTypes DEF VerifyCount, At, TypeOK, ProviderTypeOK
    <3> QED BY <3>1, <3>2, VersionAssumption
  <2>2. ASSUME VerifyFlag(p) \/ VerifyKey(p) PROVE limit'[p] <= archiveCount'[slot'[p]]
    BY <2>2 DEF VerifyFlag, VerifyKey, At, Same, keystore, ReaderOK, Scanning
  <2> QED BY <1>0, <2>1, <2>2 DEF Arrives
<1>5. At(p, "verify", "archived key")' =>
        archive'[slot'[p]][version'[p]] \in seen'[p] \cup {NoKey}
  <2> SUFFICES ASSUME VerifyFlag(p), pc'[p] = "archived key"
               PROVE  archive'[slot'[p]][version'[p]] \in seen'[p] \cup {NoKey}
    BY <1>0 DEF Arrives, At
  <2>1. /\ slot' = slot /\ archive' = archive /\ version'[p] = version[p]
        /\ At(p, "verify", "archived flag") /\ version[p] \notin revokedVersions[slot[p]]
    BY <1>0 DEF VerifyFlag, NextVersion, Goto, Same, keystore, ControlTypeOK
  <2> QED BY <1>0, <2>1, ArchivedKeySeen DEF At
<1> QED BY <1>1, <1>2, <1>3, <1>4, <1>5 DEF ReaderOK

LEMMA ReaderStep ==
  ASSUME TypeOK, TypeOK', CallsWellFormed, Track, SettledSlots,
         NEW p \in Procs, StepOf(p), MinterOK(p), RevokerOK(p),
         \A s \in Slots : EntriesFollowCalls(s) /\ EntriesFollowCalls(s)',
         NEW q \in Procs, HistoryOK(q), ReaderOK(q)
  PROVE  ReaderOK(q)'
<1>1. CASE q = p
  BY <1>1, ReaderOwn
<1>2. CASE q # p /\ pc[q] # "idle"
  <2>1. PICK s \in Slots : s = slot[q] /\ s = slot'[q]
    BY <1>2, InCall, FrameOthers DEF Frame, TypeOK
  <2>2. EntriesFollowCalls(slot[q]) /\ EntriesFollowCalls(slot[q])'
    BY <2>1 DEF EntriesFollowCalls, CurrentKey
  <2> QED BY <1>2, <2>1, <2>2, ReaderFrame DEF SettledSlots
<1>3. CASE q # p /\ pc[q] = "idle"
  BY <1>3, FrameOthers DEF Frame, TypeOK, ReaderOK, Verifying, Scanning, At
<1> QED BY <1>1, <1>2, <1>3

-----------------------------------------------------------------------------
(* The answers.                                                            *)

HandedOutOK(p) ==
  Answered(p, "public_key") /\ outcome[p] \in Keys => outcome[p] \in seen[p]

LEMMA SettledAnswers ==
  ASSUME TypeOK, CallsWellFormed, Track, NEW p \in Procs, StepOf(p),
         NEW q \in Procs, HistoryOK(q), ReaderOK(q), ReceiptOK(q), HandedOutOK(q)
  PROVE  ReceiptOK(q)' /\ HandedOutOK(q)'
<1>0. /\ pc[q] # "idle" /\ pc'[q] # "idle" => seen[q] \subseteq seen'[q]
      /\ ControlTypeOK
  BY Narrowing DEF TypeOK, ProviderTypeOK
<1>1. CASE q # p
  <2>1. Frame(q)
    BY <1>1, FrameOthers DEF TypeOK
  <2>2. ReceiptOK(q)'
    BY <1>0, <2>1 DEF Frame, ReceiptOK, Answered, Genuine, BoundTo
  <2>3. HandedOutOK(q)'
    BY <1>0, <2>1 DEF Frame, HandedOutOK, Answered
  <2> QED BY <2>2, <2>3
<1>2. CASE q = p
  <2>0. Arrives(p)
    BY Arriving
  <2>1. ASSUME VerifyCheck(p), outcome'[p] = "Receipt"
        PROVE  Genuine(request[p])' /\ BoundTo(slot[p], request[p].env)'
                 /\ request'[p].key \in seen'[p]
    <3>1. /\ slot' = slot /\ request' = request /\ pc'[p] = "returned" /\ Verifying(p)
          /\ Genuine(request[p]) /\ request[p].key \in candidates[p]
      BY <1>0, <2>1 DEF VerifyCheck, End, Same, locals, At, Verifying, ControlTypeOK
    <3> QED BY <1>0, <1>2, <3>1 DEF ReaderOK, Genuine, BoundTo, Verifying
  <2>2. ASSUME PublicRegistered(p) \/ PublicSeed(p), pc'[p] = "returned", outcome'[p] \in Keys
        PROVE  outcome'[p] \in seen'[p]
    <3>1. pc[p] \in {"registered", "seed"}
      BY <2>2 DEF PublicRegistered, PublicSeed
    <3>2. \/ pc[p] = "registered" /\ pubkey[slot[p]] # NoKey /\ outcome'[p] = pubkey[slot[p]]
          \/ pc[p] = "seed" /\ seed[slot[p]] # NoKey /\ outcome'[p] = seed[slot[p]]
      BY <1>0, <2>2, SentinelAssumption
        DEF PublicRegistered, PublicSeed, HavePublicKey, Goto, End, Replies, ControlTypeOK
    <3>3. outcome'[p] \in seen[p]
      BY <1>2, <3>2, KeyFoundSeen
    <3> QED BY <1>0, <1>2, <2>2, <3>1, <3>3
  <2>3. ReceiptOK(p)'
    BY <2>0, <2>1 DEF Arrives, ReceiptOK
  <2>4. HandedOutOK(p)'
    BY <2>0, <2>2 DEF Arrives, HandedOutOK, Answered
  <2> QED BY <1>2, <2>3, <2>4
<1> QED BY <1>1, <1>2

-----------------------------------------------------------------------------
(* A key that stays accepted on a settled slot.                            *)

\* A new archive version holds the seed of the moment, which stays in place.
LEMMA ArchiveStep ==
  ASSUME TypeOK, CallsWellFormed, NEW p \in Procs, MinterOK(p), StepOf(p),
         NEW s \in Slots, ArchiveOK(s)
  PROVE  ArchiveOK(s)'
<1>0. KeystoreTypeOK /\ Rely(s) /\ EntryWriters(p, s)
  BY ArchiveGrows, EntriesWritten DEF TypeOK, ProviderTypeOK
<1>1. minted \subseteq minted'
  BY Writing DEF Quiet, AnyWrite, Writes, RevokeVersion, GenerateStore, RotateArchive,
    RotateBump, RotateStore, StoreFreshSeed, RevokeFlag, RegisterPublicKey, world
<1>2. seed'[s] \in minted' \cup {NoKey}
  <2>1. CASE seed'[s] = seed[s]
    BY <1>1, <2>1 DEF ArchiveOK
  <2>2. CASE seed'[s] # seed[s]
    <3>1. GenerateStore(p) \/ RotateStore(p)
      BY <1>0, <2>2 DEF EntryWriters
    <3> QED BY <1>0, <2>2, <3>1 DEF GenerateStore, RotateStore, StoreFreshSeed, KeystoreTypeOK
  <2> QED BY <2>1, <2>2
<1>3. archiveCount'[s] # archiveCount[s] => seed[s] # NoKey
  <2> SUFFICES ASSUME archiveCount'[s] # archiveCount[s] PROVE seed[s] # NoKey
    OBVIOUS
  <2>1. RotateBump(p)
    BY Writing DEF Quiet, AnyWrite, Writes, RevokeVersion, GenerateStore, RotateArchive,
      RotateStore, RevokeFlag, RegisterPublicKey, keystore
  <2>2. slot[p] = s
    BY <1>0, <2>1 DEF RotateBump, KeystoreTypeOK
  <2> QED BY <2>1, <2>2 DEF RotateBump, MinterOK, Rotating, At
<1>4. seed[s] # NoKey => seed'[s] # NoKey
  BY <1>0, SentinelAssumption DEF Rely
<1>5. archiveCount'[s] > 0 => seed'[s] # NoKey
  BY <1>3, <1>4 DEF ArchiveOK
<1>6. ASSUME NEW v \in Versions, v < archiveCount'[s]
      PROVE  archive'[s][v] \in minted'
  <2>1. CASE v < archiveCount[s]
    BY <1>0, <1>1, <2>1 DEF Rely, ArchiveOK
  <2>2. CASE ~(v < archiveCount[s])
    <3>1. archive'[s][v] = seed[s] /\ archiveCount'[s] # archiveCount[s]
      BY <1>0, <1>6, <2>2 DEF Rely
    <3> QED BY <1>1, <1>3, <3>1 DEF ArchiveOK
  <2> QED BY <2>1, <2>2
<1> QED BY <1>2, <1>5, <1>6 DEF ArchiveOK

\* What another process knows of the slot p's step falls on.
Beside(p, q, s) ==
  /\ StepOf(p) /\ MinterOK(p) /\ q # p /\ pc[q] # "idle" /\ slot[q] = s
  /\ Settled(s) /\ ArchiveOK(s) /\ EntriesFollowCalls(s) /\ EntriesFollowCalls(s)'

\* A slot without archive accepts its current key at most.
LEMMA NoArchive ==
  ASSUME NEW s \in Slots, archiveCount[s] = 0, NEW k \in Accepted[s]
  PROVE  IsCurrent(s, k)
<1>1. \A v \in Versions : ~(v < 0)
  BY VersionAssumption
<1> QED BY <1>1 DEF Accepted, Accepts, Usable, ArchivedAt, IsCurrent

\* A key that is accepted but not current does not become current again, and none of
\* its versions is new.
LEMMA ArchivedStays ==
  ASSUME TypeOK, TypeOK', CallsWellFormed, NEW p \in Procs, NEW q \in Procs, NEW s \in Slots,
         Beside(p, q, s), NEW k \in Accepted[s], ~IsCurrent(s, k)
  PROVE  ~IsCurrent(s, k)' /\ ArchivedAt(s, k)' = ArchivedAt(s, k)
<1>0. /\ Users(s, "rotate") # {} /\ p \in Procs
      /\ EntriesFollowCalls(s) /\ EntriesFollowCalls(s)'
  BY NoArchive DEF Beside, EntriesFollowCalls
<1>1. CASE Users(s, "revoke") = {} /\ Users(s, "register_public_key") = {}
  <2>1. /\ pubkey[s] = NoKey /\ ~revoked[s] /\ pubkey'[s] = NoKey /\ ~revoked'[s]
    BY <1>0, <1>1 DEF EntriesFollowCalls, Users
  <2>2. Rely(s)
    BY ArchiveGrows DEF Beside
  <2>3. seed[s] # k
    BY <2>1 DEF IsCurrent, CurrentKey
  <2>4. PICK v \in Versions : v < archiveCount[s] /\ archive[s][v] = k
    BY <2>1, <2>3 DEF Accepted, Accepts, Usable, ArchivedAt, CurrentKey
  <2>5. k \in minted
    BY <2>4 DEF Beside, ArchiveOK
  <2>6. seed'[s] # k
    BY <2>2, <2>3, <2>5 DEF Rely
  <2>7. \A u \in Versions : u < archiveCount'[s] /\ archive'[s][u] = k =>
          u < archiveCount[s] /\ archive[s][u] = k
    BY <2>2, <2>3 DEF Rely
  <2>8. \A u \in Versions : u < archiveCount[s] /\ archive[s][u] = k =>
          u < archiveCount'[s] /\ archive'[s][u] = k
    <3>1. archiveCount[s] \in Int /\ archiveCount'[s] \in Int /\ archiveCount[s] <= archiveCount'[s]
      BY <2>2, ReadTypes, VersionAssumption DEF Rely, TypeOK, ProviderTypeOK, KeystoreTypeOK
    <3>2. \A u \in Versions : u \in Int
      BY VersionAssumption
    <3> QED BY <2>2, <3>1, <3>2, Transitive DEF Rely
  <2> QED BY <2>1, <2>6, <2>7, <2>8 DEF IsCurrent, CurrentKey, ArchivedAt
<1>2. CASE Users(s, "revoke") = {} /\ Minters(s) = {}
  BY <1>0, <1>2 DEF Minters
<1>3. CASE Users(s, "rotate") = {} /\ Users(s, "register_public_key") = {}
  BY <1>0, <1>3
<1>4. CASE OneCaller(s)
  BY <1>4, OneCallerAlone DEF Beside, IsCurrent, CurrentKey, ArchivedAt
<1> QED BY <1>1, <1>2, <1>3, <1>4 DEF Beside, Settled

\* Where the current key is revoked beside a reader, nothing is accepted any more.
LEMMA RevokedEmpties ==
  ASSUME TypeOK, CallsWellFormed, NEW p \in Procs, NEW q \in Procs, NEW s \in Slots,
         Beside(p, q, s), ~revoked[s], revoked'[s]
  PROVE  Accepted'[s] = {}
<1>0. EntriesFollowCalls(s)'
  BY DEF Beside
<1>1. CASE Users(s, "revoke") = {}
  BY <1>0, <1>1 DEF EntriesFollowCalls, Users
<1>2. CASE Users(s, "rotate") = {}
  <2>1. archiveCount'[s] = 0
    BY <1>0, <1>2 DEF EntriesFollowCalls, Users
  <2>2. \A v \in Versions : ~(v < 0)
    BY VersionAssumption
  <2> QED BY <2>1, <2>2 DEF Accepted, Accepts, Usable, ArchivedAt
<1>3. CASE OneCaller(s)
  BY <1>3, OneCallerAlone DEF Beside
<1> QED BY <1>1, <1>2, <1>3 DEF Beside, Settled

\* A key is registered beside a reader only where nothing was accepted before, or
\* where another registered key gives way.
LEMMA RegisteredBeside ==
  ASSUME TypeOK, CallsWellFormed, NEW p \in Procs, NEW q \in Procs, NEW s \in Slots,
         Beside(p, q, s), pubkey[s] = NoKey, pubkey'[s] # NoKey
  PROVE  Accepted[s] = {}
<1>0. EntriesFollowCalls(s) /\ EntriesFollowCalls(s)'
  BY DEF Beside
<1>1. CASE Users(s, "register_public_key") = {}
  BY <1>0, <1>1 DEF EntriesFollowCalls, Users
<1>2. CASE Minters(s) = {}
  <2>1. archiveCount[s] = 0 /\ CurrentKey(s) = NoKey
    BY <1>0, <1>2 DEF EntriesFollowCalls, Minters, CurrentKey
  <2>2. Accepted[s] \subseteq Keys
    BY DEF Accepted
  <2> QED BY <2>1, <2>2, NoArchive, SentinelAssumption DEF IsCurrent
<1>3. CASE OneCaller(s)
  BY <1>3, OneCallerAlone DEF Beside
<1> QED BY <1>1, <1>2, <1>3 DEF Beside, Settled


\* No step of another process costs a reader a key that stays accepted.
LEMMA ScanFrame ==
  ASSUME TypeOK, TypeOK', CallsWellFormed, Track, NEW p \in Procs, NEW q \in Procs,
         NEW s \in Slots, Beside(p, q, s), HistoryOK(q), HistoryOK(q)', ScanOK(q)
  PROVE  ScanOK(q)'
<1>0. /\ StepOf(p) /\ slot[q] = s /\ pc[q] # "idle"
      /\ Frame(q) /\ Rely(s)
  BY FrameOthers, ArchiveGrows DEF Beside, TypeOK
<1>1. slot'[q] = s /\ steady'[q] \subseteq steady[q] /\ Missing(q)' \subseteq Missing(q)
  BY <1>0, Narrowing DEF Frame, Missing
<1>2. steady[q] \subseteq Accepted[s] /\ steady'[q] \subseteq Accepted'[s]
  BY <1>0, <1>1 DEF Frame, HistoryOK, Watched
<1>3. ASSUME Verifying(q), pc[q] \in {"current", "registered", "seed"}, revoked'[s]
      PROVE  steady'[q] = {}
  <2>1. CASE revoked[s]
    BY <1>0, <1>1, <1>3, <2>1 DEF ScanOK
  <2>2. CASE ~revoked[s]
    BY <1>2, <1>3, <2>2, RevokedEmpties
  <2> QED BY <2>1, <2>2
<1>4. ASSUME At(q, "verify", "seed"), pubkey'[s] # NoKey
      PROVE  steady'[q] = {}
  <2>1. CASE pubkey[s] = NoKey
    BY <1>1, <1>2, <1>4, <2>1, RegisteredBeside
  <2>2. CASE pubkey[s] # NoKey
    BY <1>0, <1>1, <1>4, <2>2 DEF ScanOK
  <2> QED BY <2>1, <2>2
<1>5. ASSUME NEW k \in Missing(q), ~IsCurrent(s, k)
      PROVE  ~IsCurrent(s, k)' /\ ArchivedAt(s, k)' = ArchivedAt(s, k)
  BY <1>2, <1>5, ArchivedStays DEF Missing
<1>6. ASSUME NEW k \in Missing(q), ~IsCurrent(s, k), Ahead(q, k)
      PROVE  Ahead(q, k)'
  <2>1. ArchivedAt(slot[q], k)' = ArchivedAt(s, k)
    BY <1>1, <1>5, <1>6 DEF ArchivedAt
  <2>2. /\ limit'[q] = limit[q] /\ version'[q] = version[q]
        /\ revokedVersions[s] \subseteq revokedVersions'[slot'[q]]
    BY <1>0, <1>1 DEF Frame, Rely
  <2> QED BY <1>0, <1>6, <2>1, <2>2 DEF Ahead
<1>7. At(q, "verify", "count")' \/ Scanning(q)' =>
        \A k \in Missing(q)' : ~IsCurrent(slot[q], k)'
  <2>1. At(q, "verify", "count")' \/ Scanning(q)' => At(q, "verify", "count") \/ Scanning(q)
    BY <1>0 DEF Frame, At, Scanning
  <2>2. \A k : IsCurrent(slot[q], k)' <=> IsCurrent(s, k)'
    BY <1>1 DEF IsCurrent, CurrentKey
  <2> QED BY <1>0, <1>1, <1>5, <2>1, <2>2 DEF ScanOK
<1>8. Scanning(q)' => \A k \in Missing(q)' : Ahead(q, k)'
  BY <1>0, <1>1, <1>6 DEF ScanOK, Frame, Scanning
<1>9. At(q, "verify", "check")' => limit'[q] <= version'[q]
  BY <1>0 DEF ScanOK, Frame, At
<1>10. /\ (Verifying(q) /\ pc[q] \in {"current", "registered", "seed"} /\ revoked[slot[q]])' =>
            steady'[q] = {}
       /\ (At(q, "verify", "seed") /\ pubkey[slot[q]] # NoKey)' => steady'[q] = {}
  BY <1>0, <1>1, <1>3, <1>4 DEF Frame, Verifying, At
<1> QED BY <1>7, <1>8, <1>9, <1>10 DEF ScanOK

\* An access of the reader itself only reads.
LEMMA ReadOnly ==
  ASSUME UNCHANGED keystore, NEW s, NEW k
  PROVE  IsCurrent(s, k)' = IsCurrent(s, k) /\ ArchivedAt(s, k)' = ArchivedAt(s, k)
BY DEF keystore, IsCurrent, CurrentKey, ArchivedAt

\* verify() begins at the current key, or at the archive where that is revoked.
LEMMA ScanBegins ==
  ASSUME TypeOK, NEW p \in Procs, NEW s \in Slots, NEW r \in Requests, Verify(p, s, r)
  PROVE  ScanOK(p)'
<1>1. /\ slot'[p] = s /\ UNCHANGED keystore
      /\ \/ pc'[p] = "returned"
         \/ pc'[p] = "count" /\ revoked[s]
         \/ pc'[p] = "current" /\ ~revoked[s]
  BY DEF Verify, Begin, Goto, End, TypeOK, ProviderTypeOK, ControlTypeOK
<1>2. revoked'[slot'[p]] = revoked[s]
  BY <1>1 DEF keystore
<1>3. pc'[p] = "count" => \A k : ~IsCurrent(slot[p], k)'
  BY <1>1, <1>2 DEF IsCurrent
<1> QED BY <1>1, <1>2, <1>3 DEF ScanOK, Verifying, Scanning, At

\* Its reads of the current key leave out no key that is current.
LEMMA ScanCurrent ==
  ASSUME TypeOK, Track, NEW p \in Procs, ScanOK(p), Verifying(p)',
         PublicRevoked(p) \/ PublicRegistered(p) \/ PublicSeed(p)
  PROVE  ScanOK(p)'
<1> DEFINE s == slot[p]
<1>0. ControlTypeOK /\ RegisterTypeOK
  BY DEF TypeOK, ProviderTypeOK
<1>1. /\ slot' = slot /\ op' = op /\ UNCHANGED keystore /\ Verifying(p)
      /\ pc[p] \in {"current", "registered", "seed"}
  BY DEF PublicRevoked, PublicRegistered, PublicSeed, Same, Verifying, At
<1>2. steady'[p] \subseteq steady[p]
  BY <1>1, Narrowing DEF Verifying
<1>3. CASE PublicRevoked(p)
  <2>1. pc'[p] = "registered" /\ ~revoked[s]
    BY <1>0, <1>3 DEF PublicRevoked, Goto, End, Verifying, ControlTypeOK
  <2> QED BY <1>1, <2>1 DEF ScanOK, Verifying, Scanning, At, keystore
<1>4. CASE PublicRegistered(p) /\ pubkey[s] = NoKey
  <2>1. pc'[p] = "seed"
    BY <1>0, <1>4 DEF PublicRegistered, HavePublicKey, Goto, End, Verifying,
      ControlTypeOK
  <2> QED BY <1>1, <1>2, <1>4, <2>1 DEF ScanOK, Verifying, Scanning, At, keystore
<1>5. CASE \/ PublicRegistered(p) /\ pubkey[s] # NoKey
           \/ PublicSeed(p)
  <2>1. /\ pc'[p] = "count"
        /\ \/ candidates'[p] = {pubkey[s]} /\ pubkey[s] # NoKey
           \/ candidates'[p] = {seed[s]} /\ pc[p] = "seed"
    BY <1>0, <1>1, <1>5
      DEF PublicRegistered, PublicSeed, HavePublicKey, Goto, End, Verifying,
          ControlTypeOK, RegisterTypeOK
  <2>2. ASSUME NEW k \in Missing(p)' PROVE ~IsCurrent(s, k)
    <3>1. k \in steady[p] /\ k \notin candidates'[p]
      BY <1>2 DEF Missing
    <3>2. CASE pubkey[s] # NoKey
      BY <1>1, <2>1, <3>1, <3>2 DEF ScanOK, IsCurrent, CurrentKey, At, Verifying
    <3>3. CASE pubkey[s] = NoKey
      BY <2>1, <3>1, <3>3 DEF IsCurrent, CurrentKey
    <3> QED BY <3>2, <3>3
  <2>3. \A k \in Missing(p)' : ~IsCurrent(slot[p], k)'
    BY <1>1, <2>2, ReadOnly DEF IsCurrent, CurrentKey, keystore
  <2> QED BY <2>1, <2>3 DEF ScanOK, Verifying, Scanning, At
<1> QED BY <1>3, <1>4, <1>5

\* The count bounds every version there is, and no version is behind yet.
LEMMA ScanCounted ==
  ASSUME TypeOK, Track, CallsWellFormed, NEW p \in Procs, ScanOK(p), VerifyCount(p)
  PROVE  ScanOK(p)'
<1> DEFINE s == slot[p]
<1>1. /\ slot' = slot /\ op' = op /\ UNCHANGED keystore /\ candidates' = candidates
      /\ At(p, "verify", "count") /\ limit'[p] = archiveCount[s] /\ version'[p] = 0
      /\ pc'[p] = IF archiveCount[s] = 0 THEN "check" ELSE "archived flag"
  BY DEF VerifyCount, Goto, Same, TypeOK, ProviderTypeOK, ControlTypeOK, RegisterTypeOK
<1>2. Missing(p)' \subseteq Missing(p)
  BY <1>1, Narrowing DEF Missing, At
<1>3. archiveCount[s] = 0 => limit'[p] <= version'[p]
  BY <1>1
<1>4. \A k \in Missing(p)' : ~IsCurrent(slot[p], k)'
  BY <1>1, <1>2 DEF ScanOK, IsCurrent, CurrentKey, keystore
<1>5. \A k : Ahead(p, k)'
  <2>1. \A v \in Versions : ~(v < 0)
    BY VersionAssumption
  <2> QED BY <1>1, <2>1 DEF Ahead, ArchivedAt, keystore
<1> QED BY <1>1, <1>3, <1>4, <1>5 DEF ScanOK, Verifying, Scanning, At

\* A version is left behind revoked, or its key is a candidate.
LEMMA ScanMoves ==
  ASSUME TypeOK, Track, CallsWellFormed, NEW p \in Procs, ScanOK(p),
         VerifyFlag(p) \/ VerifyKey(p)
  PROVE  ScanOK(p)'
<1> DEFINE s == slot[p]
           u == version[p]
<1>0. RegisterTypeOK /\ ControlTypeOK
  BY DEF TypeOK, ProviderTypeOK
<1>1. /\ slot' = slot /\ op' = op /\ UNCHANGED keystore /\ limit' = limit
      /\ op[p] = "verify" /\ pc[p] \in {"archived flag", "archived key"} /\ Scanning(p)
  BY DEF VerifyFlag, VerifyKey, Same, At, Scanning
<1>2. /\ u \in Int /\ u + 1 \in Int /\ limit[p] \in Int
  BY <1>0, VersionAssumption DEF RegisterTypeOK
<1>3. \/ /\ pc'[p] = "archived key" /\ version'[p] = u /\ candidates' = candidates
      \/ /\ version'[p] = u + 1 /\ pc'[p] = IF u + 1 < limit[p] THEN "archived flag" ELSE "check"
         /\ \/ candidates' = candidates /\ u \in revokedVersions[s]
            \/ candidates'[p] = candidates[p] \cup ({archive[s][u]} \ {NoKey})
  BY <1>0 DEF VerifyFlag, VerifyKey, NextVersion, Goto, ControlTypeOK, RegisterTypeOK
<1>4. candidates[p] \subseteq candidates'[p] /\ Missing(p)' \subseteq Missing(p)
  BY <1>1, <1>3, Narrowing DEF Missing
<1>5. \A k \in Missing(p)' : ~IsCurrent(slot[p], k)'
  BY <1>1, <1>4 DEF ScanOK, IsCurrent, CurrentKey, keystore
<1>6. ASSUME NEW k \in Missing(p)'
      PROVE  Ahead(p, k)'
  <2>1. Ahead(p, k) /\ k \in Keys /\ k \notin candidates'[p]
    BY <1>1, <1>4 DEF ScanOK, Missing, TypeOK
  <2>2. \A v \in Versions : v < u + 1 => v < u \/ v = u
    BY <1>2, VersionAssumption
  <2>3. version'[p] = u + 1 => u \in revokedVersions[s] \/ u \notin ArchivedAt(s, k)
    <3>1. version'[p] # u \/ version'[p] # u + 1
      BY <1>2
    <3>2. k # NoKey
      BY <2>1, SentinelAssumption
    <3> QED BY <1>3, <2>1, <3>1, <3>2 DEF ArchivedAt
  <2>4. version'[p] = u \/ version'[p] = u + 1
    BY <1>3
  <2>5. ASSUME NEW v \in ArchivedAt(s, k), v < version'[p]
        PROVE  v \in revokedVersions[s]
    BY <2>1, <2>2, <2>3, <2>4, <2>5 DEF Ahead, ArchivedAt
  <2>6. /\ limit'[p] = limit[p] /\ slot'[p] = s /\ revokedVersions'[s] = revokedVersions[s]
        /\ ArchivedAt(slot[p], k)' = ArchivedAt(s, k)
    BY <1>1 DEF keystore, ArchivedAt
  <2> QED BY <2>1, <2>5, <2>6 DEF Ahead
<1>7. pc'[p] = "check" => limit'[p] <= version'[p]
  BY <1>1, <1>2, <1>3, NotBelow
<1>8. pc'[p] \in {"archived flag", "archived key", "check"}
  BY <1>3
<1> QED BY <1>1, <1>5, <1>6, <1>7, <1>8 DEF ScanOK, Verifying, Scanning, At

LEMMA ScanStep ==
  ASSUME TypeOK, TypeOK', CallsWellFormed, Track, SettledSlots,
         NEW p \in Procs, StepOf(p), MinterOK(p),
         \A s \in Slots : ArchiveOK(s) /\ EntriesFollowCalls(s) /\ EntriesFollowCalls(s)',
         NEW q \in Procs, HistoryOK(q), HistoryOK(q)', ScanOK(q)
  PROVE  ScanOK(q)'
<1>1. CASE q = p
  <2>1. CASE ~Verifying(p)'
    BY <1>1, <2>1 DEF ScanOK, Verifying, Scanning, At
  <2>2. CASE Verifying(p)'
    BY <1>1, <2>2, Arriving, ScanBegins, ScanCurrent, ScanCounted, ScanMoves
      DEF Arrives, Begins
  <2> QED BY <2>1, <2>2
<1>2. CASE q # p /\ pc[q] # "idle"
  <2>1. PICK s \in Slots : s = slot[q]
    BY <1>2, InCall
  <2>2. Beside(p, q, s)
    BY <1>2, <2>1 DEF Beside, SettledSlots
  <2> QED BY <2>2, ScanFrame
<1>3. CASE q # p /\ pc[q] = "idle"
  BY <1>3, FrameOthers DEF Frame, TypeOK, ScanOK, Verifying, Scanning, At
<1> QED BY <1>1, <1>2, <1>3

\* When the loop is over, every steady key is a candidate.
LEMMA ScanDone ==
  ASSUME TypeOK, CallsWellFormed, NEW p \in Procs, HistoryOK(p), ScanOK(p),
         At(p, "verify", "check")
  PROVE  steady[p] \subseteq candidates[p]
<1> SUFFICES ASSUME NEW k \in Missing(p)
             PROVE  FALSE
  BY DEF Missing
<1>1. Ahead(p, k) /\ ~IsCurrent(slot[p], k) /\ limit[p] <= version[p]
  BY DEF ScanOK, Scanning, At
<1>2. slot[p] \in Slots /\ k \in Accepted[slot[p]]
  BY InCall DEF HistoryOK, Watched, At, Missing
<1>3. PICK v \in Versions : v \in ArchivedAt(slot[p], k) /\ v \notin revokedVersions[slot[p]]
  BY <1>1, <1>2 DEF IsCurrent, Accepted, Accepts, Usable, ArchivedAt
<1>4. v < limit[p]
  BY <1>1, <1>3 DEF Ahead
<1>5. v \in Int /\ limit[p] \in Int /\ version[p] \in Int
  BY VersionAssumption DEF TypeOK, ProviderTypeOK, RegisterTypeOK
<1>6. v < version[p]
  BY <1>1, <1>4, <1>5, Transitive
<1> QED BY <1>1, <1>3, <1>6 DEF Ahead

\* verify() finds no key only where none stays accepted.
LEMMA NoKeyNoneSteady ==
  ASSUME TypeOK, CallsWellFormed, NEW p \in Procs, HistoryOK(p), ScanOK(p),
         At(p, "verify", "seed"), seed[slot[p]] = NoKey, \A s \in Slots : ArchiveOK(s)
  PROVE  steady[p] = {}
<1> SUFFICES ASSUME pubkey[slot[p]] = NoKey, NEW k \in steady[p]
             PROVE  FALSE
  BY DEF ScanOK
<1>1. slot[p] \in Slots /\ k \in Accepted[slot[p]] /\ k # NoKey
  BY InCall, SentinelAssumption DEF HistoryOK, Watched, At, TypeOK
<1>2. archiveCount[slot[p]] = 0
  BY <1>1, ReadTypes, VersionAssumption DEF ArchiveOK, TypeOK, ProviderTypeOK
<1> QED BY <1>1, <1>2, NoArchive DEF IsCurrent, CurrentKey

\* Every answer of verify() gives a steady key its receipt.
LEMMA SteadyAnswer ==
  ASSUME TypeOK, CallsWellFormed, Track, NEW p \in Procs, StepOf(p),
         \A s \in Slots : ArchiveOK(s),
         NEW q \in Procs, HistoryOK(q), ScanOK(q), AnswerOK(q)
  PROVE  SteadyOK(q)'
<1>0. ControlTypeOK
  BY DEF TypeOK, ProviderTypeOK
<1>1. CASE q # p
  BY <1>1, FrameOthers, AnswerFrame DEF TypeOK, AnswerOK
<1>2. CASE q = p /\ Call(p)
  BY <1>2, CallAnswer DEF AnswerOK
<1>3. CASE q = p /\ Abort(p)
  BY <1>0, <1>3 DEF Abort, Clear, SteadyOK, Answered, ControlTypeOK
<1>4. CASE q = p /\ Step(p)
  <2> SUFFICES ASSUME Answered(p, "verify")'
               PROVE  SteadyOK(p)'
    BY <1>4 DEF SteadyOK
  <2>1. pc[p] # "idle" /\ steady'[p] \subseteq steady[p]
    BY <1>4, StepActive, Narrowing DEF Answered
  <2>2. PublicRevoked(p) \/ PublicSeed(p) \/ VerifyCheck(p)
    BY <2>1, Arriving DEF Arrives, Begins, Verify, Begin
  <2>3. CASE PublicRevoked(p)
    <3>1. revoked[slot[p]] /\ At(p, "verify", "current")
      BY <1>0, <2>3 DEF PublicRevoked, Goto, Answered, ControlTypeOK
    <3> QED BY <1>4, <2>1, <3>1 DEF ScanOK, Verifying, At, SteadyOK, Deserved
  <2>4. CASE PublicSeed(p)
    <3>1. seed[slot[p]] = NoKey /\ At(p, "verify", "seed")
      BY <1>0, <2>4 DEF PublicSeed, HavePublicKey, Goto, End, Same, Answered, At, ControlTypeOK
    <3>2. steady[p] = {}
      BY <1>4, <3>1, NoKeyNoneSteady
    <3> QED BY <2>1, <3>2 DEF SteadyOK, Deserved
  <2>5. CASE VerifyCheck(p)
    <3>1. /\ slot' = slot /\ request' = request /\ At(p, "verify", "check")
          /\ outcome'[p] = IF Genuine(request[p]) /\ request[p].key \in candidates[p]
                           THEN "Receipt" ELSE "None"
      BY <1>0, <2>5 DEF VerifyCheck, End, Same, locals, ControlTypeOK
    <3>2. steady'[p] \subseteq candidates[p]
      BY <1>4, <2>1, <3>1, ScanDone
    <3> QED BY <3>1, <3>2 DEF SteadyOK, Deserved, Genuine
  <2> QED BY <2>2, <2>3, <2>4, <2>5
<1> QED BY <1>1, <1>2, <1>3, <1>4 DEF StepOf

-----------------------------------------------------------------------------
(* The invariant of settled slots.                                         *)

LEMMA SettledMints == ASSUME SettledSlots PROVE SingleMinter
BY DEF SettledSlots, Settled, SingleMinter

\* What OwnKeysOnly asks of every slot is one of the ways to be settled.
LEMMA OwnKeysSettled == ASSUME SingleMinter, OwnKeysOnly PROVE SettledSlots
BY DEF SettledSlots, Settled, SingleMinter, OwnKeysOnly

LEMMA SettledInit == ASSUME Init PROVE SettledInv
<1>1. \A p \in Procs : MinterOK(p) /\ ReaderOK(p) /\ ScanOK(p)
  BY DEF Init, ProviderInit, MinterOK, Rotating, ReaderOK, ScanOK, Verifying, Scanning, At
<1>2. ReceiptSound /\ PublicKeySound /\ SteadyKeyVerifies
  BY DEF Init, ProviderInit, ReceiptSound, PublicKeySound, SteadyKeyVerifies, Answered
<1>3. \A s \in Slots : ArchiveOK(s)
  <2>1. \A v \in Versions : ~(v < 0)
    BY VersionAssumption
  <2> QED BY <2>1 DEF Init, ProviderInit, ArchiveOK
<1> QED BY <1>1, <1>2, <1>3, KeystoreInit DEF SettledInv

LEMMA SettledNext == ASSUME SettledSlots, SettledInv, Next PROVE SettledInv'
<1>1. PICK p \in Procs : StepOf(p)
  BY DEF Next, ProviderNext, StepOf
<1>2. KeystoreInv /\ KeystoreInv' /\ Track
  BY KeystoreNext DEF SettledInv, Next
<1>3. /\ TypeOK /\ TypeOK' /\ CallsWellFormed
      /\ \A s \in Slots : EntriesFollowCalls(s) /\ EntriesFollowCalls(s)'
      /\ \A q \in Procs : RevokerOK(q) /\ HistoryOK(q) /\ HistoryOK(q)'
  BY <1>2 DEF KeystoreInv
<1>4. /\ \A q \in Procs : MinterOK(q) /\ ReaderOK(q) /\ ScanOK(q)
      /\ \A q \in Procs : AnswerOK(q) /\ ReceiptOK(q) /\ HandedOutOK(q)
      /\ \A s \in Slots : ArchiveOK(s)
  BY Answers DEF SettledInv, PublicKeySound, AnswerOK, HandedOutOK
<1>5. \A q \in Procs : MinterOK(q)'
  BY <1>1, <1>3, <1>4, SettledMints, MintersStep
<1>6. \A q \in Procs : ReaderOK(q)'
  BY <1>1, <1>2, <1>3, <1>4, ReaderStep
<1>7. \A q \in Procs : ReceiptOK(q)' /\ HandedOutOK(q)'
  BY <1>1, <1>2, <1>3, <1>4, SettledAnswers
<1>8. \A q \in Procs : ScanOK(q)' /\ SteadyOK(q)'
  BY <1>1, <1>2, <1>3, <1>4, ScanStep, SteadyAnswer
<1>9. \A s \in Slots : ArchiveOK(s)'
  BY <1>1, <1>3, <1>4, ArchiveStep
<1>10. ReceiptSound' /\ PublicKeySound' /\ SteadyKeyVerifies'
  BY <1>7, <1>8 DEF ReceiptSound, PublicKeySound, SteadyKeyVerifies, ReceiptOK, HandedOutOK,
    SteadyOK, Deserved
<1> QED BY <1>2, <1>5, <1>6, <1>8, <1>9, <1>10 DEF SettledInv

LEMMA SettledStutter == ASSUME SettledInv, UNCHANGED vars PROVE SettledInv'
<1>1. KeystoreInv'
  BY KeystoreStutter DEF SettledInv
<1>2. \A p \in Procs : MinterOK(p)'
  BY DEF SettledInv, vars, provider, keystore, locals, MinterOK, Rotating, At, ArchivedAt
<1>3. \A p \in Procs : ReaderOK(p)'
  BY DEF SettledInv, vars, provider, keystore, locals, history, ReaderOK, Verifying,
    Scanning, At, BoundTo, CurrentKey
<1>4. ReceiptSound' /\ PublicKeySound' /\ SteadyKeyVerifies'
  BY DEF SettledInv, vars, provider, locals, history, ReceiptSound, PublicKeySound,
    SteadyKeyVerifies, Answered, Genuine, BoundTo
<1>5. \A p \in Procs : ScanOK(p)'
  BY DEF SettledInv, vars, provider, keystore, locals, history, ScanOK, Verifying, Scanning,
    At, Missing, Ahead, IsCurrent, CurrentKey, ArchivedAt
<1>6. \A s \in Slots : ArchiveOK(s)'
  BY DEF SettledInv, vars, provider, keystore, world, ArchiveOK
<1> QED BY <1>1, <1>2, <1>3, <1>4, <1>5, <1>6 DEF SettledInv

\* In every instance whose slots are settled, what a reader has read of the flag, the
\* registered key, the seed and the archive still tells which keys were accepted.
THEOREM SettledReaders == ASSUME SettledSlots PROVE Spec => []SettledInv
<1>1. SettledInv /\ [Next]_vars => SettledInv'
  BY SettledNext, SettledStutter
<1> QED BY <1>1, SettledInit, PTL DEF Spec

\* public_key() hands out only a key that verify() accepted at some moment of the
\* call, in three reads between which others generate and rotate, or register, or
\* generate and revoke.
THEOREM KeysHandedOut ==
  ASSUME SettledSlots
  PROVE  Spec => []PublicKeySound
<1>1. SettledInv => PublicKeySound
  BY DEF SettledInv
<1> QED BY <1>1, SettledReaders, PTL

\* A receipt means a genuine signature, bound to the identity, under a key that was
\* accepted at some moment of the call, where keys are registered or revoked too.
THEOREM SettledReceipts ==
  ASSUME SettledSlots
  PROVE  Spec => []ReceiptSound
<1>1. SettledInv => ReceiptSound
  BY DEF SettledInv
<1> QED BY <1>1, SettledReaders, PTL

\* No false alarm on settled slots: a genuine signature under a key that stays accepted
\* for the whole call gets its receipt, whether others meanwhile rotate and withdraw
\* versions, register keys, or revoke the current key of a slot that is not rotated.
THEOREM SettledNoFalseAlarm ==
  ASSUME SettledSlots
  PROVE  Spec => []SteadyKeyVerifies
<1>1. SettledInv => SteadyKeyVerifies
  BY DEF SettledInv
<1> QED BY <1>1, SettledReaders, PTL
=============================================================================
