----------------------------- MODULE BrineTrust -----------------------------
(***************************************************************************)
(* What BrineProvider promises about trust: which keys verify() accepts,   *)
(* how long, and what its answers mean while other processes rotate,       *)
(* revoke and register.  The module adds history variables that no action  *)
(* of the provider reads, and states the properties over them.             *)
(***************************************************************************)
EXTENDS BrineProvider

VARIABLES
  known,     \* per slot: the keys that have ever been its seed or registered key
  disowned,  \* per slot: the keys that were current when revoke() flagged it
  steady,    \* per process: the keys accepted ever since its call began
  seen       \* per process: the keys accepted at some moment of its call

history == <<known, disowned, steady, seen>>
vars == <<provider, history>>

\* public_key(): a registered key hides the seed.
CurrentKey(s) == IF pubkey[s] # NoKey THEN pubkey[s] ELSE seed[s]

\* The archive entries verify() reaches, and those it may use.
ArchivedAt(s, k) ==
  {v \in Versions : v < archiveCount[s] /\ archive[s][v] = k}

Usable(s, k) == ArchivedAt(s, k) \ revokedVersions[s]

\* The keys whose signatures verify() accepts in the present state.
Accepts(s, k) ==
  \/ ~revoked[s] /\ CurrentKey(s) = k
  \/ Usable(s, k) # {}

Accepted == [s \in Slots |-> {k \in Keys : Accepts(s, k)}]

-----------------------------------------------------------------------------
HistoryInit ==
  /\ known = [s \in Slots |-> {}]
  /\ disowned = [s \in Slots |-> {}]
  /\ steady = [p \in Procs |-> {}]
  /\ seen = [p \in Procs |-> {}]

\* A process is watched from the step that begins its call until it returns.
Watched(p) == pc[p] # "idle"

Track ==
  /\ known' = [s \in Slots |->
                 known[s] \cup ({seed'[s], pubkey'[s]} \ {NoKey})]
  /\ disowned' = [s \in Slots |->
                    IF \E p \in Procs : RevokeFlag(p) /\ slot[p] = s
                    THEN disowned[s] \cup ({CurrentKey(s)} \ {NoKey})
                    ELSE disowned[s]]
  /\ steady' = [p \in Procs |->
                  IF ~Watched(p)' THEN {}
                  ELSE IF ~Watched(p) THEN Accepted'[slot'[p]]
                  ELSE steady[p] \cap Accepted'[slot'[p]]]
  /\ seen' = [p \in Procs |->
                IF ~Watched(p)' THEN {} ELSE seen[p] \cup Accepted'[slot'[p]]]

Init == ProviderInit /\ HistoryInit
Next == ProviderNext /\ Track
Spec == Init /\ [][Next]_vars

\* A call that has started goes on: Python runs it to its next keystore access.
\* Nothing obliges a process to start a call, and nothing forces one to abort.
FairSpec == Spec /\ \A p \in Procs : WF_vars(Step(p) /\ Track)

TypeOK ==
  /\ ProviderTypeOK
  /\ known \in [Slots -> SUBSET Keys]
  /\ disowned \in [Slots -> SUBSET Keys]
  /\ steady \in [Procs -> SUBSET Keys]
  /\ seen \in [Procs -> SUBSET Keys]

-----------------------------------------------------------------------------
(* The conditions some of the properties need.  Nothing in the code        *)
(* enforces them: they say how the provider has to be used.                *)

Users(s, o) == {p \in Procs : <<p, s, o>> \in Calls}

\* One process at a time creates and rotates the key of a slot.
Minters(s) == Users(s, "generate") \cup Users(s, "rotate")

SoleMinter(s) == \A p, q \in Minters(s) : p = q

SingleMinter == \A s \in Slots : SoleMinter(s)

\* Keys are withdrawn by version, and nobody registers a key over a seed.
OwnKeysOnly ==
  \A s \in Slots : Users(s, "revoke") = {} /\ Users(s, "register_public_key") = {}

\* Of the calls that change which key is current, only some meet on a slot while
\* others read it: generations and rotations, or registrations, or a generation
\* and revocations; or all calls are made by one process, one after the other.
OneCaller(s) ==
  \A p, q \in Procs, o, m \in Methods : <<p, s, o>> \in Calls /\ <<q, s, m>> \in Calls => p = q

Settled(s) ==
  /\ SoleMinter(s)
  /\ \/ Users(s, "revoke") = {} /\ Users(s, "register_public_key") = {}
     \/ Users(s, "revoke") = {} /\ Minters(s) = {}
     \/ Users(s, "rotate") = {} /\ Users(s, "register_public_key") = {}
     \/ OneCaller(s)

SettledSlots == \A s \in Slots : Settled(s)

-----------------------------------------------------------------------------
Answered(p, o) == op[p] = o /\ pc[p] = "returned"

\* A key a slot has ever held keeps verifying unless one of its versions was
\* revoked: rotate() archives before it replaces, in the order that survives a
\* crash between any two of its keystore writes (README "Constraints",
\* identity.py rotate and _archived_verify_keys).
KeysNeverLost ==
  \A s \in Slots : \A k \in known[s] :
    \/ Accepts(s, k)
    \/ revoked[s] /\ CurrentKey(s) = k
    \/ ArchivedAt(s, k) \cap revokedVersions[s] # {}

\* A receipt is issued only for the bytes that were signed, an envelope that
\* names nobody but the signer's identity, and a key the keystore accepted at
\* some moment of the call, however the entries changed between the reads.
ReceiptSound ==
  \A p \in Procs : Answered(p, "verify") /\ outcome[p] = "Receipt" =>
    /\ Genuine(request[p])
    /\ BoundTo(slot[p], request[p].env)
    /\ request[p].key \in seen[p]

\* No false alarm: a genuine signature under a key that stays accepted for the
\* whole call and is not itself revoked gets its receipt, whatever is rotated or
\* revoked meanwhile (verify and _archived_verify_keys).
SteadyKeyVerifies ==
  \A p \in Procs :
    /\ Answered(p, "verify")
    /\ request[p].scheme = "brine"
    /\ Genuine(request[p])
    /\ BoundTo(slot[p], request[p].env)
    /\ request[p].env \notin Unserializable
    /\ request[p].key \in steady[p] \ disowned[slot[p]]
    => outcome[p] = "Receipt"

\* public_key() hands out only a key that verify() would have accepted at some
\* moment of the call, although the flag, the registered entry and the seed are
\* three reads.  (Not so where two writes of different kinds fall between them, a
\* revocation and then a rotation or a registration, or a registration and then a
\* rotation: SettledSlots says which slots are free of that.)
PublicKeySound ==
  \A p \in Procs : Answered(p, "public_key") /\ outcome[p] \in Keys =>
    outcome[p] \in seen[p]

\* A revocation is of the key that was current: that key is not accepted again, and
\* the flag does not fall on the key that rotate() puts in its place (the recovery
\* that tests/at_negative/test_at_c6_key_compromise.py names).
RevocationFollowsKey ==
  \A s \in Slots :
    /\ disowned[s] \cap Accepted[s] = {}
    /\ revoked[s] /\ disowned[s] # {} => CurrentKey(s) \in disowned[s]

\* verify() is in its loop over the archive, or done with it.
Scanning(p) ==
  op[p] = "verify" /\ pc[p] \in {"archived flag", "archived key", "check"}

\* The keystore reads its loop has still to make.
ReadsAhead(p) ==
  2 * (limit[p] - version[p]) + (IF pc[p] = "archived flag" THEN 1 ELSE 0)

\* Once verify() has read the count, every read of its own brings it nearer to its
\* end and no step of another process takes it back, however often the archive
\* grows: it looks at the versions there were and at no later one
\* (_archived_verify_keys, range of a count that is read once).
ScanAdvances ==
  [][\A p \in Procs : Scanning(p) /\ Scanning(p)' =>
       \/ ReadsAhead(p)' < ReadsAhead(p)
       \/ UNCHANGED <<pc[p], version[p], limit[p]>>]_vars

\* Every call comes back: no entry that verify() or public_key() finds, a revoked
\* version among them, makes it wait or look again.  (An instance bounds the
\* rotations; that they cannot keep verify() going is ScanAdvances.)
CallsReturn == \A p \in Procs : pc[p] # "idle" ~> pc[p] = "idle"

-----------------------------------------------------------------------------
\* Under SingleMinter and OwnKeysOnly the keystore, with all its entries, its
\* interleaved calls and its half-finished rotations, implements the abstract key
\* store: no step makes verify() forget a key unless every version rotate() gave it
\* was asked to be withdrawn, none accepts a key again, and the versions are those
\* that users count, the first retired key being version 0.
Retired ==
  [s \in Slots |-> {<<v, archive[s][v]>> : v \in {w \in Versions : w < archiveCount[s]}}]

Abstract == INSTANCE KeyTrust WITH
  introduced <- known, current <- seed, versions <- archiveCount,
  retired <- Retired, asked <- revokedVersions, trusted <- Accepted

ImplementsKeyTrust == Abstract!Spec

-----------------------------------------------------------------------------
(* The inductive invariant behind the properties, under SingleMinter and   *)
(* OwnKeysOnly.  Each part speaks of one aspect.                           *)

\* A call in progress is one the instance makes, with its registers in range.
CallsWellFormed ==
  \A p \in Procs :
    /\ pc[p] # "idle" => <<p, slot[p], op[p]>> \in Calls
    /\ pc[p] = "bump" => version[p] < MaxVersion
    /\ pc[p] \in {"archived flag", "archived key"} => version[p] < limit[p]

\* No entry but the seed and the archive decides, and what they hold is known.
EntriesOK(s) ==
  /\ pubkey[s] = NoKey
  /\ ~revoked[s]
  /\ known[s] \subseteq minted
  /\ seed[s] \in known[s] \cup {NoKey}
  /\ seed[s] = NoKey => known[s] = {}
  /\ \A v \in Versions : v < archiveCount[s] => archive[s][v] \in known[s]
  /\ \A k \in known[s] : k = seed[s] \/ ArchivedAt(s, k) # {}

\* What the one process that mints keys for a slot has read still stands.
Rotating(p) == op[p] = "rotate" /\ pc[p] \in {"count", "archive", "bump", "store"}

MinterOK(p) ==
  /\ At(p, "generate", "store") => seed[slot[p]] = NoKey
  /\ Rotating(p) => seed[slot[p]] # NoKey /\ existing[p] = seed[slot[p]]
  /\ Rotating(p) /\ pc[p] \in {"archive", "bump"} =>
       version[p] = archiveCount[slot[p]]
  /\ At(p, "rotate", "bump") => archive[slot[p]][version[p]] = existing[p]
  /\ At(p, "rotate", "store") => ArchivedAt(slot[p], existing[p]) # {}

\* The history variables record what their names say.
HistoryOK(p) ==
  Watched(p) => /\ steady[p] \subseteq Accepted[slot[p]]
                /\ Accepted[slot[p]] \subseteq seen[p]

\* A key that stays accepted is among the candidates, or still ahead of verify().
Verifying(p) == op[p] = "verify" /\ pc[p] \notin {"idle", "returned"}

StillAhead(p, k) ==
  /\ seed[slot[p]] # k
  /\ \A v \in ArchivedAt(slot[p], k) :
       v < limit[p] /\ (v < version[p] => v \in revokedVersions[slot[p]])

VerifyOK(p) ==
  /\ Verifying(p) => BoundTo(slot[p], request[p].env)
  /\ Verifying(p) => candidates[p] \subseteq seen[p]
  /\ At(p, "verify", "count") =>
       \A k \in steady[p] \ candidates[p] : seed[slot[p]] # k
  /\ Scanning(p) => limit[p] <= archiveCount[slot[p]]
  /\ Scanning(p) => \A k \in steady[p] \ candidates[p] : StillAhead(p, k)
  /\ At(p, "verify", "archived key") => archive[slot[p]][version[p]] \in seen[p]
  /\ At(p, "verify", "check") => limit[p] <= version[p]

IndInv ==
  /\ TypeOK
  /\ CallsWellFormed
  /\ \A s \in Slots : EntriesOK(s)
  /\ \A p \in Procs : MinterOK(p) /\ HistoryOK(p) /\ VerifyOK(p)
  /\ ReceiptSound
  /\ SteadyKeyVerifies

-----------------------------------------------------------------------------
(* What holds of a slot whoever calls what, and what a reader of a settled *)
(* slot may rely on.                                                       *)

\* An entry that nobody writes is absent, and a revocation was of some key.
EntriesFollowCalls(s) ==
  /\ Users(s, "register_public_key") = {} => pubkey[s] = NoKey
  /\ Users(s, "revoke") = {} => ~revoked[s]
  /\ Minters(s) = {} => seed[s] = NoKey
  /\ Users(s, "rotate") = {} => archiveCount[s] = 0
  /\ revoked[s] => CurrentKey(s) # NoKey
  /\ disowned[s] # {} => revoked[s]

\* revoke() goes on only when it found a key, and no key is ever deleted.
RevokerOK(p) ==
  /\ At(p, "revoke", "probe") /\ existing[p] # NoKey => CurrentKey(slot[p]) # NoKey
  /\ At(p, "revoke", "flag") => CurrentKey(slot[p]) # NoKey

KeystoreInv ==
  /\ TypeOK
  /\ CallsWellFormed
  /\ \A s \in Slots : EntriesFollowCalls(s)
  /\ \A p \in Procs : RevokerOK(p) /\ HistoryOK(p)

\* Between its reads of the flag, the registered key and the seed, and between
\* those of a version's flag and its key, a reader knows what it will find.
ReaderOK(p) ==
  /\ pc[p] \in {"registered", "seed"} /\ revoked[slot[p]] =>
       CurrentKey(slot[p]) \in seen[p]
  /\ pc[p] = "seed" => pubkey[slot[p]] = NoKey \/ seed[slot[p]] = NoKey
  /\ Verifying(p) => BoundTo(slot[p], request[p].env) /\ candidates[p] \subseteq seen[p]
  /\ Scanning(p) => limit[p] <= archiveCount[slot[p]]
  /\ At(p, "verify", "archived key") =>
       archive[slot[p]][version[p]] \in seen[p] \cup {NoKey}

\* What is archived was drawn once, and a slot that was rotated has a seed.
ArchiveOK(s) ==
  /\ seed[s] \in minted \cup {NoKey}
  /\ archiveCount[s] > 0 => seed[s] # NoKey
  /\ \A v \in Versions : v < archiveCount[s] => archive[s][v] \in minted

\* A key that stays accepted is the current one until verify() has read it, and
\* from then on a candidate or in a version still ahead.
IsCurrent(s, k) == ~revoked[s] /\ CurrentKey(s) = k

Ahead(p, k) ==
  \A v \in ArchivedAt(slot[p], k) :
    v < limit[p] /\ (v < version[p] => v \in revokedVersions[slot[p]])

Missing(p) == steady[p] \ candidates[p]

ScanOK(p) ==
  /\ Verifying(p) /\ pc[p] \in {"current", "registered", "seed"} /\ revoked[slot[p]] =>
       steady[p] = {}
  /\ At(p, "verify", "seed") /\ pubkey[slot[p]] # NoKey => steady[p] = {}
  /\ At(p, "verify", "count") \/ Scanning(p) =>
       \A k \in Missing(p) : ~IsCurrent(slot[p], k)
  /\ Scanning(p) => \A k \in Missing(p) : Ahead(p, k)
  /\ At(p, "verify", "check") => limit[p] <= version[p]

SettledInv ==
  /\ KeystoreInv
  /\ \A s \in Slots : ArchiveOK(s)
  /\ \A p \in Procs : MinterOK(p) /\ ReaderOK(p) /\ ScanOK(p)
  /\ ReceiptSound
  /\ PublicKeySound
  /\ SteadyKeyVerifies
=============================================================================
