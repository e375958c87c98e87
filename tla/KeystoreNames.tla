--------------------------- MODULE KeystoreNames ---------------------------
(***************************************************************************)
(* The names BrineProvider gives to its keystore entries.  identity.py     *)
(* joins a prefix, the identity and perhaps a version with colons and does *)
(* not escape the identity; all entries of all identities share one        *)
(* service.  BrineProvider.tla takes the entries of two identities to be   *)
(* different; this module says when they are.                              *)
(*                                                                         *)
(* A string is the sequence of the words between its colons, so that       *)
(* joining is concatenation.  A method is one step here: how its keystore  *)
(* accesses interleave is the subject of BrineProvider.                    *)
(***************************************************************************)
EXTENDS Naturals, Sequences

CONSTANTS
  Words,
  Identities,  \* identity strings
  Keys,
  MaxVersion,  \* bound on the rotations of an identity
  Numeral,     \* the decimal digits of a version, one word
  Absent       \* no entry of that name

Versions == 0 .. MaxVersion - 1

\* What the theorems suppose of the constants.
NamesAssumption ==
  /\ Identities \subseteq Seq(Words) \ {<<>>}
  /\ {"pubkey", "archive", "archivecount", "revoked"} \subseteq Words
  /\ MaxVersion \in Nat
  /\ Numeral \in [Versions -> Words]
  /\ Absent \notin Keys

\* The prefixes of identity.py 394-407 before an identity, and the version after it.
SeedName(i) == i
PubkeyName(i) == <<"pubkey">> \o i
CountName(i) == <<"archivecount">> \o i
RevokedName(i) == <<"revoked">> \o i
ArchiveName(i, v) == <<"archive">> \o Append(i, Numeral[v])
RevokedVersionName(i, v) == <<"revoked">> \o Append(i, Numeral[v])

\* Every entry that a method called for identity i reads or writes.
NamesOf(i) ==
  {SeedName(i), PubkeyName(i), CountName(i), RevokedName(i)}
    \cup {ArchiveName(i, v) : v \in Versions}
    \cup {RevokedVersionName(i, v) : v \in Versions}

Names == UNION {NamesOf(i) : i \in Identities}

\* The text of an entry: the hex form of 32 bytes, whether seed or verify key, a
\* decimal count, or the "1" of a flag, which int() takes for a count.
Hex(k) == [key |-> k, count |-> Absent]
Decimal(n) == [key |-> Absent, count |-> n]
Flag == Decimal(1)

Texts == [key : Keys, count : {Absent}] \cup [key : {Absent}, count : Nat]

VARIABLE store  \* the keyring service: the text under each name

Stored(n) == store[n] # Absent
IsKey(n) == Stored(n) /\ store[n].key # Absent

Init == store = [n \in Names |-> Absent]

-----------------------------------------------------------------------------
Generate(i, k) ==
  /\ ~Stored(SeedName(i))
  /\ store' = [store EXCEPT ![SeedName(i)] = Hex(k)]

\* _archive_count: int() raises on the hex form of a key.
CountReadable(i) == ~IsKey(CountName(i))
Count(i) == IF Stored(CountName(i)) THEN store[CountName(i)].count ELSE 0

\* The seed must be the hex form of 32 bytes; what it means as a seed is not
\* told apart from what it means as a verify key.
Rotate(i, k) ==
  /\ IsKey(SeedName(i))
  /\ CountReadable(i) /\ Count(i) < MaxVersion
  /\ store' = [store EXCEPT ![ArchiveName(i, Count(i))] = store[SeedName(i)],
                            ![CountName(i)] = Decimal(Count(i) + 1),
                            ![SeedName(i)] = Hex(k)]

Revoke(i) ==
  /\ Stored(SeedName(i)) \/ Stored(PubkeyName(i))
  /\ store' = [store EXCEPT ![RevokedName(i)] = Flag]

RevokeVersion(i, v) == store' = [store EXCEPT ![RevokedVersionName(i, v)] = Flag]

RegisterPublicKey(i, k) == store' = [store EXCEPT ![PubkeyName(i)] = Hex(k)]

\* A call of a method of the provider for identity i.
CallFor(i) ==
  \/ \E k \in Keys : Generate(i, k) \/ Rotate(i, k) \/ RegisterPublicKey(i, k)
  \/ Revoke(i)
  \/ \E v \in Versions : RevokeVersion(i, v)

Next == \E i \in Identities : CallFor(i)

Spec == Init /\ [][Next]_store

-----------------------------------------------------------------------------
TypeOK == store \in [Names -> Texts \cup {Absent}]

\* A call for one identity leaves every entry of every other identity as it was,
\* so the entry under the public-key prefix is nobody's seed (identity.py
\* 390-393, register_public_key docstring) and a slot of BrineProvider.tla has
\* its entries to itself.
EntriesApart ==
  [][\A i \in Identities : CallFor(i) =>
       \A j \in Identities \ {i} : \A n \in NamesOf(j) : store'[n] = store[n]]_store

\* The identities for which that holds: no identity of several words begins with
\* the word of a prefix, and none is another one followed by a version.
Prefixes == {"pubkey", "archive", "archivecount", "revoked"}

Unambiguous ==
  /\ \A i \in Identities : Len(i) = 1 \/ Head(i) \notin Prefixes
  /\ \A i, j \in Identities, v \in Versions : j # Append(i, Numeral[v])
=============================================================================
