------------------------ MODULE KeystoreNamesProofs ------------------------
(***************************************************************************)
(* Under Unambiguous the entries of different identities are different, so *)
(* that a call leaves the entries of all other identities alone.           *)
(***************************************************************************)
EXTENDS KeystoreNames, TLAPS

\* A prefix of one word can be taken off again.
LEMMA PrefixCancels ==
  ASSUME NEW p \in Words, NEW q \in Words, NEW s \in Seq(Words), NEW t \in Seq(Words),
         <<p>> \o s = <<q>> \o t
  PROVE  p = q /\ s = t
<1>1. Len(<<p>> \o s) = 1 + Len(s) /\ Len(<<q>> \o t) = 1 + Len(t)
  OBVIOUS
<1>2. (<<p>> \o s)[1] = p /\ (<<q>> \o t)[1] = q
  OBVIOUS
<1>3. \A n \in 1 .. Len(s) : (<<p>> \o s)[n + 1] = s[n]
  OBVIOUS
<1>4. \A n \in 1 .. Len(t) : (<<q>> \o t)[n + 1] = t[n]
  OBVIOUS
<1>5. Len(s) = Len(t) /\ Len(s) \in Nat
  BY <1>1
<1>6. \A n \in 1 .. Len(s) : s[n] = t[n]
  BY <1>3, <1>4, <1>5
<1> QED
  BY <1>2, <1>5, <1>6

\* So can the version at the end.
LEMMA SuffixCancels ==
  ASSUME NEW p \in Words, NEW q \in Words, NEW s \in Seq(Words), NEW t \in Seq(Words),
         Append(s, p) = Append(t, q)
  PROVE  s = t
<1>1. Len(s) = Len(t) /\ Len(s) \in Nat
  <2>1. Len(Append(s, p)) = Len(s) + 1 /\ Len(Append(t, q)) = Len(t) + 1
    OBVIOUS
  <2> QED
    BY <2>1
<1>2. \A n \in 1 .. Len(s) : s[n] = Append(s, p)[n] /\ t[n] = Append(t, q)[n]
  BY <1>1
<1> QED
  BY <1>1, <1>2

-----------------------------------------------------------------------------
\* What may follow a prefix in a name of identity i.
Tails(i) == {i} \cup {Append(i, Numeral[v]) : v \in Versions}

LEMMA TailsTyped ==
  ASSUME NamesAssumption, NEW i \in Identities
  PROVE  /\ i \in Seq(Words) /\ Len(i) \in Nat \ {0}
         /\ \A v \in Versions : Numeral[v] \in Words
         /\ Tails(i) \subseteq Seq(Words)
         /\ \A t \in Tails(i) : Len(t) \in Nat \ {0}
<1>1. i \in Seq(Words) /\ i # <<>>
  BY DEF NamesAssumption
<1>2. Len(i) \in Nat \ {0}
  BY <1>1
<1>3. \A v \in Versions : Numeral[v] \in Words
  BY DEF NamesAssumption
<1>4. \A w \in Words : Append(i, w) \in Seq(Words) /\ Len(Append(i, w)) = Len(i) + 1
  BY <1>1
<1>5. \A t \in Tails(i) : t \in Seq(Words) /\ Len(t) \in Nat \ {0}
  BY <1>1, <1>2, <1>3, <1>4 DEF Tails
<1> QED
  BY <1>1, <1>2, <1>3, <1>5

\* Every name is the bare identity, or a prefix and a tail.
LEMMA NameForms ==
  ASSUME NEW i \in Identities, NEW n \in NamesOf(i)
  PROVE  n = i \/ \E p \in Prefixes, t \in Tails(i) : n = <<p>> \o t
<1> USE DEF SeedName, PubkeyName, CountName, RevokedName, ArchiveName, RevokedVersionName
<1>1. \/ n = i \/ n = <<"pubkey">> \o i \/ n = <<"archivecount">> \o i
      \/ n = <<"revoked">> \o i
      \/ \E v \in Versions : n = <<"archive">> \o Append(i, Numeral[v])
      \/ \E v \in Versions : n = <<"revoked">> \o Append(i, Numeral[v])
  BY DEF NamesOf
<1>2. {"pubkey", "archive", "archivecount", "revoked"} \subseteq Prefixes
  BY DEF Prefixes
<1>3. i \in Tails(i) /\ \A v \in Versions : Append(i, Numeral[v]) \in Tails(i)
  BY DEF Tails
<1> QED
  BY <1>1, <1>2, <1>3

\* A bare identity is no prefixed name of another.
LEMMA SeedApart ==
  ASSUME NamesAssumption, Unambiguous, NEW i \in Identities, NEW j \in Identities,
         NEW p \in Prefixes, NEW t \in Tails(j)
  PROVE  i # <<p>> \o t
<1> SUFFICES ASSUME i = <<p>> \o t PROVE FALSE
  OBVIOUS
<1>1. t \in Seq(Words) /\ Len(t) \in Nat \ {0} /\ p \in Words
  BY TailsTyped DEF NamesAssumption, Prefixes
<1>2. Len(<<p>> \o t) = 1 + Len(t) /\ (<<p>> \o t)[1] = p
  BY <1>1
<1>3. Len(i) # 1 /\ Head(i) = p
  BY <1>1, <1>2
<1> QED
  BY <1>3 DEF Unambiguous

\* Equal prefixed names belong to one identity.
LEMMA TailsApart ==
  ASSUME NamesAssumption, Unambiguous, NEW i \in Identities, NEW j \in Identities, i # j,
         NEW p \in Prefixes, NEW q \in Prefixes, NEW s \in Tails(i), NEW t \in Tails(j)
  PROVE  <<p>> \o s # <<q>> \o t
<1> SUFFICES ASSUME <<p>> \o s = <<q>> \o t PROVE FALSE
  OBVIOUS
<1>1. s \in Seq(Words) /\ t \in Seq(Words) /\ i \in Seq(Words) /\ j \in Seq(Words)
  BY TailsTyped
<1>2. p \in Words /\ q \in Words
  BY DEF NamesAssumption, Prefixes
<1>3. s = t
  BY <1>1, <1>2, PrefixCancels
<1>4. CASE s = i \/ t = j
  BY <1>3, <1>4 DEF Unambiguous, Tails
<1>5. CASE s # i /\ t # j
  <2>1. PICK v \in Versions : s = Append(i, Numeral[v])
    BY <1>5 DEF Tails
  <2>2. PICK w \in Versions : t = Append(j, Numeral[w])
    BY <1>5 DEF Tails
  <2>3. Numeral[v] \in Words /\ Numeral[w] \in Words
    BY TailsTyped
  <2> QED
    BY <1>1, <1>3, <2>1, <2>2, <2>3, SuffixCancels
<1> QED
  BY <1>4, <1>5

\* The names of two identities have nothing in common.
LEMMA NamesApart ==
  ASSUME NamesAssumption, Unambiguous, NEW i \in Identities, NEW j \in Identities, i # j
  PROVE  NamesOf(i) \cap NamesOf(j) = {}
<1> SUFFICES ASSUME NEW n \in NamesOf(i), n \in NamesOf(j) PROVE FALSE
  OBVIOUS
<1>1. n = i \/ \E p \in Prefixes, s \in Tails(i) : n = <<p>> \o s
  BY NameForms
<1>2. n = j \/ \E q \in Prefixes, t \in Tails(j) : n = <<q>> \o t
  BY NameForms
<1> QED
  BY <1>1, <1>2, SeedApart, TailsApart

-----------------------------------------------------------------------------
\* rotate() writes an archive entry of a version in range.
LEMMA CountInRange ==
  ASSUME NamesAssumption, TypeOK, NEW i \in Identities,
         CountReadable(i), Count(i) < MaxVersion
  PROVE  Count(i) \in Versions
<1>1. CountName(i) \in Names
  BY DEF NamesOf, Names
<1>2. CASE ~Stored(CountName(i))
  BY <1>2 DEF Count, Versions, NamesAssumption
<1>3. CASE Stored(CountName(i))
  <2>1. store[CountName(i)] \in Texts /\ store[CountName(i)].key = Absent
    BY <1>1, <1>3 DEF TypeOK, Stored, CountReadable, IsKey
  <2>2. store[CountName(i)].count \in Nat
    BY <2>1 DEF Texts, NamesAssumption
  <2> QED
    BY <1>3, <2>2 DEF Count, Versions, NamesAssumption
<1> QED
  BY <1>2, <1>3

\* A call writes names of its own identity only, and none that did not exist.
LEMMA CallWritesOwn ==
  ASSUME NamesAssumption, TypeOK, NEW i \in Identities, CallFor(i)
  PROVE  /\ TypeOK'
         /\ \A n \in Names \ NamesOf(i) : store'[n] = store[n]
<1>1. /\ SeedName(i) \in NamesOf(i) /\ PubkeyName(i) \in NamesOf(i)
      /\ CountName(i) \in NamesOf(i) /\ RevokedName(i) \in NamesOf(i)
      /\ \A v \in Versions : RevokedVersionName(i, v) \in NamesOf(i)
      /\ \A v \in Versions : ArchiveName(i, v) \in NamesOf(i)
  BY DEF NamesOf
<1>2. NamesOf(i) \subseteq Names
  BY DEF Names
<1>3. Flag \in Texts /\ \A k \in Keys : Hex(k) \in Texts
  BY DEF Flag, Decimal, Hex, Texts
<1>4. CASE \E k \in Keys : Generate(i, k) \/ RegisterPublicKey(i, k)
  BY <1>1, <1>2, <1>3, <1>4 DEF Generate, RegisterPublicKey, TypeOK
<1>5. CASE Revoke(i) \/ \E v \in Versions : RevokeVersion(i, v)
  BY <1>1, <1>2, <1>3, <1>5 DEF Revoke, RevokeVersion, TypeOK
<1>6. CASE \E k \in Keys : Rotate(i, k)
  <2>1. PICK k \in Keys : Rotate(i, k)
    BY <1>6
  <2>2. Count(i) \in Versions
    BY <2>1, CountInRange DEF Rotate
  <2>3. Decimal(Count(i) + 1) \in Texts
    BY <2>2 DEF Decimal, Texts, Versions, NamesAssumption
  <2>4. store[SeedName(i)] \in Texts
    BY <1>1, <1>2, <2>1 DEF Rotate, IsKey, Stored, TypeOK
  <2> QED
    BY <1>1, <1>2, <1>3, <2>1, <2>2, <2>3, <2>4 DEF Rotate, TypeOK
<1> QED
  BY <1>4, <1>5, <1>6 DEF CallFor

\* Under Unambiguous the entries of an identity change only by calls for it,
\* which is what BrineProvider.tla supposes of its slots.
THEOREM UnambiguousEntriesApart ==
  ASSUME NamesAssumption, Unambiguous
  PROVE  Spec => EntriesApart
<1>1. Init => TypeOK
  BY DEF Init, TypeOK
<1>2. TypeOK /\ [Next]_store => TypeOK'
  <2>1. TypeOK /\ Next => TypeOK'
    BY CallWritesOwn DEF Next
  <2> QED
    BY <2>1 DEF TypeOK
<1>3. TypeOK /\ [Next]_store =>
        [\A i \in Identities : CallFor(i) =>
           \A j \in Identities \ {i} : \A n \in NamesOf(j) : store'[n] = store[n]]_store
  <2>1. SUFFICES ASSUME TypeOK, NEW i \in Identities, CallFor(i),
                        NEW j \in Identities \ {i}, NEW n \in NamesOf(j)
                 PROVE  store'[n] = store[n]
    OBVIOUS
  <2>2. n \in Names \ NamesOf(i)
    BY NamesApart DEF Names
  <2> QED
    BY <2>1, <2>2, CallWritesOwn
<1> QED
  BY <1>1, <1>2, <1>3, PTL DEF Spec, EntriesApart
=============================================================================
