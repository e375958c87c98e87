------------------------------ MODULE KeyTrust ------------------------------
(***************************************************************************)
(* What a keystore of rotating keys promises to those who rely on it, with *)
(* no entries, processes or half-finished calls.  A slot has one current   *)
(* key; retiring a key gives it the next version; users ask for versions   *)
(* to be withdrawn, and may do so before a version exists.  A key loses    *)
(* its trust only when it has been replaced and every version it was       *)
(* retired under was asked for, and it never comes back (README.md,        *)
(* rotation and key.revoke; BrineProvider.generate, rotate, revoke).       *)
(***************************************************************************)
EXTENDS Naturals

CONSTANTS Slots, Keys, NoKey,
          Versions  \* the versions a key can be retired under

VARIABLES
  introduced,  \* per slot: the keys it has ever had
  current,     \* per slot: the latest of them, or NoKey
  versions,    \* per slot: how many versions its keys were retired under
  retired,     \* per slot: <<version, key>>
  asked,       \* per slot: the versions to be withdrawn
  trusted      \* per slot: the keys whose signatures are accepted

trust == <<introduced, current, versions, retired, asked, trusted>>

Init ==
  /\ introduced = [s \in Slots |-> {}]
  /\ current = [s \in Slots |-> NoKey]
  /\ versions = [s \in Slots |-> 0]
  /\ retired = [s \in Slots |-> {}]
  /\ asked = [s \in Slots |-> {}]
  /\ trusted = [s \in Slots |-> {}]

\* The key was retired, and every version it has is one of those withdrawn.
Withdrawn(s, k, withdrawn) ==
  /\ \E r \in retired[s] : r[2] = k
  /\ \A r \in retired[s] : r[2] = k => r[1] \in withdrawn

\* generate(), and rotate() when it completes: a new key, on top of those trusted.
\* The key it replaces stays, but for one whose versions were all asked for.
Introduce(s, k) ==
  /\ k \notin introduced[s]
  /\ introduced' = [introduced EXCEPT ![s] = @ \cup {k}]
  /\ current' = [current EXCEPT ![s] = k]
  /\ trusted' = [trusted EXCEPT ![s] =
                   {x \in @ : ~Withdrawn(s, x, asked[s])} \cup {k}]
  /\ UNCHANGED <<versions, retired, asked>>

\* rotate() gives the key it is about to replace the next version; when it dies
\* then, the key stays current and gets another version next time.
Retire(s) ==
  /\ current[s] # NoKey
  /\ retired' = [retired EXCEPT ![s] = @ \cup {<<versions[s], current[s]>>}]
  /\ versions' = [versions EXCEPT ![s] = @ + 1]
  /\ UNCHANGED <<introduced, current, asked, trusted>>

\* revoke(key_version=v): the key that has no other version goes, unless it is
\* the current one.
Withdraw(s, v) ==
  /\ v \notin asked[s]
  /\ asked' = [asked EXCEPT ![s] = @ \cup {v}]
  /\ trusted' = [trusted EXCEPT ![s] =
                   {x \in @ : x = current[s] \/ ~Withdrawn(s, x, asked[s] \cup {v})}]
  /\ UNCHANGED <<introduced, current, versions, retired>>

Next ==
  \E s \in Slots :
    \/ \E k \in Keys : Introduce(s, k)
    \/ Retire(s)
    \/ \E v \in Versions : Withdraw(s, v)

Spec == Init /\ [][Next]_trust
=============================================================================
