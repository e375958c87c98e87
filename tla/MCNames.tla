------------------------------ MODULE MCNames ------------------------------
(***************************************************************************)
(* An instance of KeystoreNames: "a", and an identity that reads like the  *)
(* entry under which the public key of "a" is registered.                  *)
(***************************************************************************)
EXTENDS KeystoreNames

CONSTANTS k1, k2

MCWords == Prefixes \cup {"a", "0"}
MCNumeral == [v \in Versions |-> "0"]
MCIdentities == {<<"a">>, <<"pubkey", "a">>}
=============================================================================
