------------------------------ MODULE MCBrine ------------------------------
(***************************************************************************)
(* Instances of BrineTrust.  A slot is a service and an identity; what     *)
(* differs between runs is who may call what.                              *)
(***************************************************************************)
EXTENDS BrineTrust, TLC

CONSTANTS minter, revoker, reader, own, peer, alice, bob, k1, k2, k3, e1, e2, e3

\* own and peer hold the same identity in two keyring services: the node that
\* signs and a node that only verifies (tests/test_identity_cross_role.py).
MCIdentityOf == [s \in Slots |-> alice]

\* e1 declares the signer, e2 declares nobody (a job), e3 somebody else.
MCNodeIdOf == [e \in Envelopes |->
                 CASE e = e1 -> alice [] e = e2 -> NoIdentity [] OTHER -> bob]

On(p, s, methods) == ({p} \cap Procs) \X ({s} \cap Slots) \X methods

KeySymmetry == Permutations(Keys)

\* The owner's keys rotate while one process withdraws versions and another
\* signs and verifies.
RotatingCalls ==
  On(minter, own, {"generate", "rotate"})
    \cup On(revoker, own, {"revoke_version", "sign"})
    \cup On(reader, own, {"verify", "public_key"})

\* One process, every method; the peer's service only verifies.
SequentialCalls ==
  On(minter, own, Methods)
    \cup On(minter, peer, {"register_public_key", "revoke", "verify", "public_key"})

\* As RotatingCalls, with a revocation of the current key.
RevokingCalls ==
  On(minter, own, {"generate", "rotate"}) \cup On(revoker, own, {"revoke", "sign"})
    \cup On(reader, own, {"verify"})

\* The owner's key rotates while its versions are withdrawn, and a second slot's
\* current key is revoked while it signs, verifies and is handed out.
PeerCalls ==
  On(minter, own, {"generate", "rotate"}) \cup On(revoker, own, {"revoke_version"})
    \cup On(reader, own, {"verify"})
    \cup On(minter, peer, {"generate", "sign"}) \cup On(revoker, peer, {"revoke"})
    \cup On(reader, peer, {"verify", "public_key"})

\* One process that rotates and revokes, without a concurrent call.
RevokeThenRotateCalls == On(minter, own, {"generate", "rotate", "revoke"})
=============================================================================
