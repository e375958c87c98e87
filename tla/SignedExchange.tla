--------------------------- MODULE SignedExchange ---------------------------
(***************************************************************************)
(* The signature wire protocol of signing.py between nodes that each have  *)
(* a keystore: sign_envelope and verify_envelope, the scheme dispatch of   *)
(* Verifier, the provider's sign(), which callers also use directly, and   *)
(* what happens to an envelope in between (it is parsed and dumped again,  *)
(* its defaults are dropped, fields are changed).  Keys come and go.       *)
(*                                                                         *)
(* An envelope is a record: its type, its content (all fields that the     *)
(* library treats alike, the id included), its shape, and its signature    *)
(* block.  The shape says how the JSON object relates to the model:        *)
(*   "dumped"  is what model_dump(mode="json") writes;                     *)
(*   "sparse"  parses, but its dump is another object (defaults and nulls  *)
(*             left out, base64 not in normal form);                       *)
(*   "version" declares an unsupported version, "invalid" does not parse.  *)
(* Two envelopes have the same canonical bytes iff the records are equal.  *)
(* A call of the library is one step; how a single verify() interleaves    *)
(* with changes of one keystore is the subject of BrineTrust.              *)
(***************************************************************************)
EXTENDS FiniteSets, Naturals

CONSTANTS
  Nodes,           \* the identities; each node signs with its own keystore
  Keys,
  Contents,
  Uncanonical,     \* the contents RFC 8785 has no form for (integers beyond 2^53)
  Drafts,          \* the dicts callers hand to sign_envelope or sign, or send unsigned
  MaxSigned,       \* bound on the envelopes signed, in either way
  MaxChanges,      \* bound on the changes one envelope undergoes on its way
  NoKey, NoEnvelope,
  Missing,         \* a JSON field that is absent or null
  Empty,           \* sig: ""
  Garbled          \* sig: text that is not hex

DispatchTypes == {"task", "job"}
ReceiptTypes == {"task_result", "job_result"}
KeySchemes == {"brine", "pgp", "x509", "none"}

Unsigned == {Missing, Empty, Garbled}

Types == DispatchTypes \cup ReceiptTypes \cup {"task_error", "job_error", "untyped"}
Places == {"dispatch_signature", "receipt_signature", "top level", "none"}

\* The signature blocks and the envelopes whose sig is one of sigs; an envelope
\* without a block has one at "none", a flat dict has its key_scheme at "top level".
Blocks(sigs) ==
  [at : Places, scheme : KeySchemes \cup {"unrecognised", Missing},
   node : Nodes \cup {Missing}, sig : sigs]

Envelopes(sigs) ==
  [type : Types, content : Contents, shape : {"dumped", "sparse", "version", "invalid"},
   block : Blocks(sigs)]

ASSUME ExchangeAssumption ==
  /\ Uncanonical \subseteq Contents
  /\ Drafts \subseteq Envelopes(Unsigned)
  /\ NoEnvelope \notin Drafts
  /\ NoKey \notin Keys /\ Missing \notin KeySchemes
  /\ MaxSigned \in Nat /\ MaxChanges \in Nat

VARIABLES
  introduced, trusted,  \* for each keystore and identity: the keys it had, and accepts
  seed,                 \* per node: the key its keystore signs with
  providers,            \* per node: the schemes its Verifier has a provider for
  signed,               \* history: who signed what sign_envelope returned
  handmade,             \* history: the Signatures callers had from sign() itself
  wire,                 \* the envelope under way
  changes,              \* how often it was changed
  answer                \* what the last call of the library answered

keys == <<introduced, trusted, seed>>
signings == <<signed, handmade>>
exchange == <<keys, providers, signings, wire, changes, answer>>

Store(n, i) == <<n, i>>

NoAnswer == [call |-> "none", at |-> Missing, says |-> Missing]
Answer(call, n, says) == answer' = [call |-> call, at |-> n, says |-> says]

-----------------------------------------------------------------------------
(* The envelope models.                                                    *)

\* signing.py _signature_block_key; "unsupported" stands for its SchemeError.
BlockKey(type) ==
  CASE type \in DispatchTypes -> "dispatch_signature"
    [] type \in ReceiptTypes -> "receipt_signature"
    [] OTHER -> "unsupported"

\* The block a typed envelope is signed by, where it is expected.
HasBlock(env) == env.block.at = BlockKey(env.type)

\* parse_strict: version errors come out typed, all others as ValidationError.
\* A block of the other kind is an extra field; key_scheme and node_id are required.
Parsed(env) ==
  IF env.shape = "version" THEN "UnsupportedVersionError"
  ELSE IF \/ env.shape = "invalid"
          \/ /\ env.block.at # "none"
             /\ \/ ~HasBlock(env)
                \/ env.block.scheme \notin KeySchemes
                \/ env.block.node = Missing
       THEN "ValidationError"
       ELSE "parsed"

\* parse_strict followed by model_dump(mode="json"), of an envelope that parses.
Dumped(env) ==
  IF env.shape = "sparse" THEN [env EXCEPT !.shape = "dumped"] ELSE env

\* The form both sides canonicalize (SP-3.3-01): sig is "", not absent.
ToBeSigned(env) == [env EXCEPT !.block.sig = Empty]

\* A signature is determined by the key and the bytes.
SignatureOver(k, env) == [key |-> k, over |-> env]
Material(env) == env.block.sig \notin Unsigned

-----------------------------------------------------------------------------
(* Keys.                                                                   *)

\* BrineProvider.generate and rotate: a new seed, the old key stays trusted.
NewSeed(n, k) ==
  /\ \A m \in Nodes : k \notin introduced[Store(m, m)]
  /\ introduced' = [introduced EXCEPT ![Store(n, n)] = @ \cup {k}]
  /\ trusted' = [trusted EXCEPT ![Store(n, n)] = @ \cup {k}]
  /\ seed' = [seed EXCEPT ![n] = k]
  /\ answer' = NoAnswer
  /\ UNCHANGED <<providers, signings, wire, changes>>

\* BrineProvider.revoke(key_version=...) of a key rotated away.
WithdrawKey(n, k) ==
  /\ k \in trusted[Store(n, n)] \ {seed[n]}
  /\ trusted' = [trusted EXCEPT ![Store(n, n)] = @ \ {k}]
  /\ answer' = NoAnswer
  /\ UNCHANGED <<introduced, seed, providers, signings, wire, changes>>

\* One entry per identity: the key registered before it is replaced.
RegisterKey(n, i, k) ==
  /\ introduced' = [introduced EXCEPT ![Store(n, i)] = @ \cup {k}]
  /\ trusted' = [trusted EXCEPT ![Store(n, i)] = {k}]

\* Mutants: what public_key() answers is stored unchecked; or it is stored under
\* another identity than it was asked for.
LearnUnchecked(n, i) ==
  /\ n # i
  /\ RegisterKey(n, i, seed[i])
  /\ answer' = NoAnswer
  /\ UNCHANGED <<seed, providers, signings, wire, changes>>

LearnMixedUp(n, i) ==
  /\ n # i
  /\ \E j \in Nodes : seed[j] # NoKey /\ RegisterKey(n, i, seed[j])
  /\ answer' = NoAnswer
  /\ UNCHANGED <<seed, providers, signings, wire, changes>>

\* BrineProvider.register_public_key with what public_key() of node i returned.
Learn(n, i) ==
  /\ n # i
  /\ seed[i] # NoKey
  /\ RegisterKey(n, i, seed[i])
  /\ answer' = NoAnswer
  /\ UNCHANGED <<seed, providers, signings, wire, changes>>

\* Verifier.register of a BrineProvider over the node's keystore, the only
\* adapter there is.
Register(n) ==
  /\ providers' = [providers EXCEPT ![n] = @ \cup {"brine"}]
  /\ answer' = NoAnswer
  /\ UNCHANGED <<keys, signings, wire, changes>>

-----------------------------------------------------------------------------
(* sign_envelope.                                                          *)

\* The draft with its node_id filled in, if absent, and its sig emptied.
Filled(draft, i) ==
  ToBeSigned([draft EXCEPT !.block.node = IF @ = Missing THEN i ELSE @])

\* Mutant: the signature covers the caller's dict.
WireFormRaw(draft, i) == Filled(draft, i)

\* What the signature covers: the dump of the parsed draft, not the draft.
WireForm(draft, i) == ToBeSigned(Dumped(Filled(draft, i)))

\* A signature is text in hex, neither empty nor left out.
ASSUME SignatureAssumption ==
  \A k \in Keys, draft \in Drafts, i \in Nodes :
    SignatureOver(k, WireForm(draft, i)) \notin Unsigned

\* The returned model's dump: what was covered, with the signature in its place.
WithSignature(k, covered) ==
  [Dumped(covered) EXCEPT !.block.sig = SignatureOver(k, covered)]

\* Mutant: the draft is dumped without having been parsed.
SignRefusalUnparsed(n, i, draft) ==
  CASE BlockKey(draft.type) = "unsupported" -> "SchemeError"
    [] ~HasBlock(draft) -> "IdentityError"
    [] draft.block.node \notin {Missing, i} -> "IdentityError"
    [] i # n \/ seed[n] = NoKey -> "IdentityError"
    [] draft.content \in Uncanonical -> "CanonicalizationError"
    [] OTHER -> "signed"

\* Mutant: the declared node_id need not be the signer.
SignRefusalAnyNode(n, i, draft) ==
  CASE BlockKey(draft.type) = "unsupported" -> "SchemeError"
    [] ~HasBlock(draft) -> "IdentityError"
    [] Parsed(Filled(draft, i)) # "parsed" -> Parsed(Filled(draft, i))
    [] i # n \/ seed[n] = NoKey -> "IdentityError"
    [] draft.content \in Uncanonical -> "CanonicalizationError"
    [] OTHER -> "signed"

SignRefusal(n, i, draft) ==
  CASE BlockKey(draft.type) = "unsupported" -> "SchemeError"
    [] ~HasBlock(draft) -> "IdentityError"
    [] draft.block.node \notin {Missing, i} -> "IdentityError"
    [] Parsed(Filled(draft, i)) # "parsed" -> Parsed(Filled(draft, i))
    [] i # n \/ seed[n] = NoKey -> "IdentityError"
    [] draft.content \in Uncanonical -> "CanonicalizationError"
    [] OTHER -> "signed"

RoomToSign == Cardinality(signed) + Cardinality(handmade) < MaxSigned

\* Node n calls sign_envelope(draft, provider, signer_identity=i).
SignEnvelope(n, i, draft) ==
  /\ IF SignRefusal(n, i, draft) = "signed"
     THEN /\ RoomToSign
          /\ signed' = signed \cup {[by |-> n, env |-> WithSignature(seed[n], WireForm(draft, i))]}
     ELSE UNCHANGED signed
  /\ Answer("sign", n, SignRefusal(n, i, draft))
  /\ UNCHANGED <<keys, providers, handmade, wire, changes>>

-----------------------------------------------------------------------------
(* BrineProvider.sign, called without sign_envelope.                       *)

\* Nothing is parsed, no block is looked for and no node_id is compared: any dict
\* with canonical bytes is signed as it stands.
HandRefusal(n, i, env) ==
  CASE i # n \/ seed[n] = NoKey -> "IdentityError"
    [] env.content \in Uncanonical -> "CanonicalizationError"
    [] OTHER -> "signed"

SignByHand(n, i, env) ==
  /\ IF HandRefusal(n, i, env) = "signed"
     THEN /\ RoomToSign
          /\ handmade' = handmade \cup {[by |-> n, sig |-> SignatureOver(seed[n], env)]}
     ELSE UNCHANGED handmade
  /\ Answer("sign", n, HandRefusal(n, i, env))
  /\ UNCHANGED <<keys, providers, signed, wire, changes>>

-----------------------------------------------------------------------------
(* verify_envelope and Verifier.verify.                                    *)

\* Mutant: revoked keys stay among the candidates.
BrineVerifiesRevoked(n, i, sig, env) ==
  CASE env.content \in Uncanonical -> "CanonicalizationError"
    [] introduced[Store(n, i)] = {} -> "IdentityError"
    [] sig.key \in introduced[Store(n, i)] /\ sig.over = env -> "Receipt"
    [] OTHER -> "None"

\* BrineProvider.verify over the keystore of node n.
BrineVerifies(n, i, sig, env) ==
  CASE env.content \in Uncanonical -> "CanonicalizationError"
    [] introduced[Store(n, i)] = {} -> "IdentityError"
    [] sig.key \in trusted[Store(n, i)] /\ sig.over = env -> "Receipt"
    [] OTHER -> "None"

\* Mutant: a scheme without a provider falls back to the one there is.
DispatchedByDefault(n, scheme, i, sig, env) ==
  IF providers[n] = {} THEN "SchemeError" ELSE BrineVerifies(n, i, sig, env)

\* Verifier._declared_scheme; "undeclared" stands for its SchemeError, and is like
\* Missing no scheme a signature can have.
DeclaredScheme(env) ==
  CASE env.type \in DispatchTypes \cup ReceiptTypes ->
         IF HasBlock(env) /\ env.block.scheme # Missing THEN env.block.scheme ELSE "undeclared"
    [] env.type \in {"task_error", "job_error"} -> Missing
    [] OTHER -> IF env.block.at = "top level" THEN env.block.scheme ELSE Missing

\* Verifier._declared_node_id.
DeclaredNode(env) == IF HasBlock(env) THEN env.block.node ELSE Missing

\* Mutant: the declared scheme is not compared with the signature's.
DispatchedUndeclared(n, scheme, i, sig, env) ==
  CASE scheme \notin providers[n] -> "SchemeError"
    [] DeclaredNode(env) \notin {Missing, i} -> "None"
    [] OTHER -> BrineVerifies(n, i, sig, env)

\* Verifier.verify of a Signature object with its scheme and signer identity:
\* nobody verifies what is not declared or has no provider, and the provider
\* refuses a signer who is not the declared node.
Dispatched(n, scheme, i, sig, env) ==
  CASE DeclaredScheme(env) # scheme -> "SchemeError"
    [] scheme \notin providers[n] -> "SchemeError"
    [] DeclaredNode(env) \notin {Missing, i} -> "None"
    [] OTHER -> BrineVerifies(n, i, sig, env)

VerifyOutcome(n, env, allowUnsigned) ==
  CASE BlockKey(env.type) = "unsupported" -> "SchemeError"
    [] ~HasBlock(env) -> "SchemeError"
    [] env.block.scheme = "none" ->
         IF allowUnsigned THEN "UnsignedAck" ELSE "SchemeError"
    [] env.block.node = Missing -> "SchemeError"
    [] ~Material(env) -> "None"
    [] env.block.scheme = Missing -> "SchemeError"
    [] env.block.scheme \notin KeySchemes -> "ValueError"
    [] OTHER -> Dispatched(n, env.block.scheme, env.block.node, env.block.sig,
                           ToBeSigned(env))

VerifyEnvelope(n, allowUnsigned) ==
  /\ wire # NoEnvelope
  /\ Answer("verify", n, VerifyOutcome(n, wire, allowUnsigned))
  /\ UNCHANGED <<keys, providers, signings, wire, changes>>

-----------------------------------------------------------------------------
(* The way from one node to another, outside the library.                  *)

Send(env) ==
  /\ wire' = env
  /\ changes' = 0
  /\ answer' = NoAnswer
  /\ UNCHANGED <<keys, providers, signings>>

\* A receiver parses the envelope and passes on its dump.
Redump ==
  /\ wire # NoEnvelope
  /\ Parsed(wire) = "parsed"
  /\ wire' = Dumped(wire)
  /\ answer' = NoAnswer
  /\ UNCHANGED <<keys, providers, signings, changes>>

Signatures == {s.env.block.sig : s \in signed} \cup {h.sig : h \in handmade}

\* The caller of sign() writes the signature into the block, where there is one.
Assembled(sig) ==
  IF sig.over.block.at = "none" THEN sig.over ELSE [sig.over EXCEPT !.block.sig = sig]

Variants(env) ==
  {[env EXCEPT !.type = t] : t \in DispatchTypes \cup ReceiptTypes}
  \cup {[env EXCEPT !.content = c] : c \in Contents}
  \cup {[env EXCEPT !.shape = s] : s \in {"dumped", "sparse", "version"}}
  \cup
  IF env.block.at = "none" THEN {}
  ELSE {[env EXCEPT !.block.node = i] : i \in Nodes}
       \cup {[env EXCEPT !.block.scheme = k] : k \in KeySchemes}
       \cup {[env EXCEPT !.block.sig = s] : s \in Signatures \cup Unsigned}

\* Something on the way changes one part of it.
Change ==
  /\ wire # NoEnvelope
  /\ changes < MaxChanges
  /\ \E env \in Variants(wire) :
       /\ env # wire
       /\ wire' = env
  /\ changes' = changes + 1
  /\ answer' = NoAnswer
  /\ UNCHANGED <<keys, providers, signings>>

-----------------------------------------------------------------------------
Init ==
  /\ introduced = [s \in Nodes \X Nodes |-> {}]
  /\ trusted = [s \in Nodes \X Nodes |-> {}]
  /\ seed = [n \in Nodes |-> NoKey]
  /\ providers = [n \in Nodes |-> {}]
  /\ signed = {}
  /\ handmade = {}
  /\ wire = NoEnvelope
  /\ changes = 0
  /\ answer = NoAnswer

KeyStep(n) ==
  \/ \E k \in Keys : NewSeed(n, k) \/ WithdrawKey(n, k)
  \/ \E i \in Nodes : Learn(n, i)

LibraryCall(n) ==
  \/ Register(n)
  \/ \E i \in Nodes, draft \in Drafts : SignEnvelope(n, i, draft) \/ SignByHand(n, i, draft)
  \/ \E allowUnsigned \in BOOLEAN : VerifyEnvelope(n, allowUnsigned)

Travel ==
  \/ \E s \in signed : Send(s.env)
  \/ \E draft \in Drafts : Send(draft)
  \/ \E h \in handmade : Send(Assembled(h.sig))
  \/ Redump
  \/ Change

Next == Travel \/ \E n \in Nodes : KeyStep(n) \/ LibraryCall(n)

Spec == Init /\ [][Next]_exchange

-----------------------------------------------------------------------------
TypeOK ==
  /\ introduced \in [Nodes \X Nodes -> SUBSET Keys]
  /\ trusted \in [Nodes \X Nodes -> SUBSET Keys]
  /\ seed \in [Nodes -> Keys \cup {NoKey}]
  /\ providers \in [Nodes -> SUBSET {"brine"}]
  /\ signed \subseteq [by : Nodes, env : Envelopes(Signatures)]
  /\ handmade \subseteq [by : Nodes, sig : [key : Keys, over : Drafts]]
  /\ wire \in Envelopes(Signatures \cup Unsigned) \cup {NoEnvelope}
  /\ changes \in 0 .. MaxChanges
  /\ answer.call \in {"none", "sign", "verify"}

Verified == answer.call = "verify" /\ answer.says = "Receipt"

\* Node i had the provider sign exactly these bytes, in one way or the other.
SignedByHand(i, sig, env) == [by |-> i, sig |-> sig] \in handmade /\ sig.over = env

Signed(i, sig, env) ==
  \/ SignedByHand(i, sig, env)
  \/ \E s \in signed : s.by = i /\ s.env.block.sig = sig /\ ToBeSigned(s.env) = env

\* A receipt for an envelope, whatever happened to it on its way and to the keys
\* of both sides, means that the node it names got exactly this object back from
\* sign_envelope, or itself had the provider sign these very bytes, under a key
\* the verifying keystore trusts (verify_envelope; README "Dispatch Signatures",
\* AT-C1, AT-C4).
ReceiptMeansSigned ==
  Verified =>
    /\ \/ [by |-> wire.block.node, env |-> wire] \in signed
       \/ SignedByHand(wire.block.node, wire.block.sig, ToBeSigned(wire))
    /\ wire.block.scheme = "brine"
    /\ wire.block.sig.key \in trusted[Store(answer.at, wire.block.node)]

\* verify_envelope never parses what it verifies, so a receipt says nothing about
\* the form of an envelope whose signer went round sign_envelope.  Where the named
\* node did not do that, what gets a receipt is what parse_strict accepts, at a
\* supported version: no signature of another origin and no change on the way
\* gives an unparsable envelope a receipt (signing.py 95-110, 118-187).
UnparsedMeansHandmade ==
  Verified /\ Parsed(wire) # "parsed" =>
    SignedByHand(wire.block.node, wire.block.sig, ToBeSigned(wire))

\* Callers may also hand Verifier.verify an envelope, as it is or with its sig
\* emptied, and a Signature they made up themselves.  A receipt still means that
\* the identity it is made out to signed exactly this object, with a key of its
\* own, also where the envelope declares no node and so leaves that to the keys;
\* and that scheme and node are the declared ones, whatever the Signature claims
\* (Verifier docstring, T-03-06, IDENT-03; test_identity_cross_role.py 47-59).
DirectReceiptMeansSigned ==
  wire # NoEnvelope =>
    \A n, i \in Nodes, scheme \in KeySchemes, sig \in Signatures,
       env \in {wire, ToBeSigned(wire)} :
      Dispatched(n, scheme, i, sig, env) = "Receipt" =>
        /\ Signed(i, sig, env)
        /\ DeclaredScheme(env) = scheme
        /\ DeclaredNode(env) \in {Missing, i}

\* What sign_envelope returned gets its receipt at every node whose keystore
\* trusts the key, however often receivers parsed and dumped it and whatever
\* was rotated since: signer and verifier arrive at the same bytes, sig: ""
\* included (SP-3.3-01, SP-3.3-02; signing.py 97-110 and 176-187).
SignedVerifies ==
  \A s \in signed :
    /\ answer.call = "verify"
    /\ wire = s.env
    /\ s.env.block.scheme \in providers[answer.at]
    /\ s.env.block.sig.key \in trusted[Store(answer.at, s.by)]
    => answer.says = "Receipt"
=============================================================================
