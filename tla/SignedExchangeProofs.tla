------------------------ MODULE SignedExchangeProofs ------------------------
(***************************************************************************)
(* What a receipt of verify_envelope and of Verifier.verify proves, and    *)
(* that what was signed gets one: for every set of nodes, keys, contents   *)
(* and drafts.                                                             *)
(*                                                                         *)
(* The argument: a signature that travels was made by sign_envelope or by  *)
(* sign() (WireOK).  What sign_envelope made covers the envelope it was    *)
(* returned in, sig emptied (SignedOK), so two envelopes that agree once   *)
(* sig is emptied and carry the same signature are the same (SameEnvelope).*)
(* What sign() made names nobody: there the key tells who made it, because *)
(* a keystore knows an identity by that identity's own keys and no two     *)
(* nodes have one in common (KeysOwned, HandmadeOK).                       *)
(***************************************************************************)
EXTENDS SignedExchange, TLAPS

USE DEF Unsigned, DispatchTypes, ReceiptTypes, KeySchemes

SignedOK ==
  /\ signed \subseteq [by : Nodes, env : Envelopes(Signatures)]
  /\ \A s \in signed :
       /\ s.by = s.env.block.node
       /\ s.env.block.sig.over = ToBeSigned(s.env)
       /\ Parsed(s.env) = "parsed" /\ HasBlock(s.env)

WireOK == wire \in Envelopes(Signatures \cup Unsigned) \cup {NoEnvelope}

ProvidersOK == providers \in [Nodes -> SUBSET {"brine"}]

\* What a keystore trusts was introduced to it.
KeysOK ==
  /\ seed \in [Nodes -> Keys \cup {NoKey}]
  /\ introduced \in [Nodes \X Nodes -> SUBSET Keys]
  /\ trusted \in [Nodes \X Nodes -> SUBSET Keys]
  /\ \A s \in Nodes \X Nodes : trusted[s] \subseteq introduced[s]

\* A keystore knows an identity by keys of that identity, and no two nodes ever
\* had the same key.
KeysOwned ==
  /\ \A n \in Nodes : seed[n] \in introduced[Store(n, n)] \cup {NoKey}
  /\ \A n, i \in Nodes : introduced[Store(n, i)] \subseteq introduced[Store(i, i)]
  /\ \A n, i \in Nodes :
       n # i => introduced[Store(n, n)] \cap introduced[Store(i, i)] = {}

\* Callers of sign() sign drafts, with a key of the node they run at.
HandmadeOK ==
  /\ handmade \subseteq [by : Nodes, sig : [key : Keys, over : Drafts]]
  /\ \A h \in handmade : h.sig.key \in introduced[Store(h.by, h.by)]

\* The strengthening of ReceiptMeansSigned that every step preserves.
ExchangeInv ==
  /\ SignedOK /\ WireOK /\ ProvidersOK
  /\ KeysOK /\ KeysOwned /\ HandmadeOK
  /\ ReceiptMeansSigned

-----------------------------------------------------------------------------
(* Envelopes and signatures.                                               *)

\* A larger set of signatures allows more envelopes.
LEMMA EnvelopesMonotone ==
  ASSUME NEW S, NEW T, S \subseteq T
  PROVE  Envelopes(S) \subseteq Envelopes(T)
BY DEF Envelopes, Blocks

\* The emptied form and the signature determine the envelope.
LEMMA SameEnvelope ==
  ASSUME NEW S, NEW e \in Envelopes(S), NEW f \in Envelopes(S),
         ToBeSigned(e) = ToBeSigned(f), e.block.sig = f.block.sig
  PROVE  e = f
<1>1. e.block \in Blocks(S) /\ f.block \in Blocks(S)
  BY DEF Envelopes
<1>2. e.type = f.type /\ e.content = f.content /\ e.shape = f.shape
  BY DEF ToBeSigned, Envelopes
<1>3. [e.block EXCEPT !.sig = Empty] = [f.block EXCEPT !.sig = Empty]
  BY DEF ToBeSigned, Envelopes
<1>4. e.block = f.block
  BY <1>1, <1>3 DEF Blocks
<1> QED
  BY <1>2, <1>4 DEF Envelopes

\* Emptying sig again undoes signing.
LEMMA EmptiedAgain ==
  ASSUME NEW S, NEW b \in Blocks(S), b.sig = Empty, NEW sig,
         NEW c, c = [b EXCEPT !.sig = sig]
  PROVE  [c EXCEPT !.sig = Empty] = b
BY DEF Blocks

\* A draft with its node_id filled in is an envelope of the model, yet to be signed.
LEMMA FilledForm ==
  ASSUME NEW draft \in Envelopes(Unsigned), NEW i \in Nodes,
         HasBlock(draft), draft.block.node \in {Missing, i},
         NEW filled, filled = Filled(draft, i)
  PROVE  /\ filled \in Envelopes(Unsigned)
         /\ filled.block \in Blocks(Unsigned)
         /\ filled.block.node = i
         /\ filled.block.sig = Empty
         /\ HasBlock(filled)
<1>1. draft.block \in Blocks(Unsigned)
  BY DEF Envelopes, HasBlock
<1>2. filled = [draft EXCEPT !.block = [draft.block EXCEPT !.node = i, !.sig = Empty]]
  BY <1>1 DEF Filled, ToBeSigned, Envelopes, Blocks
<1>3. [draft.block EXCEPT !.node = i, !.sig = Empty] \in Blocks(Unsigned)
  BY <1>1 DEF Blocks
<1>4. filled.block = [draft.block EXCEPT !.node = i, !.sig = Empty]
  BY <1>2 DEF Envelopes
<1>5. HasBlock(filled)
  BY <1>1, <1>2, <1>4 DEF HasBlock, Envelopes, Blocks
<1> QED
  BY <1>1, <1>2, <1>3, <1>4, <1>5 DEF Envelopes, Blocks

\* What sign_envelope returns is an envelope of the model with one new signature.
LEMMA SignedTyped ==
  ASSUME NEW draft \in Envelopes(Unsigned), NEW i \in Nodes, NEW k,
         HasBlock(draft), draft.block.node \in {Missing, i},
         NEW result, result = WithSignature(k, WireForm(draft, i))
  PROVE  result \in Envelopes({result.block.sig})
<1> DEFINE filled == Filled(draft, i)
<1> DEFINE covered == WireForm(draft, i)
<1> DEFINE sig == SignatureOver(k, covered)
<1>1. filled \in Envelopes(Unsigned) /\ filled.block \in Blocks(Unsigned)
  BY FilledForm
<1>2. covered \in Envelopes(Unsigned)
  BY <1>1 DEF WireForm, Dumped, ToBeSigned, Envelopes, Blocks
<1>3. result \in Envelopes({sig}) /\ result.block.sig = sig
  BY <1>1, <1>2 DEF WithSignature, Dumped, Envelopes, Blocks
<1> QED
  BY <1>3

\* It names the signer, and its signature is over its emptied form.
LEMMA SignedForm ==
  ASSUME NEW draft \in Envelopes(Unsigned), NEW i \in Nodes, NEW k,
         HasBlock(draft), draft.block.node \in {Missing, i},
         Parsed(Filled(draft, i)) = "parsed",
         NEW result, result = WithSignature(k, WireForm(draft, i))
  PROVE  /\ result.block.node = i
         /\ result.block.sig.over = ToBeSigned(result)
         /\ Parsed(result) = "parsed" /\ HasBlock(result)
<1> DEFINE covered == WireForm(draft, i)
<1> DEFINE sig == SignatureOver(k, covered)
<1> DEFINE filled == Filled(draft, i)
<1>1. /\ filled \in Envelopes(Unsigned)
      /\ filled.block \in Blocks(Unsigned)
      /\ filled.block.node = i
      /\ filled.block.sig = Empty
  BY FilledForm
<1>2. covered \in Envelopes(Unsigned) /\ covered.block = filled.block
  BY <1>1 DEF WireForm, Dumped, ToBeSigned, Envelopes, Blocks
<1>3. /\ result \in Envelopes({sig})
      /\ result.block = [filled.block EXCEPT !.sig = sig]
      /\ result.block.sig = sig
  BY <1>1, <1>2 DEF WithSignature, Dumped, Envelopes, Blocks
<1>4. ToBeSigned(result) = covered
  <2>1. covered.shape # "sparse"
    BY <1>1 DEF WireForm, Dumped, ToBeSigned, Envelopes
  <2>2. result = [covered EXCEPT !.block.sig = sig]
    BY <2>1 DEF Dumped, WithSignature
  <2> QED
    <3>1. result.block = [covered.block EXCEPT !.sig = sig]
      BY <1>2, <2>2 DEF Envelopes
    <3>2. [result.block EXCEPT !.sig = Empty] = covered.block
      <4>1. covered.block \in Blocks(Unsigned) /\ covered.block.sig = Empty
        BY <1>1, <1>2
      <4> QED
        BY <3>1, <4>1, EmptiedAgain
    <3>3. ToBeSigned(result) = [covered EXCEPT !.block = [result.block EXCEPT !.sig = Empty]]
      BY <1>2, <2>2 DEF ToBeSigned, Envelopes
    <3> QED
      BY <1>2, <3>2, <3>3 DEF Envelopes
<1>5. Parsed(result) = "parsed" /\ HasBlock(result)
  <2>1. result.type = filled.type /\ result.shape \in {filled.shape, "dumped"}
    BY <1>1 DEF WireForm, WithSignature, Dumped, ToBeSigned, Envelopes
  <2>2. /\ result.block.at = filled.block.at
        /\ result.block.scheme = filled.block.scheme
        /\ result.block.node = filled.block.node
    BY <1>1, <1>3 DEF Blocks
  <2>3. HasBlock(filled)
    BY FilledForm
  <2> QED
    BY <2>1, <2>2, <2>3 DEF Parsed, HasBlock, BlockKey
<1> QED
  BY <1>1, <1>3, <1>4, <1>5 DEF SignatureOver, Blocks

-----------------------------------------------------------------------------
(* One fact per kind of step.                                              *)

\* The history of signed envelopes, and the signatures in it, only grow.
LEMMA SignStep ==
  ASSUME SignedOK, NEW n \in Nodes, NEW i \in Nodes, NEW draft \in Drafts,
         SignEnvelope(n, i, draft)
  PROVE  SignedOK' /\ Signatures \subseteq Signatures'
<1>0. handmade' = handmade
  BY DEF SignEnvelope
<1>1. CASE SignRefusal(n, i, draft) # "signed"
  <2>1. signed' = signed
    BY <1>1 DEF SignEnvelope
  <2> QED
    BY <1>0, <2>1 DEF SignedOK, Signatures
<1>2. CASE SignRefusal(n, i, draft) = "signed"
  <2>1. PICK result : /\ result = WithSignature(seed[n], WireForm(draft, i))
                     /\ signed' = signed \cup {[by |-> n, env |-> result]}
    BY <1>2 DEF SignEnvelope
  <2>2. /\ HasBlock(draft)
        /\ draft.block.node \in {Missing, i}
        /\ Parsed(Filled(draft, i)) = "parsed"
        /\ i = n
    BY <1>2 DEF SignRefusal, Parsed
  <2>3. /\ result \in Envelopes({result.block.sig})
        /\ result.block.node = n
        /\ result.block.sig.over = ToBeSigned(result)
        /\ Parsed(result) = "parsed" /\ HasBlock(result)
    <3>1. draft \in Envelopes(Unsigned)
      BY ExchangeAssumption
    <3>2. result \in Envelopes({result.block.sig})
      BY <2>1, <2>2, <3>1, SignedTyped
    <3>3. /\ result.block.node = i
          /\ result.block.sig.over = ToBeSigned(result)
          /\ Parsed(result) = "parsed" /\ HasBlock(result)
      BY <2>1, <2>2, <3>1, SignedForm
    <3> QED
      BY <2>2, <3>2, <3>3
  <2> DEFINE entry == [by |-> n, env |-> result]
  <2>4. Signatures' = Signatures \cup {result.block.sig}
    <3>1. signed' = signed \cup {entry} /\ entry.env = result
      BY <2>1
    <3> HIDE DEF entry
    <3> QED
      BY <1>0, <3>1 DEF Signatures
  <2>5. /\ Envelopes(Signatures) \subseteq Envelopes(Signatures')
        /\ Envelopes({result.block.sig}) \subseteq Envelopes(Signatures')
    BY <2>4, EnvelopesMonotone
  <2>6. signed' \subseteq [by : Nodes, env : Envelopes(Signatures')]
    <3>1. entry \in [by : Nodes, env : Envelopes(Signatures')]
      BY <2>3, <2>5
    <3>2. signed \subseteq [by : Nodes, env : Envelopes(Signatures')]
      BY <2>5 DEF SignedOK
    <3> QED
      BY <2>1, <3>1, <3>2
  <2>7. \A s \in signed' :
          /\ s.by = s.env.block.node
          /\ s.env.block.sig.over = ToBeSigned(s.env)
          /\ Parsed(s.env) = "parsed" /\ HasBlock(s.env)
    <3>1. /\ entry.by = entry.env.block.node
          /\ entry.env.block.sig.over = ToBeSigned(entry.env)
          /\ Parsed(entry.env) = "parsed" /\ HasBlock(entry.env)
      BY <2>3
    <3> HIDE DEF entry
    <3>2. signed' = signed \cup {entry}
      BY <2>1 DEF entry
    <3> QED
      BY <3>1, <3>2 DEF SignedOK
  <2> QED
    BY <2>4, <2>6, <2>7 DEF SignedOK
<1> QED
  BY <1>1, <1>2

\* sign() takes any dict with canonical bytes.
LEMMA HandStep ==
  ASSUME KeysOK, KeysOwned, HandmadeOK, SignedOK,
         NEW n \in Nodes, NEW i \in Nodes, NEW draft \in Drafts, SignByHand(n, i, draft)
  PROVE  HandmadeOK' /\ SignedOK' /\ Signatures \subseteq Signatures'
<1>1. UNCHANGED <<signed, introduced>>
  BY DEF SignByHand, keys
<1>2. CASE HandRefusal(n, i, draft) # "signed"
  <2>1. handmade' = handmade
    BY <1>2 DEF SignByHand
  <2> QED
    BY <1>1, <2>1 DEF HandmadeOK, SignedOK, Signatures
<1>3. CASE HandRefusal(n, i, draft) = "signed"
  <2> DEFINE entry == [by |-> n, sig |-> SignatureOver(seed[n], draft)]
  <2>1. handmade' = handmade \cup {entry} /\ seed[n] # NoKey
    BY <1>3 DEF SignByHand, HandRefusal
  <2>2. seed[n] \in Keys /\ seed[n] \in introduced[Store(n, n)]
    BY <2>1 DEF KeysOK, KeysOwned
  <2>3. /\ entry \in [by : Nodes, sig : [key : Keys, over : Drafts]]
        /\ entry.sig.key \in introduced[Store(entry.by, entry.by)]
    BY <2>2 DEF SignatureOver
  <2> HIDE DEF entry
  <2>4. HandmadeOK'
    BY <1>1, <2>1, <2>3 DEF HandmadeOK
  <2>5. Signatures \subseteq Signatures'
    BY <1>1, <2>1 DEF Signatures
  <2>6. SignedOK'
    BY <1>1, <2>5, EnvelopesMonotone DEF SignedOK
  <2> QED
    BY <2>4, <2>5, <2>6
<1> QED
  BY <1>2, <1>3

\* A signature that sign() made, under a key that some keystore trusts for an
\* identity, is of that identity.
LEMMA HandmadeByOwner ==
  ASSUME KeysOK, KeysOwned, HandmadeOK, NEW n \in Nodes, NEW i \in Nodes,
         NEW h \in handmade, h.sig.key \in trusted[Store(n, i)]
  PROVE  h = [by |-> i, sig |-> h.sig]
<1>1. Store(n, i) \in Nodes \X Nodes
  BY DEF Store
<1>2. h.sig.key \in introduced[Store(i, i)]
  BY <1>1 DEF KeysOK, KeysOwned
<1>3. h.by \in Nodes /\ h.sig.key \in introduced[Store(h.by, h.by)]
  BY DEF HandmadeOK
<1>4. h.by = i
  BY <1>2, <1>3 DEF KeysOwned
<1> QED
  BY <1>4 DEF HandmadeOK

\* What verify_envelope answers with a receipt.
LEMMA VerifyStep ==
  ASSUME ExchangeInv, NEW n \in Nodes, NEW allow \in BOOLEAN, VerifyEnvelope(n, allow)
  PROVE  ReceiptMeansSigned'
<1> USE DEF ExchangeInv
<1>1. /\ UNCHANGED <<wire, signed, handmade, trusted, providers>>
      /\ answer' = [call |-> "verify", at |-> n, says |-> VerifyOutcome(n, wire, allow)]
      /\ wire # NoEnvelope
  BY DEF VerifyEnvelope, Answer, keys, signings
<1>2. SUFFICES ASSUME VerifyOutcome(n, wire, allow) = "Receipt"
               PROVE  /\ \/ [by |-> wire.block.node, env |-> wire] \in signed
                         \/ SignedByHand(wire.block.node, wire.block.sig, ToBeSigned(wire))
                      /\ wire.block.scheme = "brine"
                      /\ wire.block.sig.key \in trusted[Store(n, wire.block.node)]
  BY <1>1 DEF ReceiptMeansSigned, Verified, SignedByHand
<1>3. /\ Material(wire) /\ wire.block.node # Missing
      /\ Dispatched(n, wire.block.scheme, wire.block.node, wire.block.sig,
                    ToBeSigned(wire)) = "Receipt"
  BY <1>2 DEF VerifyOutcome
<1>4. /\ wire.block.scheme \in providers[n]
      /\ wire.block.sig.key \in trusted[Store(n, wire.block.node)]
      /\ wire.block.sig.over = ToBeSigned(wire)
  BY <1>3 DEF Dispatched, BrineVerifies
<1>5. wire.block.scheme = "brine"
  BY <1>4 DEF ProvidersOK
<1>6. /\ wire \in Envelopes(Signatures \cup Unsigned) /\ wire.block.sig \in Signatures
      /\ wire.block.node \in Nodes
  BY <1>1, <1>3 DEF WireOK, Material, Envelopes, Blocks
<1>7. ASSUME NEW s \in signed, s.env.block.sig = wire.block.sig
      PROVE  [by |-> wire.block.node, env |-> wire] \in signed
  <2>1. s.env \in Envelopes(Signatures \cup Unsigned)
    BY EnvelopesMonotone DEF SignedOK
  <2>2. s.env = wire
    BY <1>4, <1>6, <1>7, <2>1, SameEnvelope DEF SignedOK
  <2>3. s = [by |-> wire.block.node, env |-> wire]
    BY <2>2 DEF SignedOK
  <2> QED
    BY <2>3
<1>8. ASSUME NEW h \in handmade, h.sig = wire.block.sig
      PROVE  SignedByHand(wire.block.node, wire.block.sig, ToBeSigned(wire))
  BY <1>4, <1>6, <1>8, HandmadeByOwner DEF SignedByHand
<1> QED
  BY <1>4, <1>5, <1>6, <1>7, <1>8 DEF Signatures

\* What Verifier.verify answers when it is called with any Signature object.
LEMMA DirectReceipt ==
  ASSUME ExchangeInv, NEW n \in Nodes, NEW i \in Nodes, NEW env,
         NEW scheme \in KeySchemes, NEW sig \in Signatures,
         Dispatched(n, scheme, i, sig, env) = "Receipt"
  PROVE  /\ Signed(i, sig, env)
         /\ DeclaredScheme(env) = scheme
         /\ DeclaredNode(env) \in {Missing, i}
<1> USE DEF ExchangeInv
<1>1. /\ DeclaredScheme(env) = scheme
      /\ DeclaredNode(env) \in {Missing, i}
      /\ sig.over = env /\ sig.key \in trusted[Store(n, i)]
  BY DEF Dispatched, BrineVerifies
<1>2. ASSUME NEW s \in signed, s.env.block.sig = sig PROVE s.by = i
  <2>1. /\ env = ToBeSigned(s.env) /\ s.env \in Envelopes(Signatures)
        /\ HasBlock(s.env) /\ Parsed(s.env) = "parsed" /\ s.by = s.env.block.node
    BY <1>1, <1>2 DEF SignedOK
  <2>2. /\ env.type = s.env.type /\ env.block.at = s.env.block.at
        /\ env.block.node = s.env.block.node
    BY <2>1 DEF ToBeSigned, Envelopes, Blocks
  <2>3. DeclaredNode(env) = s.env.block.node
    BY <2>1, <2>2 DEF DeclaredNode, HasBlock
  <2>4. s.env.block.at # "none"
    BY <2>1 DEF HasBlock, BlockKey, Envelopes, Blocks, Places
  <2>5. s.env.block.node # Missing
    BY <2>1, <2>4 DEF Parsed
  <2> QED
    BY <1>1, <2>1, <2>3, <2>5
<1>3. ASSUME NEW s \in signed, s.env.block.sig = sig PROVE Signed(i, sig, env)
  BY <1>1, <1>2, <1>3 DEF SignedOK, Signed
<1>4. ASSUME NEW h \in handmade, h.sig = sig PROVE Signed(i, sig, env)
  BY <1>1, <1>4, HandmadeByOwner DEF Signed, SignedByHand
<1> QED
  BY <1>1, <1>3, <1>4 DEF Signatures

\* Whatever happens on the way, a signature that travels was made by somebody.
LEMMA TravelStep ==
  ASSUME SignedOK, HandmadeOK, WireOK, Travel
  PROVE  WireOK' /\ UNCHANGED <<signings, keys, providers>> /\ answer' = NoAnswer
<1>1. UNCHANGED <<signings, keys, providers>> /\ answer' = NoAnswer
  BY DEF Travel, Send, Redump, Change
<1>2. Signatures' = Signatures
  BY <1>1 DEF Signatures, signings
<1>3. SUFFICES wire' \in Envelopes(Signatures \cup Unsigned)
  BY <1>1, <1>2 DEF WireOK
<1>4. CASE \E s \in signed : Send(s.env)
  BY <1>4, EnvelopesMonotone DEF Send, SignedOK
<1>5. CASE \E draft \in Drafts : Send(draft)
  BY <1>5, EnvelopesMonotone, ExchangeAssumption DEF Send
<1>6. CASE Redump
  BY <1>6 DEF Redump, WireOK, Dumped, Envelopes
<1>7. CASE Change
  <2>1. wire \in Envelopes(Signatures \cup Unsigned) /\ wire' \in Variants(wire)
    BY <1>7 DEF Change, WireOK
  <2> QED
    <3> DEFINE E == Envelopes(Signatures \cup Unsigned)
    <3>1. \/ \E t \in DispatchTypes \cup ReceiptTypes : wire' = [wire EXCEPT !.type = t]
          \/ \E c \in Contents : wire' = [wire EXCEPT !.content = c]
          \/ \E h \in {"dumped", "sparse", "version"} : wire' = [wire EXCEPT !.shape = h]
          \/ \E i \in Nodes : wire' = [wire EXCEPT !.block.node = i]
          \/ \E k \in KeySchemes : wire' = [wire EXCEPT !.block.scheme = k]
          \/ \E s \in Signatures \cup Unsigned : wire' = [wire EXCEPT !.block.sig = s]
      BY <2>1 DEF Variants
    <3> QED
      BY <2>1, <3>1 DEF Envelopes, Blocks, Types
<1>8. ASSUME NEW h \in handmade, Send(Assembled(h.sig))
      PROVE  wire' \in Envelopes(Signatures \cup Unsigned)
  <2>1. wire' = Assembled(h.sig) /\ h.sig \in Signatures
    BY <1>8 DEF Send, Signatures
  <2>2. h.sig.over \in Envelopes(Unsigned)
    BY ExchangeAssumption DEF HandmadeOK
  <2>3. \/ wire' = h.sig.over
        \/ wire' = [h.sig.over EXCEPT !.block.sig = h.sig]
    BY <2>1 DEF Assembled
  <2> QED
    BY <2>1, <2>2, <2>3, EnvelopesMonotone DEF Envelopes, Blocks
<1> QED
  BY <1>4, <1>5, <1>6, <1>7, <1>8 DEF Travel

-----------------------------------------------------------------------------
\* Keys: generated, withdrawn, and learnt from their owners.
LEMMA KeysStep ==
  ASSUME KeysOK, KeysOwned, NEW n \in Nodes, KeyStep(n)
  PROVE  /\ KeysOK' /\ KeysOwned'
         /\ \A m \in Nodes : introduced[Store(m, m)] \subseteq introduced'[Store(m, m)]
<1> USE DEF Store
<1>1. ASSUME NEW k \in Keys, NewSeed(n, k)
      PROVE  /\ KeysOK' /\ KeysOwned'
             /\ \A m \in Nodes : introduced[Store(m, m)] \subseteq introduced'[Store(m, m)]
  <2>1. KeysOK'
    BY <1>1 DEF NewSeed, KeysOK
  <2>2. \A m, i \in Nodes :
          introduced'[Store(m, i)] = IF m = n /\ i = n THEN introduced[Store(m, i)] \cup {k}
                                     ELSE introduced[Store(m, i)]
    BY <1>1 DEF NewSeed, KeysOK
  <2>3. \A m \in Nodes : k \notin introduced[Store(m, m)]
    BY <1>1 DEF NewSeed
  <2>4. \A m \in Nodes : seed'[m] = IF m = n THEN k ELSE seed[m]
    BY <1>1 DEF NewSeed, KeysOK
  <2>5. \A m \in Nodes :
          introduced'[Store(m, m)] = IF m = n THEN introduced[Store(m, m)] \cup {k}
                                     ELSE introduced[Store(m, m)]
    BY <2>2
  <2>6. \A m \in Nodes : introduced[Store(m, m)] \subseteq introduced'[Store(m, m)]
    BY <2>5
  <2> HIDE DEF Store
  <2>7. \A m \in Nodes : seed'[m] \in introduced'[Store(m, m)] \cup {NoKey}
    BY <2>4, <2>5 DEF KeysOwned
  <2>8. ASSUME NEW m \in Nodes, NEW i \in Nodes
        PROVE  introduced'[Store(m, i)] \subseteq introduced'[Store(i, i)]
    <3>1. introduced[Store(m, i)] \subseteq introduced[Store(i, i)]
      BY DEF KeysOwned
    <3> QED
      BY <3>1, <2>2, <2>5
  <2>9. ASSUME NEW m \in Nodes, NEW i \in Nodes, m # i
        PROVE  introduced'[Store(m, m)] \cap introduced'[Store(i, i)] = {}
    <3>1. introduced[Store(m, m)] \cap introduced[Store(i, i)] = {}
      BY <2>9 DEF KeysOwned
    <3> QED
      BY <3>1, <2>3, <2>5, <2>9
  <2>10. KeysOwned'
    BY <2>7, <2>8, <2>9 DEF KeysOwned
  <2> QED
    BY <2>1, <2>6, <2>10
<1>2. ASSUME NEW k \in Keys, WithdrawKey(n, k)
      PROVE  KeysOK' /\ KeysOwned' /\ UNCHANGED introduced
  BY <1>2 DEF WithdrawKey, KeysOK, KeysOwned
<1>3. ASSUME NEW i \in Nodes, Learn(n, i)
      PROVE  /\ KeysOK' /\ KeysOwned'
             /\ \A m \in Nodes : introduced[Store(m, m)] \subseteq introduced'[Store(m, m)]
  <2>1. seed[i] \in Keys /\ seed[i] \in introduced[Store(i, i)] /\ n # i /\ seed' = seed
    BY <1>3 DEF Learn, KeysOK, KeysOwned
  <2>2. KeysOK'
    BY <1>3, <2>1 DEF Learn, RegisterKey, KeysOK
  <2>3. \A m, j \in Nodes :
          introduced'[Store(m, j)] = IF m = n /\ j = i
                                     THEN introduced[Store(m, j)] \cup {seed[i]}
                                     ELSE introduced[Store(m, j)]
    BY <1>3 DEF Learn, RegisterKey, KeysOK
  <2>4. \A m \in Nodes : introduced'[Store(m, m)] = introduced[Store(m, m)]
    BY <2>1, <2>3
  <2> HIDE DEF Store
  <2>5. ASSUME NEW m \in Nodes, NEW j \in Nodes
        PROVE  introduced'[Store(m, j)] \subseteq introduced'[Store(j, j)]
    <3>1. introduced[Store(m, j)] \subseteq introduced[Store(j, j)]
      BY DEF KeysOwned
    <3> QED
      BY <3>1, <2>1, <2>3, <2>4
  <2>6. KeysOwned'
    BY <2>1, <2>4, <2>5 DEF KeysOwned
  <2> QED
    BY <2>2, <2>4, <2>6
<1> QED
  BY <1>1, <1>2, <1>3 DEF KeyStep

LEMMA InvInit == Init => ExchangeInv
<1> SUFFICES ASSUME Init PROVE ExchangeInv
  OBVIOUS
<1>1. SignedOK /\ WireOK /\ ProvidersOK /\ ReceiptMeansSigned
  BY DEF Init, SignedOK, WireOK, ProvidersOK, ReceiptMeansSigned, Verified, NoAnswer
<1>2. KeysOK /\ KeysOwned /\ HandmadeOK
  BY DEF Init, KeysOK, KeysOwned, HandmadeOK, Store
<1> QED
  BY <1>1, <1>2 DEF ExchangeInv

LEMMA InvStep ==
  ASSUME ExchangeInv, [Next]_exchange
  PROVE  ExchangeInv'
<1> USE DEF ExchangeInv
<1>1. CASE UNCHANGED exchange
  <2>1. UNCHANGED <<introduced, trusted, seed, providers, signed, handmade, wire, answer>>
    BY <1>1 DEF exchange, keys, signings
  <2> QED
    BY <2>1 DEF SignedOK, WireOK, ProvidersOK, KeysOK, KeysOwned, HandmadeOK,
      ReceiptMeansSigned, Verified, SignedByHand, Signatures
<1>2. CASE Travel
  <2>1. WireOK' /\ UNCHANGED <<signings, keys, providers>> /\ answer' = NoAnswer
    BY <1>2, TravelStep
  <2>2. UNCHANGED <<introduced, trusted, seed, signed, handmade>>
    BY <2>1 DEF signings, keys
  <2> QED
    BY <2>1, <2>2 DEF SignedOK, ProvidersOK, KeysOK, KeysOwned, HandmadeOK,
      ReceiptMeansSigned, Verified, NoAnswer, Signatures
<1>3. ASSUME NEW n \in Nodes, KeyStep(n) PROVE ExchangeInv'
  <2>1. UNCHANGED <<signed, handmade, providers, wire>> /\ answer' = NoAnswer
    BY <1>3 DEF KeyStep, NewSeed, WithdrawKey, Learn, signings
  <2>2. /\ KeysOK' /\ KeysOwned'
        /\ \A m \in Nodes : introduced[Store(m, m)] \subseteq introduced'[Store(m, m)]
    BY <1>3, KeysStep
  <2>3. HandmadeOK'
    BY <2>1, <2>2 DEF HandmadeOK
  <2> QED
    BY <2>1, <2>2, <2>3 DEF SignedOK, WireOK, ProvidersOK, ReceiptMeansSigned, Verified,
      NoAnswer, Signatures
<1>4. ASSUME NEW n \in Nodes, Register(n) PROVE ExchangeInv'
  <2>1. UNCHANGED <<signed, handmade, introduced, trusted, seed, wire>> /\ answer' = NoAnswer
    BY <1>4 DEF Register, signings, keys
  <2>2. ProvidersOK'
    BY <1>4 DEF Register, ProvidersOK
  <2> QED
    BY <2>1, <2>2 DEF SignedOK, WireOK, KeysOK, KeysOwned, HandmadeOK,
      ReceiptMeansSigned, Verified, NoAnswer, Signatures
<1>5. ASSUME NEW n \in Nodes, NEW i \in Nodes, NEW draft \in Drafts,
             SignEnvelope(n, i, draft) \/ SignByHand(n, i, draft)
      PROVE  ExchangeInv'
  <2>1. /\ UNCHANGED <<introduced, trusted, seed, wire, providers>>
        /\ answer'.call = "sign"
    BY <1>5 DEF SignEnvelope, SignByHand, Answer, keys
  <2>2. SignedOK' /\ HandmadeOK' /\ Signatures \subseteq Signatures'
    <3>1. CASE SignEnvelope(n, i, draft)
      <4>1. handmade' = handmade
        BY <3>1 DEF SignEnvelope
      <4> QED
        BY <2>1, <3>1, <4>1, SignStep DEF HandmadeOK
    <3>2. CASE SignByHand(n, i, draft)
      BY <3>2, HandStep
    <3> QED
      BY <1>5, <3>1, <3>2
  <2>3. WireOK'
    BY <2>1, <2>2, EnvelopesMonotone DEF WireOK
  <2> QED
    BY <2>1, <2>2, <2>3 DEF ProvidersOK, KeysOK, KeysOwned, ReceiptMeansSigned, Verified
<1>6. ASSUME NEW n \in Nodes, NEW allow \in BOOLEAN, VerifyEnvelope(n, allow)
      PROVE  ExchangeInv'
  <2>1. ReceiptMeansSigned'
    BY <1>6, VerifyStep
  <2>2. UNCHANGED <<wire, signed, handmade, introduced, trusted, seed, providers>>
    BY <1>6 DEF VerifyEnvelope, signings, keys
  <2> QED
    BY <2>1, <2>2 DEF SignedOK, WireOK, ProvidersOK, KeysOK, KeysOwned, HandmadeOK, Signatures
<1> QED
  BY <1>1, <1>2, <1>3, <1>4, <1>5, <1>6 DEF Next, LibraryCall

\* A receipt means that the node the envelope names got exactly this object from
\* sign_envelope, or itself had sign() cover these very bytes, under a key the
\* verifying keystore trusts, whatever happened to the envelope on its way and to
\* the keys of both sides (verify_envelope).
THEOREM ReceiptProvesSignature == Spec => []ReceiptMeansSigned
<1>1. Spec => []ExchangeInv
  BY InvInit, InvStep, PTL DEF Spec
<1>2. ExchangeInv => ReceiptMeansSigned
  BY DEF ExchangeInv
<1> QED
  BY <1>1, <1>2, PTL

\* A receipt from Verifier.verify itself means that the identity it is made out to
\* signed these bytes, in either way, whatever scheme, signer and material the
\* caller put into the Signature, also for an envelope that declares no node; and
\* scheme and node are the declared ones (Verifier, T-03-06, IDENT-03).
THEOREM DirectReceiptProvesSignature == Spec => []DirectReceiptMeansSigned
<1>1. Spec => []ExchangeInv
  BY InvInit, InvStep, PTL DEF Spec
<1>2. ExchangeInv => DirectReceiptMeansSigned
  BY DirectReceipt DEF DirectReceiptMeansSigned
<1> QED
  BY <1>1, <1>2, PTL

\* An envelope that would not parse gets a receipt only where the node it names
\* had sign() cover it: nothing that happens on the way brings one about
\* (verify_envelope, which never parses).
THEOREM UnparsedProvesHandmade == Spec => []UnparsedMeansHandmade
<1>1. Spec => []ExchangeInv
  BY InvInit, InvStep, PTL DEF Spec
<1>2. ExchangeInv => UnparsedMeansHandmade
  BY DEF ExchangeInv, ReceiptMeansSigned, UnparsedMeansHandmade, SignedOK
<1> QED
  BY <1>1, <1>2, PTL

-----------------------------------------------------------------------------
(* What sign_envelope returned gets its receipt.                           *)

SignedReady ==
  \A s \in signed : s.env.content \notin Uncanonical /\ s.env.block.sig \notin Unsigned

CallOK == changes \in 0 .. MaxChanges /\ answer.call \in {"none", "sign", "verify"}

DeliveryInv == ExchangeInv /\ SignedReady /\ CallOK /\ SignedVerifies

\* An envelope is signed only if it has canonical bytes.
LEMMA ReadyStep ==
  ASSUME KeysOK, SignedReady, NEW n \in Nodes, NEW i \in Nodes, NEW draft \in Drafts,
         SignEnvelope(n, i, draft)
  PROVE  SignedReady'
<1>1. CASE SignRefusal(n, i, draft) # "signed"
  BY <1>1 DEF SignEnvelope, SignedReady
<1>2. CASE SignRefusal(n, i, draft) = "signed"
  <2> DEFINE result == WithSignature(seed[n], WireForm(draft, i))
  <2>1. signed' = signed \cup {[by |-> n, env |-> result]}
    BY <1>2 DEF SignEnvelope
  <2>2. /\ seed[n] # NoKey /\ draft.content \notin Uncanonical
        /\ HasBlock(draft) /\ draft.block.node \in {Missing, i}
    BY <1>2 DEF SignRefusal, Parsed
  <2>3. seed[n] \in Keys /\ draft \in Envelopes(Unsigned)
    BY <2>2, ExchangeAssumption DEF KeysOK
  <2>4. result.block.sig = SignatureOver(seed[n], WireForm(draft, i))
    <3> DEFINE covered == WireForm(draft, i)
    <3>1. Filled(draft, i) \in Envelopes(Unsigned)
      BY <2>2, <2>3, FilledForm
    <3>2. covered \in Envelopes(Unsigned)
      BY <3>1 DEF WireForm, Dumped, ToBeSigned, Envelopes, Blocks
    <3> HIDE DEF covered
    <3>3. [Dumped(covered) EXCEPT !.block.sig = SignatureOver(seed[n], covered)].block.sig
            = SignatureOver(seed[n], covered)
      BY <3>2 DEF Dumped, Envelopes, Blocks
    <3> QED
      BY <3>3 DEF WithSignature, covered
  <2>5. result.content = draft.content
    BY <2>2, <2>3 DEF WithSignature, WireForm, Filled, Dumped, ToBeSigned, Envelopes
  <2>6. result.block.sig \notin Unsigned
    BY <2>3, <2>4, SignatureAssumption
  <2>7. result.content \notin Uncanonical
    BY <2>2, <2>5
  <2> HIDE DEF result
  <2> QED
    BY <2>1, <2>6, <2>7 DEF SignedReady
<1> QED
  BY <1>1, <1>2

LEMMA DeliveryStep ==
  ASSUME ExchangeInv, SignedReady, NEW n \in Nodes, NEW allow \in BOOLEAN,
         VerifyEnvelope(n, allow)
  PROVE  SignedVerifies'
<1>1. /\ UNCHANGED <<wire, signed, trusted, providers>>
      /\ answer' = [call |-> "verify", at |-> n, says |-> VerifyOutcome(n, wire, allow)]
  BY DEF VerifyEnvelope, Answer, keys, signings
<1>2. SUFFICES ASSUME NEW s \in signed, wire = s.env,
                      wire.block.scheme \in providers[n],
                      wire.block.sig.key \in trusted[Store(n, s.by)]
               PROVE  VerifyOutcome(n, wire, allow) = "Receipt"
  BY <1>1 DEF SignedVerifies
<1>3. /\ HasBlock(wire) /\ Parsed(wire) = "parsed"
      /\ s.by = wire.block.node /\ s.by \in Nodes
      /\ wire.block.sig.over = ToBeSigned(wire)
      /\ wire \in Envelopes(Signatures)
  BY <1>2 DEF ExchangeInv, SignedOK
<1>4. wire.content \notin Uncanonical /\ Material(wire)
  BY <1>2 DEF SignedReady, Material
<1>5. wire.block.scheme = "brine"
  BY <1>2 DEF ExchangeInv, ProvidersOK
<1>6. wire.block.at \in Places \ {"none"} /\ wire.type \in DispatchTypes \cup ReceiptTypes
  BY <1>3 DEF HasBlock, BlockKey, Envelopes, Blocks, Places
<1>7. wire.block.node # Missing
  BY <1>3, <1>6 DEF Parsed, Places
<1> DEFINE bytes == ToBeSigned(wire)
<1>8. /\ bytes.type = wire.type /\ bytes.content = wire.content
      /\ bytes.block.at = wire.block.at
      /\ bytes.block.scheme = wire.block.scheme /\ bytes.block.node = wire.block.node
  BY <1>3 DEF ToBeSigned, Envelopes, Blocks
<1>9. HasBlock(bytes)
  BY <1>3, <1>8 DEF HasBlock
<1>10. introduced[Store(n, s.by)] # {}
  <2>1. Store(n, s.by) \in Nodes \X Nodes
    BY <1>3 DEF Store
  <2> QED
    BY <1>2, <2>1 DEF ExchangeInv, KeysOK
<1>11. BrineVerifies(n, wire.block.node, wire.block.sig, bytes) = "Receipt"
  BY <1>2, <1>3, <1>4, <1>8, <1>10 DEF BrineVerifies
<1>12. DeclaredNode(bytes) = wire.block.node
  BY <1>8, <1>9 DEF DeclaredNode
<1>13. Missing # "brine"
  BY ExchangeAssumption
<1>14. DeclaredScheme(bytes) = wire.block.scheme
  BY <1>5, <1>6, <1>8, <1>9, <1>13 DEF DeclaredScheme
<1>15. Dispatched(n, wire.block.scheme, wire.block.node, wire.block.sig, bytes) = "Receipt"
  BY <1>2, <1>11, <1>12, <1>14 DEF Dispatched
<1>16. BlockKey(wire.type) # "unsupported"
  BY <1>6 DEF BlockKey
<1> HIDE DEF bytes
<1> QED
  BY <1>3, <1>4, <1>5, <1>7, <1>13, <1>15, <1>16 DEF VerifyOutcome, bytes

LEMMA DeliveryInitially == Init => DeliveryInv
<1> SUFFICES ASSUME Init PROVE DeliveryInv
  OBVIOUS
<1>1. ExchangeInv
  BY InvInit
<1>2. SignedReady /\ CallOK /\ SignedVerifies
  BY ExchangeAssumption DEF Init, SignedReady, CallOK, SignedVerifies, NoAnswer
<1> QED
  BY <1>1, <1>2 DEF DeliveryInv

LEMMA DeliveryNext ==
  ASSUME DeliveryInv, [Next]_exchange
  PROVE  DeliveryInv'
<1>0. ExchangeInv'
  BY InvStep DEF DeliveryInv
<1> SUFFICES (SignedReady /\ CallOK /\ SignedVerifies)'
  BY <1>0 DEF DeliveryInv
<1> USE DEF DeliveryInv
<1>1. CASE UNCHANGED exchange
  BY <1>1 DEF exchange, keys, signings, SignedReady, CallOK, SignedVerifies
<1>2. CASE Travel
  <2>1. UNCHANGED signed /\ answer' = NoAnswer
    BY <1>2 DEF Travel, Send, Redump, Change, signings
  <2>2. changes' \in 0 .. MaxChanges
    BY <1>2, ExchangeAssumption DEF Travel, Send, Redump, Change, CallOK
  <2> QED
    BY <2>1, <2>2 DEF SignedReady, CallOK, SignedVerifies, NoAnswer
<1>3. ASSUME NEW n \in Nodes, KeyStep(n) \/ Register(n)
      PROVE  (SignedReady /\ CallOK /\ SignedVerifies)'
  <2>1. UNCHANGED <<signed, changes>> /\ answer' = NoAnswer
    BY <1>3 DEF KeyStep, NewSeed, WithdrawKey, Learn, Register, signings
  <2> QED
    BY <2>1 DEF SignedReady, CallOK, SignedVerifies, NoAnswer
<1>4. ASSUME NEW n \in Nodes, NEW i \in Nodes, NEW draft \in Drafts,
             SignEnvelope(n, i, draft)
      PROVE  (SignedReady /\ CallOK /\ SignedVerifies)'
  <2>1. SignedReady'
    BY <1>4, ReadyStep DEF ExchangeInv
  <2>2. changes' = changes /\ answer'.call = "sign"
    BY <1>4 DEF SignEnvelope, Answer
  <2> QED
    BY <2>1, <2>2 DEF CallOK, SignedVerifies
<1>5. ASSUME NEW n \in Nodes, NEW i \in Nodes, NEW draft \in Drafts,
             SignByHand(n, i, draft)
      PROVE  (SignedReady /\ CallOK /\ SignedVerifies)'
  BY <1>5 DEF SignByHand, Answer, SignedReady, CallOK, SignedVerifies
<1>6. ASSUME NEW n \in Nodes, NEW allow \in BOOLEAN, VerifyEnvelope(n, allow)
      PROVE  (SignedReady /\ CallOK /\ SignedVerifies)'
  <2>1. SignedVerifies'
    BY <1>6, DeliveryStep
  <2>2. UNCHANGED <<signed, changes>> /\ answer'.call = "verify"
    BY <1>6 DEF VerifyEnvelope, Answer, signings
  <2> QED
    BY <2>1, <2>2 DEF SignedReady, CallOK
<1> QED
  BY <1>1, <1>2, <1>3, <1>4, <1>5, <1>6 DEF Next, LibraryCall

\* What sign_envelope returned gets its receipt at every node that trusts the key,
\* after any number of dumps and rotations (signing.py, SP-3.3-01, SP-3.3-02).
THEOREM SignedEnvelopesVerify == Spec => []SignedVerifies
<1>1. Spec => []DeliveryInv
  BY DeliveryInitially, DeliveryNext, PTL DEF Spec
<1>2. DeliveryInv => SignedVerifies
  BY DEF DeliveryInv
<1> QED
  BY <1>1, <1>2, PTL

\* The keystores, the envelope under way and the signatures made keep their types
\* through sign_envelope, verify_envelope and every change on the way.
THEOREM ExchangeTyped == Spec => []TypeOK
<1>1. Spec => []DeliveryInv
  BY DeliveryInitially, DeliveryNext, PTL DEF Spec
<1>2. DeliveryInv => TypeOK
  BY DEF DeliveryInv, ExchangeInv, SignedOK, WireOK, ProvidersOK, KeysOK, HandmadeOK,
    CallOK, TypeOK
<1> QED
  BY <1>1, <1>2, PTL
=============================================================================
