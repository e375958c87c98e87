SPECIFICATION Spec
CONSTANTS
  minter = minter
  revoker = revoker
  reader = reader
  own = own
  peer = peer
  alice = alice
  bob = bob
  k1 = k1
  k2 = k2
  k3 = k3
  e1 = e1
  e2 = e2
  e3 = e3
  Procs = {minter}
  Slots = {own, peer}
  Keys = {k1, k2}
  Envelopes = {e1, e2, e3}
  Unserializable = {e2}
  MaxVersion = 1
  IdentityOf <- MCIdentityOf
  NodeIdOf <- MCNodeIdOf
  Calls <- SequentialCalls
  NoKey = NoKey
  NoIdentity = NoIdentity
  NoSlot = NoSlot
  NoRequest = NoRequest
  NoResult = NoResult
SYMMETRY KeySymmetry
INVARIANTS
  SettledInv
  ReceiptSound
  SteadyKeyVerifies
  PublicKeySound
