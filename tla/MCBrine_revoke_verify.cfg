SPECIFICATION Spec
CONSTANTS
  minter = minter
  revoker = revoker
  reader = reader
  own = own
  peer = peer
  alice = alice
  bob = bob
  k1 = k1
  k2 = k2
  k3 = k3
  e1 = e1
  e2 = e2
  e3 = e3
  Procs = {minter, revoker, reader}
  Slots = {own}
  Keys = {k1, k2, k3}
  Envelopes = {e1}
  Unserializable = {}
  MaxVersion = 2
  IdentityOf <- MCIdentityOf
  NodeIdOf <- MCNodeIdOf
  Calls <- RevokingCalls
  NoKey = NoKey
  NoIdentity = NoIdentity
  NoSlot = NoSlot
  NoRequest = NoRequest
  NoResult = NoResult
SYMMETRY KeySymmetry
INVARIANTS
  SteadyKeyVerifies
