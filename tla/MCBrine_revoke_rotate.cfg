SPECIFICATION Spec
CONSTANTS
  minter = minter
  revoker = revoker
  reader = reader
  own = own
  peer = peer
  alice = alice
  bob = bob
  k1 = k1
  k2 = k2
  k3 = k3
  e1 = e1
  e2 = e2
  e3 = e3
  Procs = {minter}
  Slots = {own}
  Keys = {k1, k2}
  Envelopes = {e1}
  Unserializable = {}
  MaxVersion = 2
  IdentityOf <- MCIdentityOf
  NodeIdOf <- MCNodeIdOf
  Calls <- RevokeThenRotateCalls
  NoKey = NoKey
  NoIdentity = NoIdentity
  NoSlot = NoSlot
  NoRequest = NoRequest
  NoResult = NoResult
SYMMETRY KeySymmetry
INVARIANTS
  RevocationFollowsKey
