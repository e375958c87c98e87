SPECIFICATION FairSpec
CONSTANTS
  minter = minter
  revoker = revoker
  reader = reader
  own = own
  peer = peer
  alice = alice
  bob = bob
  k1 = k1
  k2 = k2
  k3 = k3
  e1 = e1
  e2 = e2
  e3 = e3
  Procs = {minter, revoker, reader}
  Slots = {own, peer}
  Keys = {k1, k2}
  Envelopes = {e1}
  Unserializable = {}
  MaxVersion = 1
  IdentityOf <- MCIdentityOf
  NodeIdOf <- MCNodeIdOf
  Calls <- PeerCalls
  NoKey = NoKey
  NoIdentity = NoIdentity
  NoSlot = NoSlot
  NoRequest = NoRequest
  NoResult = NoResult
INVARIANTS
  SettledInv
  ReceiptSound
  PublicKeySound
PROPERTIES
  CallsReturn
