CONSTANTS
  Slot = {c1, c2}
  Handle = {h1, h2, h3}
  NoSock = NoSock
  NoSlot = NoSlot
SPECIFICATION Spec
INVARIANTS TypeOK NoOrphans ClientSocketsIntact ListenerReleased DanglingOnlyByRace PortKnownWhileServing
PROPERTY CallsReturn
