CONSTANTS
  BufSize = 12
  MaxText = 26
  MaxParts = 2
  FieldLengths = {0, 1, 3, 6}
  Forms <- MCForms
SPECIFICATION Spec
INVARIANTS TypeOK StoredAsSent
PROPERTY EndsOnceReceived
