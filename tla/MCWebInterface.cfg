CONSTANTS
  Req = {r1, r2}
  Obj = {o1, o2}
  Hnd = {h1, h2}
  NoObj = NoObj
  NoHnd = NoHnd
  NoReq = NoReq
SPECIFICATION Safety
SYMMETRY Symmetry
INVARIANTS TypeOK IsolatedRequestsWork SearchesExclusive NoHandleLeak
