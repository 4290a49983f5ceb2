CONSTANTS
  Req = {r1, r2}
  Obj = {o1, o2}
  Hnd = {h1}
  NoObj = NoObj
  NoHnd = NoHnd
  NoReq = NoReq
SPECIFICATION Spec
PROPERTY RequestsFinish
