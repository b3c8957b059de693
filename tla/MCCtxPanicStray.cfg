SPECIFICATION Spec
CONSTANTS
  c1 = c1
  c2 = c2
  c3 = c3
  k1 = k1
  k2 = k2
  bg = bg
  req = req
  Call <- MCCall
  Conn <- MCConn
  Ctx <- MCCtx
  On <- MCOn
  CtxOf <- MCCtxOf
  Cancelable <- MCCancelable
  Panicking <- Misusing
  MaxDepth = 2
  MaxWork = 2
INVARIANTS
  NoStrayInterrupt
