SPECIFICATION Spec
CONSTANTS
  get = get
  post = post
  s200 = s200
  s404 = s404
  v1 = v1
  v2 = v2
  t1 = t1
  t2 = t2
  bearerAuth = bearerAuth
  apiKeyAuth = apiKeyAuth
  Address = Address
  street = street
  postbox = postbox
  Op <- MCOp
  Status <- MCStatus
  Sample <- MCSample
  Scheme <- MCScheme
  Type <- MCType
  Name <- MCName
  Def <- MCDef
  DefsOf <- MCDefsOf
  None = None
  Input <- MCInput
  MaxExchanges = 3
CHECK_DEADLOCK FALSE
INVARIANT
  WithheldIsNoticed
