SPECIFICATION EmissionSpec
CONSTANTS
  s200 = s200
  s404 = s404
  v1 = v1
  v2 = v2
  t1 = t1
  t2 = t2
  Address = Address
  street = street
  postbox = postbox
  me = me
  another = another
  other = other
  Op <- MCOp
  Status <- MCStatus
  Sample <- MCSample
  Scheme <- MCScheme
  Type <- MCType
  Name <- MCName
  Def <- MCDef
  DefsOf <- MCDefsOf
  None = None
  Input <- MCInput
  MaxExchanges = 3
  RawRequest <- MCRawRequest
  Lowercase <- MCLowercase
  Writer <- MCWriter
  Other = other
  EarlierLength = 3
  Me = me
  Argument <- MCArgument
  OtherLength = {1, 3}
  MaxEmitted = 1
CHECK_DEADLOCK FALSE
INVARIANTS
  CountsAreEvidence
  RequiredIsWarranted
  NoticeIsExact
  DeclarationWins
  ReferencesResolve
  SecurityIsWitnessed
  DocumentIsEvidence
  EmissionInv
  CleanEmissionIsWhole
  DocumentArrives

