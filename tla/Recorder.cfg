SPECIFICATION FairSpec
CONSTANTS
  Exchange = {e1}
  Collector = {k1}
  Status = {s200}
  Type = {t1}
  ssn = ssn
  token = token
  Field <- MCField
  Token <- MCToken
  Payload <- MCPayload
  Config <- MCConfig
  None = None
  MaxConfigures = 2
  MaxDeclares = 1
INVARIANTS
  TypeOK
  NoLeak
  NoFalseAlarm
  WarnedBeforeVisible
  RecorderInv
  CollectIsComplete
PROPERTY
  LocksAreReleased
