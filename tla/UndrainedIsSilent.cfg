SPECIFICATION Spec
CONSTANTS
  Exchange = {e1}
  Collector = {k1}
  Status = {s200}
  Type = {t1}
  ssn = ssn
  token = token
  Field <- MCField
  Token <- MCToken
  Payload <- MCTooLong
  Config <- NoConfig
  None = None
  MaxConfigures = 0
  MaxDeclares = 0
INVARIANT
  UndrainedIsSilent
