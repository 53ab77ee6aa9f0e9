SPECIFICATION Spec
CONSTANTS
  Exchange = {e1, e2}
  Collector = {k1, k2}
  Status = {s200}
  Type = {t1}
  ssn = ssn
  token = token
  Field <- MCField
  Token <- MCToken
  Payload <- MCPlain
  Config <- NoConfig
  None = None
  MaxConfigures = 0
  MaxDeclares = 0
SYMMETRY Symmetry
INVARIANTS
  SnapshotsFormChain
  SnapshotInv
  CollectIsComplete
PROPERTIES
  RecordingOnlyAdds
  ImplementsStore
