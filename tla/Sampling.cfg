SPECIFICATION SampSpec
CONSTANTS
  Json <- MCBodyJson
  Depth <- MCBodyDepth
  Value <- MCBody
  Config <- MCConfig
  HighEntropy <- MCHighEntropy
  MAX_EXAMPLES = 2
  MaxSamples = 3
INVARIANTS
  SamplesValidateUnlessMixed
  OrderAssertsNothing
  
  NullOnEvidenceOrEmpty
  RedactionIsExact
  DeclaredShowsMarker
  WarnedWhereShown
PROPERTY
  UnionAndIntersect
