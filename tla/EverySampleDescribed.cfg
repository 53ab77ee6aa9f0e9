SPECIFICATION Spec
CONSTANTS
  Json <- MCJson
  Depth <- MCDepth
  Value <- MCValue
  MAX_EXAMPLES = 2
  MaxSamples = 3
CHECK_DEADLOCK FALSE
INVARIANT
  EverySampleDescribed
