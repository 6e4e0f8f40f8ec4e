CONSTANTS
  p1 = p1
  p2 = p2
  d1 = d1
  d2 = d2
  s1 = s1
  s2 = s2
  Torn = Torn
  Pages <- MCPages
  Data <- MCData
  Salts <- MCSalts
  Threshold = 2
  MaxFrames = 3
  EmptyLogCrashes = TRUE
  AppendErrors = FALSE
  RecoveryErrors = FALSE
SPECIFICATION Spec
INVARIANT Durable
