SPECIFICATION Spec
CONSTANTS
  Id = {1, 2, 3}
  None = None
  MaxDepth = 3
  Part = {"shared", "own"}
  ScopeOf <- Scopes
  Overlap <- AllOverlap
  Kind = {"fact"}
  Key = {"k"}
  Content = {"x", "y"}
  Writes <- MCWrites
  Asks <- MCAsks
  Limit = 2
  FilteredCap = 1
  Embeds = TRUE
INVARIANTS
  ChainsSpeakByTheirHeads
  ReceiptExplainsTheRecall
  HealthyLineageSpeaksOnce
  AsOfAgreesWithTimeline
