SPECIFICATION RolloutSpec
CONSTANTS
  Corpus <- QuotedCorpus
  Gold = {"g1", "g2"}
  Aliases = {"right"}
  Topk = 3
  Budget = 6
  Rrf = 1
  Plans <- OneSpecialist
  MaxResponse = 13
INVARIANTS ObservationsMatch
