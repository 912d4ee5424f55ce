SPECIFICATION RolloutSpec
CONSTANTS
  Corpus <- MCCorpus
  Gold = {"g1", "g2"}
  Aliases = {"right"}
  Topk = 3
  Budget = 6
  Rrf = 1
  Plans <- MCPlans
  MaxResponse = 13
INVARIANTS RowsAreAligned TrainingMatchesEvaluation RewardIsTheMetric
  ValidationScoresEachRow
