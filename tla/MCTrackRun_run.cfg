\* An LLM pair and two baselines' in one window, one fault, foreign keys enforced.
SPECIFICATION FairSpec
CONSTANTS
  None = None
  c1 = c1
  c2 = c2
  Reused = Reused
  QuantTop = 1
  QuantWeight = 10000
  RandomPicks = 2
  Benchmark = "SPY"
  SymbolRank <- Alphabet
  PairList <- WindowPairs
  LLMTracks = {"yolo"}
  CouncilList <- Council
  Excluded <- ExcludedOn
  KnownTracks = {"yolo", "quant_signal", "random_baseline", "benchmark"}
  Strict = TRUE
  Answers <- CouncilAnswers
  JudgePlans <- LLMPlans
  BadAnswers <- Faulty
  BadPlans <- FaultyPlans
  MaxFaults = 1
INVARIANTS InputsSound OwnPacket QuarantineContained AccountsAgree BaselineSound
PROPERTIES ImplementsPairs PairsEnd
CHECK_DEADLOCK FALSE
