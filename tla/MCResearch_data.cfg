\* Two workers, one retry, one request in two ticks, one process killed.
SPECIFICATION FairSpec
CONSTANTS
  None = None
  StaleDays = 120
  Workers = {"w1", "w2"}
  Processes = {"p1", "p2"}
  Caches = {"c1", "c2"}
  Tickers = "company_tickers"
  CompanyFacts = "company_facts"
  Torn = Torn
  Ttl <- MCTtl
  Window = 2
  MaxRps = 1
  MaxRetries = 1
  MaxRuns = 1
  MaxCrashes = 1
  Settings <- MCSettings
  Setup <- MCSetup
  Company <- MCCompany
  Market <- MCMarket
  Today = 300
  CannedUniverse <- MCCanned
INVARIANTS DocumentsServed LimiterHonoured SummaryTraceable UniverseSound
PROPERTIES CommandsEnd
CHECK_DEADLOCK FALSE
